--------------------------- MODULE MCBrowserLease ---------------------------
(***************************************************************************)
(* Instances of BrowserLease for TLC.                                      *)
(***************************************************************************)
EXTENDS BrowserLease

CONSTANTS p1, p2, p3, p4

ThreePids  == {p1, p2, p3}
FourPids   == {p1, p2, p3, p4}
OneMortal  == {p1}
TwoMortals == {p1, p2}
=============================================================================
