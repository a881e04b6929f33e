--------------------------- MODULE MCDispatchRail ---------------------------
(***************************************************************************)
(* Instances of DispatchRail for TLC.                                      *)
(***************************************************************************)
EXTENDS DispatchRail, TLC

CONSTANTS j1, j2, w1, w2, d1, o1

OneJob      == {j1}
TwoJobs     == {j1, j2}
TwoLive     == {w1, w2}
OneLive     == {w1}
LiveSymmetry == Permutations(TwoLive)
FullSymmetry == Permutations(TwoLive) \cup Permutations(TwoJobs)
Everyone    == {w1, w2, d1, o1}
=============================================================================
