---------------------------- MODULE MCMailIntake ----------------------------
(* Instances of MailIntake for TLC. *)
EXTENDS MailIntake, TLC
CONSTANTS x1, x2, p1, p2
MailSymmetry == Permutations(Prospects) \cup Permutations(Pollers)
=============================================================================
