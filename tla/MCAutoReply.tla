---------------------------- MODULE MCAutoReply ----------------------------
(* Instances of AutoReply for TLC. *)
EXTENDS AutoReply, TLC
CONSTANTS r1, r2, o1
ReplySymmetry == Permutations(Runtimes)
=============================================================================
