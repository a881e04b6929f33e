-------------------------- MODULE MCEmailDispatch --------------------------
(***************************************************************************)
(* Instances of EmailDispatch for TLC.                                     *)
(***************************************************************************)
EXTENDS EmailDispatch, TLC

CONSTANTS d1, d2, r1, r2

OneDispatcher  == {d1}
TwoDispatchers == {d1, d2}
OneReconciler  == {r1}
TwoReconcilers == {r1, r2}
EmailSymmetry  == Permutations(TwoDispatchers) \cup Permutations(TwoReconcilers)
=============================================================================
