-------------------------- MODULE MCAutonomousRail --------------------------
(***************************************************************************)
(* Instances of AutonomousRail for TLC.                                    *)
(***************************************************************************)
EXTENDS AutonomousRail, TLC

CONSTANTS j1, j2, a1, a2, w1

OneJob       == {j1}
TwoJobs      == {j1, j2}
OneMachine   == {a1}
TwoMachines  == {a1, a2}
WithHand     == {a1, w1}
Everyone     == {a1, a2, w1}
JobSymmetry  == Permutations(TwoJobs)
PairSymmetry == Permutations(TwoJobs) \cup Permutations(TwoMachines)
=============================================================================
