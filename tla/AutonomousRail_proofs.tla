----------------------- MODULE AutonomousRail_proofs -----------------------
(***************************************************************************)
(* The autonomous driver adds nothing to the rail: each of its steps is a  *)
(* step DispatchRail allows anyway, so everything proved of the rail holds *)
(* of a deployment that runs it, for any number of runtimes.  What it      *)
(* promises of its own - its budget, and what it leaves armed - is proved  *)
(* from where each runtime is in its loop.                                 *)
(***************************************************************************)
EXTENDS AutonomousRail, DispatchRail_proofs

\* A runtime, without the bound on its effects.
LooseRuntime == [ pc      : {"off", "killed", "idle", "gating", "picking", "picked", "parking",
                             "arming", "starting", "running", "throwing"},
                  job     : Jobs \cup {NoManifest},
                  seen    : SUBSET Jobs,
                  effects : Nat ]

\* From the pick to the run, the driver has a job in hand.
InHand == {"picked", "parking", "arming", "starting"}

RuntimeKnows(r) == r.pc \in InHand => r.job \in Jobs

DriverTyped == /\ auto \in [Autonomous -> LooseRuntime]
               /\ \A w \in Autonomous : RuntimeKnows(auto[w])

LEMMA RuntimeReplaced ==
  ASSUME DriverTyped, NEW w \in Autonomous, NEW r \in LooseRuntime, RuntimeKnows(r),
         auto' = [auto EXCEPT ![w] = r]
  PROVE  DriverTyped'
  BY DEF DriverTyped, RuntimeKnows

LEMMA DriverGoes ==
  ASSUME DriverTyped, NEW w \in Autonomous,
         NEW step \in {"gating", "picking", "parking", "arming", "starting", "running", "throwing"},
         step \in InHand => auto[w].pc \in InHand,
         AutoGoto(w, step)
  PROVE  DriverTyped'
<1> DEFINE r == [auto[w] EXCEPT !.pc = step]
<1>1. r \in LooseRuntime /\ RuntimeKnows(r)
  BY DEF DriverTyped, LooseRuntime, RuntimeKnows
<1>2. auto' = [auto EXCEPT ![w] = r]
  BY DEF AutoGoto
<1> QED
  BY <1>1, <1>2, RuntimeReplaced

LEMMA DriverResets ==
  ASSUME DriverTyped, NEW w \in Autonomous, NEW step \in {"off", "killed", "idle", "gating"},
         auto' = [auto EXCEPT ![w] = [NoRuntime EXCEPT !.pc = step]]
  PROVE  DriverTyped'
<1>1. [NoRuntime EXCEPT !.pc = step] \in LooseRuntime
  BY DEF NoRuntime, LooseRuntime
<1>2. RuntimeKnows([NoRuntime EXCEPT !.pc = step])
  BY DEF NoRuntime, RuntimeKnows, InHand
<1> QED
  BY <1>1, <1>2, RuntimeReplaced

LEMMA DriverEnds ==
  ASSUME DriverTyped, NEW w \in Autonomous, auto' = [auto EXCEPT ![w] = NoRuntime]
  PROVE  DriverTyped'
<1>1. NoRuntime \in LooseRuntime /\ RuntimeKnows(NoRuntime)
  BY DEF NoRuntime, LooseRuntime, RuntimeKnows, InHand
<1> QED
  BY <1>1, RuntimeReplaced

LEMMA DriverStepTyped ==
  ASSUME DriverTyped, NEW w \in Autonomous, AutonomousStep(w) PROVE DriverTyped'
<1>0. auto[w] \in LooseRuntime /\ RuntimeKnows(auto[w])
  BY DEF DriverTyped
<1> USE DEF AutoAt, InHand
<1>1. CASE UNCHANGED auto
  BY <1>1 DEF DriverTyped
<1>2. CASE TurnStarts(w)
  BY <1>2, DriverResets DEF TurnStarts
<1>3. CASE Gate(w)
  BY <1>3, DriverGoes DEF Gate
<1>4. CASE TurnEnds(w)
  BY <1>4, DriverResets DEF TurnEnds
<1>5. CASE Pick(w)
  <2>1. ASSUME NEW j \in Jobs,
               auto' = [auto EXCEPT ![w].pc = "picked", ![w].job = j, ![w].seen = @ \cup {j}]
        PROVE  DriverTyped'
    <3> DEFINE r == [auto[w] EXCEPT !.pc = "picked", !.job = j, !.seen = auto[w].seen \cup {j}]
    <3>1. auto[w].seen \cup {j} \in SUBSET Jobs
      BY <1>0 DEF LooseRuntime
    <3>2. r \in LooseRuntime /\ RuntimeKnows(r)
      BY <1>0, <3>1 DEF LooseRuntime, RuntimeKnows
    <3>3. auto' = [auto EXCEPT ![w] = r]
      BY <2>1 DEF DriverTyped
    <3> QED
      BY <3>2, <3>3, RuntimeReplaced
  <2>2. CASE AutoGoto(w, "gating")
    BY <2>2, DriverGoes
  <2> QED
    BY <1>5, <2>1, <2>2 DEF Pick, Due
<1>6. CASE JudgeJob(w)
  BY <1>6, DriverGoes DEF JudgeJob
<1>7. CASE Park(w)
  BY <1>1, <1>7, DriverGoes, DriverEnds DEF Park
<1>8. CASE ArmOwn(w)
  <2>1. AutoGoto(w, "starting") \/ AutoGoto(w, "gating")
    BY <1>8 DEF ArmOwn
  <2> QED
    BY <1>8, <2>1, DriverGoes DEF ArmOwn
<1>9. CASE Start(w)
  BY <1>9, DriverGoes DEF Start
<1>10. CASE Hook(w)
  BY <1>1, <1>10 DEF Hook, autoVars
<1>11. CASE Continue(w)
  <2>1. PICK n \in Nat : auto' = [auto EXCEPT ![w].effects = n]
    <3>1. auto[w].effects \in Nat /\ auto[w].effects + 1 \in Nat
      BY <1>0 DEF LooseRuntime
    <3> QED
      BY <1>11, <3>1 DEF Continue, DriverTyped
  <2>2. [auto[w] EXCEPT !.effects = n] \in LooseRuntime
        /\ RuntimeKnows([auto[w] EXCEPT !.effects = n])
    BY <1>0 DEF LooseRuntime, RuntimeKnows
  <2> QED
    BY <2>1, <2>2, RuntimeReplaced
<1>12. CASE Returns(w)
  BY <1>12, DriverGoes, DriverEnds DEF Returns
<1>13. CASE Stop(w)
  BY <1>1, <1>13, DriverEnds DEF Stop
<1>14. CASE Throw(w)
  BY <1>14, DriverGoes, DriverEnds DEF Throw
<1>15. CASE Killed(w)
  BY <1>15, DriverResets DEF Killed
<1> QED
  BY <1>2, <1>3, <1>4, <1>5, <1>6, <1>7, <1>8, <1>9, <1>10, <1>11, <1>12, <1>13, <1>14, <1>15
     DEF AutonomousStep

LEMMA DriverTypedKept == DriverTyped /\ [AutonomousNext]_allVars => DriverTyped'
<1> SUFFICES ASSUME DriverTyped, [AutonomousNext]_allVars PROVE DriverTyped'
  OBVIOUS
<1>1. CASE UNCHANGED auto
  BY <1>1 DEF DriverTyped
<1>2. CASE HumanStep \/ DeploymentStep \/ UNCHANGED autoVars \/ UNCHANGED allVars
  BY <1>1, <1>2 DEF HumanStep, DeploymentStep, Activate, RevokeActivation, UpgradePolicy,
                    autoVars, allVars
<1> QED
  BY <1>2, DriverStepTyped DEF AutonomousNext

-----------------------------------------------------------------------------
(* Each step of the driver is one of the rail's, or none *)

\* What a live process, the operator or the clock may do on the rail.
LiveSide == /\ \/ \E w \in LiveWorkers : LiveStep(w)
               \/ OperatorStep
               \/ JobClock \/ CanaryClock \/ PaceClock
            /\ UNCHANGED <<dry, closing, retired>>

LEMMA AutonomousAreLive ==
  ASSUME NEW w \in Autonomous PROVE w \in LiveWorkers /\ w \in Closers /\ FALSE \in Modes
  BY LiveAssumption, AutonomousAssumption

LEMMA StepsOfTheRail ==
  /\ LiveSide => RailNext
  /\ \A o \in Closers : CloserStep(o) => RailNext
  /\ \A w \in LiveWorkers : LiveStep(w) /\ UNCHANGED <<dry, closing, retired>> => LiveSide
  /\ OperatorStep /\ UNCHANGED <<dry, closing, retired>> => LiveSide
  BY DEF LiveSide, RailNext

\* Between two runs the driver recovers leases, arms and revokes, as an
\* operator may.
LEMMA DriverOperates ==
  ASSUME NEW w \in Autonomous, DriverTyped, TurnStarts(w) \/ ArmOwn(w) \/ Stop(w)
  PROVE  LiveSide \/ UNCHANGED railVars
<1>1. CASE TurnStarts(w)
  BY <1>1, StepsOfTheRail DEF TurnStarts, OperatorStep
<1>2. CASE ArmOwn(w)
  <2>1. auto[w].job \in Jobs
    BY <1>2 DEF ArmOwn, DriverTyped, RuntimeKnows, AutoAt, InHand
  <2>2. ASSUME ArmCanary(auto[w].job, "AUTONOMOUS_POLICY") PROVE OperatorStep
    BY <2>1, <2>2 DEF OperatorStep, ArmingKinds
  <2> QED
    BY <1>2, <2>2, StepsOfTheRail DEF ArmOwn
<1>3. CASE Stop(w)
  <2>1. ASSUME NEW c \in CanaryIds, RevokeCanary(c) PROVE OperatorStep
    BY <2>1 DEF OperatorStep
  <2> QED
    BY <1>3, <2>1, StepsOfTheRail DEF Stop
<1> QED
  BY <1>1, <1>2, <1>3

\* A job it parks is claimed and finalized as a closer would.
LEMMA DriverParks ==
  ASSUME NEW w \in Autonomous, DriverTyped, Park(w)
  PROVE  CloserStep(w) \/ UNCHANGED railVars
<1>1. auto[w].job \in Jobs
  BY DEF Park, DriverTyped, RuntimeKnows, AutoAt, InHand
<1> QED
  BY <1>1 DEF Park, CloserStep

\* Its runs are live runs: the hook that re-reads the gates only adds a way
\* to fail, which the rail has already.
LEMMA DriverRuns ==
  ASSUME NEW w \in Autonomous, DriverTyped, Start(w) \/ Hook(w) \/ Continue(w)
  PROVE  LiveSide \/ UNCHANGED railVars
<1>0. w \in LiveWorkers /\ FALSE \in Modes
  BY AutonomousAreLive
<1>1. CASE Start(w)
  <2>1. auto[w].job \in Jobs
    BY <1>1 DEF Start, DriverTyped, RuntimeKnows, AutoAt, InHand
  <2>2. Begin(w, auto[w].job, FALSE) => LiveStep(w)
    BY <1>0, <2>1 DEF LiveStep
  <2> QED
    BY <1>0, <1>1, <2>2, StepsOfTheRail DEF Start
<1>2. CASE Hook(w)
  <2>1. PICK othersOk \in BOOLEAN : EnterHook(w, SafetyAllows /\ othersOk)
    BY <1>2 DEF Hook
  <2>2. EnterHook(w, TRUE) \/ ComposerRefuses(w)
    BY <2>1 DEF EnterHook, ComposerRefuses
  <2>3. LiveStep(w)
    BY <2>2 DEF LiveStep, RunStep
  <2> QED
    BY <1>0, <1>2, <2>3, StepsOfTheRail DEF Hook
<1>3. CASE Continue(w)
  BY <1>0, <1>3, StepsOfTheRail DEF Continue, LiveStep
<1> QED
  BY <1>1, <1>2, <1>3

\* An exception or the death of the runtime is one in its run, or of the
\* closer it was.
LEMMA DriverFails ==
  ASSUME NEW w \in Autonomous,
         \/ "raise" \in Incidents /\ Throw(w)
         \/ "crash" \in Incidents /\ Killed(w)
  PROVE  LiveSide \/ CloserStep(w) \/ UNCHANGED railVars
<1>0. w \in LiveWorkers
  BY AutonomousAreLive
<1>1. DropLocals(w) => CloserStep(w) \/ UNCHANGED railVars
  BY DEF DropLocals, CloserStep
<1>2. "raise" \in Incidents /\ Raise(w) => LiveStep(w)
  BY DEF LiveStep
<1>3. "crash" \in Incidents /\ Crash(w) => LiveStep(w)
  BY DEF LiveStep
<1> QED
  BY <1>0, <1>1, <1>2, <1>3, StepsOfTheRail DEF Throw, Killed

LEMMA DriverStepOnRail ==
  ASSUME DriverTyped, [AutonomousNext]_allVars PROVE [RailNext]_railVars
<1>1. ASSUME NEW w \in Autonomous, AutonomousStep(w) PROVE [RailNext]_railVars
  <2>0. w \in Closers
    BY AutonomousAreLive
  <2>1. CASE TurnStarts(w) \/ ArmOwn(w) \/ Stop(w)
    BY <2>1, DriverOperates, StepsOfTheRail
  <2>2. CASE Park(w)
    BY <2>0, <2>2, DriverParks, StepsOfTheRail
  <2>3. CASE Start(w) \/ Hook(w) \/ Continue(w)
    BY <2>3, DriverRuns, StepsOfTheRail
  <2>4. CASE \/ "raise" \in Incidents /\ Throw(w)
             \/ "crash" \in Incidents /\ Killed(w)
    BY <2>0, <2>4, DriverFails, StepsOfTheRail
  <2>5. CASE Gate(w) \/ TurnEnds(w) \/ Pick(w) \/ JudgeJob(w) \/ Returns(w)
    BY <2>5 DEF Gate, TurnEnds, Pick, JudgeJob, Returns
  <2> QED
    BY <1>1, <2>1, <2>2, <2>3, <2>4, <2>5 DEF AutonomousStep
<1>2. CASE HumanStep
  <2>1. ASSUME NEW j \in Jobs, "arm" \in Incidents /\ ArmCanary(j, "HUMAN") PROVE OperatorStep
    BY <2>1 DEF OperatorStep, ArmingKinds
  <2>2. ASSUME NEW c \in CanaryIds, "revoke" \in Incidents /\ RevokeCanary(c) PROVE OperatorStep
    BY <2>2 DEF OperatorStep
  <2>3. \/ OperatorStep \/ JobClock \/ CanaryClock \/ PaceClock
        \/ \E w \in LiveWorkers : LiveStep(w)
    BY <1>2, <2>1, <2>2 DEF HumanStep, OperatorStep
  <2> QED
    BY <1>2, <2>3, StepsOfTheRail DEF HumanStep, LiveSide
<1>3. CASE DeploymentStep
  BY <1>3 DEF DeploymentStep, Activate, RevokeActivation, UpgradePolicy
<1>4. CASE (\E d \in DryWorkers : DryStep(d)) \/ (\E o \in Closers : CloserStep(o))
  BY <1>4 DEF RailNext
<1>5. CASE UNCHANGED allVars
  BY <1>5 DEF allVars, railVars
<1> QED
  BY <1>1, <1>2, <1>3, <1>4, <1>5 DEF AutonomousNext

\* Whatever a deployment's runtimes do - turn, park, arm, run, throw or die -
\* is something the rail allows any process.
THEOREM DriverStaysOnTheRailTheorem == AutonomousSpec => DriverStaysOnTheRail
<1>1. AutonomousInit => RailInit /\ DriverTyped
  BY DEF AutonomousInit, DriverTyped, LooseRuntime, NoRuntime, RuntimeKnows, InHand
<1> QED
  BY <1>1, DriverTypedKept, DriverStepOnRail, PTL DEF AutonomousSpec, RailSpec, DriverStaysOnTheRail

\* So no runtime, and no number of them, clicks twice on one manifest, or
\* makes a contact the rail did not announce and settle once.
THEOREM AutonomousClicksOnceTheorem == AutonomousSpec => []ClickedAtMostOnce /\ KeepsItsPromise
  BY DriverStaysOnTheRailTheorem, ClickedAtMostOnceTheorem, KeepsItsPromiseTheorem
     DEF DriverStaysOnTheRail

-----------------------------------------------------------------------------
(* What a runtime knows of its own run *)

\* Past the head of the loop and short of the mark: the turn may still attempt
\* one effect on what it read there.
Engaged(w) ==
    \/ auto[w].pc \in {"picking", "picked", "parking", "arming", "starting"}
    \/ auto[w].pc = "running" /\ live[w].pc \in Unattempted \ {"idle"}

\* A runtime has a run in hand only where its loop waits for one.
AutoKnows(w) ==
    /\ ~At(w, "idle") => auto[w].pc \in {"running", "throwing"}
    /\ AutoAt(w, "throwing") => live[w].pc \in {"closing", "idle"}
    /\ auto[w].effects <= TurnCeiling
    /\ Engaged(w) => auto[w].effects < TurnCeiling

DeploymentTyped ==
    /\ \/ activation = NoActivation
       \/ activation \in [budget : 1..MaxBudget, before : SUBSET Jobs]
    /\ covered \subseteq Jobs

DriverInv == /\ DriverTyped /\ DeploymentTyped
             /\ \A w \in Autonomous : AutoKnows(w)

\* The attempts so far, and what the runtimes may still add to them.
Attempted == {j \in Jobs : jobs[j].effect}

EngagedOnes == {w \in Autonomous : Engaged(w)}

WithinBudget ==
    /\ IsFiniteSet(Attempted)
    /\ activation # NoActivation =>
          SpentSince(activation) + Cardinality(EngagedOnes) < activation.budget + Cardinality(Autonomous)

\* A turn parks a job nobody attempted, and only while it parks it.
ParksWell(w) ==
    /\ auto[w].pc \in {"picked", "parking"} => ~jobs[auto[w].job].effect
    /\ closing[w].pc \in {"idle", "parking"}
    /\ closing[w].pc = "parking" => AutoAt(w, "parking") /\ closing[w].job = auto[w].job

LeavesNothing ==
    \A w \in Autonomous :
        /\ ~AutoAt(w, "throwing")
        /\ ParksWell(w)
        /\ AutoAt(w, "off") =>
              \A c \in CanaryIds : canaries[c].state = "ARMED" => canaries[c].kind = "HUMAN"

-----------------------------------------------------------------------------
(* One runtime moves at a time *)

LEMMA OneDriverMoves ==
  ASSUME Typed, DriverTyped, NEW w \in Autonomous, AutonomousStep(w), NEW v \in Autonomous \ {w}
  PROVE  auto'[v] = auto[v] /\ live'[v] = live[v]
<1>0. /\ auto \in [Autonomous -> LooseRuntime] /\ w \in LiveWorkers /\ v \in LiveWorkers
      /\ FALSE \in Modes /\ auto[w].job \in Jobs \cup {NoManifest}
  BY LiveAssumption, AutonomousAssumption DEF DriverTyped, LooseRuntime
<1>1. LiveStep(w) => live'[v] = live[v]
  BY <1>0, LiveStepMovesOne
<1>2. UNCHANGED railVars => UNCHANGED live
  BY DEF railVars
<1>3. CASE TurnStarts(w) \/ Gate(w) \/ TurnEnds(w) \/ Pick(w) \/ JudgeJob(w) \/ Returns(w) \/ Stop(w)
  BY <1>0, <1>2, <1>3 DEF TurnStarts, RecoverLeases, Gate, TurnEnds, Pick, JudgeJob, Returns, Stop,
                          RevokeCanary, AutoGoto
<1>4. CASE Park(w)
  BY <1>0, <1>2, <1>4 DEF Park, ParkClaim, ParkFinalize, AutoGoto
<1>5. CASE ArmOwn(w)
  <2>1. \E step : AutoGoto(w, step)
    BY <1>5 DEF ArmOwn
  <2>2. UNCHANGED live
    BY <1>2, <1>5 DEF ArmOwn, ArmCanary
  <2> QED
    BY <1>0, <2>1, <2>2 DEF AutoGoto
<1>6. CASE Start(w)
  <2>1. auto[w].job \in Jobs
    BY <1>6 DEF Start, AutoAt, DriverTyped, RuntimeKnows, InHand
  <2>2. LiveStep(w) \/ UNCHANGED live
    BY <1>0, <1>2, <1>6, <2>1 DEF Start, LiveStep
  <2> QED
    BY <1>0, <1>1, <1>6, <2>2 DEF Start, AutoGoto
<1>7. CASE Hook(w)
  <2>1. PICK othersOk \in BOOLEAN : EnterHook(w, SafetyAllows /\ othersOk)
    BY <1>7 DEF Hook
  <2>2. EnterHook(w, TRUE) \/ ComposerRefuses(w)
    BY <2>1 DEF EnterHook, ComposerRefuses
  <2>3. LiveStep(w)
    BY <2>2 DEF LiveStep, RunStep
  <2> QED
    BY <1>1, <1>7, <2>3 DEF Hook, autoVars
<1>8. CASE Continue(w)
  <2>1. \E n : auto' = [auto EXCEPT ![w].effects = n]
    BY <1>8 DEF Continue
  <2> QED
    BY <1>0, <1>1, <1>8, <2>1 DEF Continue, LiveStep
<1>9. CASE "raise" \in Incidents /\ Throw(w)
  <2>1. LiveStep(w) \/ UNCHANGED live
    BY <1>2, <1>9 DEF Throw, LiveStep, DropLocals, CloserCrash
  <2> QED
    BY <1>0, <1>1, <1>9, <2>1 DEF Throw, AutoGoto
<1>10. CASE "crash" \in Incidents /\ Killed(w)
  <2>1. LiveStep(w) \/ UNCHANGED live
    BY <1>2, <1>10 DEF Killed, LiveStep, DropLocals, CloserCrash
  <2> QED
    BY <1>0, <1>1, <1>10, <2>1 DEF Killed
<1> QED
  BY <1>3, <1>4, <1>5, <1>6, <1>7, <1>8, <1>9, <1>10 DEF AutonomousStep

\* Every other step leaves the runtimes and their runs alone.
LEMMA DriversRest ==
  ASSUME Typed, [AutonomousNext]_allVars, NEW v \in Autonomous,
         \A w \in Autonomous : ~AutonomousStep(w)
  PROVE  auto'[v] = auto[v] /\ live'[v] = live[v]
<1>0. v \in LiveWorkers
  BY LiveAssumption
<1>1. CASE UNCHANGED allVars
  BY <1>1 DEF allVars
<1>2. CASE HumanStep
  <2>1. \/ UNCHANGED live
        \/ \E w \in LiveWorkers \ Autonomous : LiveStep(w)
    BY <1>2 DEF HumanStep, EnqueueJob, ArmCanary, SupersedeManifest, RevokeCanary, SetKillSwitch,
                JobClock, CanaryClock, PaceClock
  <2> QED
    BY <1>0, <1>2, <2>1, LiveStepMovesOne DEF HumanStep, autoVars
<1>3. CASE DeploymentStep
  BY <1>3 DEF DeploymentStep, Activate, RevokeActivation, UpgradePolicy, railVars
<1>4. CASE /\ \/ \E d \in DryWorkers : DryStep(d)
              \/ \E o \in Closers \ Autonomous : CloserStep(o)
           /\ UNCHANGED autoVars
  BY <1>4, BesideLeavesRuns DEF autoVars
<1> QED
  BY <1>1, <1>2, <1>3, <1>4 DEF AutonomousNext

\* How a run moves between the two ends of the call.
LEMMA RunStepShape ==
  ASSUME Typed, NEW w \in LiveWorkers, RunStep(w)
  PROVE  /\ live[w].pc # "idle"
         /\ live'[w].pc = "idle" <=> live[w].pc = "closing"
         /\ live'[w].pc \in Unattempted \ {"idle"} => live[w].pc \in Unattempted \ {"idle"}
<1>0. live \in [LiveWorkers -> Run] /\ live[w] \in Run
  BY DEF Typed, TypeOK
<1> USE DEF At
<1>1. ASSUME NEW v, FinishWith(w, v) PROVE live'[w].pc = "finishing"
  BY <1>1, ShapesOfEffect
<1>2. Leave(w) => live'[w].pc = "closing"
  BY ShapesOfEffect
<1>3. \A step : Goto(w, step) => live'[w].pc = step
  BY ShapesOfEffect
<1>4. CASE ResolveTarget(w) \/ OpenBrowser(w) \/ PageRefuses(w) \/ ComposerRefuses(w)
  BY <1>1, <1>2, <1>3, <1>4 DEF ResolveTarget, OpenBrowser, PageRefuses, ComposerRefuses, Unattempted
<1>5. CASE TakeLease(w)
  BY <1>1, <1>5, TakeLeaseShape DEF TakeLease, Unattempted
<1>6. CASE CheckCanary(w)
  <2>1. ASSUME NEW c, live' = [live EXCEPT ![w].pc = "checked", ![w].canary = c] PROVE live'[w].pc = "checked"
    <3>1. live'[w] = [live[w] EXCEPT !.pc = "checked", !.canary = c]
      BY <1>0, <2>1
    <3> QED
      BY <1>0, <3>1 DEF Run
  <2> QED
    BY <1>1, <1>6, <2>1 DEF CheckCanary, Unattempted
<1>7. CASE ReservePermission(w) \/ SpendPermission(w) \/ ReserveSlot(w)
  <2>1. ASSUME live' = [live EXCEPT ![w].pc = "reserved", ![w].held = TRUE] PROVE live'[w].pc = "reserved"
    BY <1>0, <2>1 DEF Run
  <2>2. ASSUME live' = [live EXCEPT ![w].pc = "consumed", ![w].held = FALSE] PROVE live'[w].pc = "consumed"
    BY <1>0, <2>2 DEF Run
  <2>3. ASSUME live' = [live EXCEPT ![w].pc = "marked", ![w].effect = TRUE] PROVE live'[w].pc = "marked"
    BY <1>0, <2>3 DEF Run
  <2> QED
    BY <1>1, <1>7, <2>1, <2>2, <2>3 DEF ReservePermission, SpendPermission, ReserveSlot, Unattempted
<1>8. CASE Click(w) \/ Judge(w) \/ RecordSent(w) \/ EnsureContacted(w) \/ RecordOutcome(w) \/ FinalizeRun(w)
  BY <1>1, <1>2, <1>3, <1>8 DEF Click, Judge, RecordSent, EnsureContacted, RecordOutcome, FinalizeRun, Unattempted
<1>9. CASE CloseRun(w)
  BY <1>0, <1>9 DEF CloseRun, NoRun
<1> QED
  BY <1>4, <1>5, <1>6, <1>7, <1>8, <1>9 DEF RunStep

-----------------------------------------------------------------------------
(* A runtime counts its effects *)

LEMMA DriverShapes ==
  ASSUME DriverTyped, NEW w \in Autonomous
  PROVE  /\ \A step : AutoGoto(w, step) => auto'[w].pc = step /\ auto'[w].effects = auto[w].effects
                                           /\ auto'[w].job = auto[w].job
         /\ \A step : auto' = [auto EXCEPT ![w] = [NoRuntime EXCEPT !.pc = step]]
                        => auto'[w].pc = step /\ auto'[w].effects = 0
         /\ auto' = [auto EXCEPT ![w] = NoRuntime] => auto'[w].pc = "off" /\ auto'[w].effects = 0
<1>0. auto \in [Autonomous -> LooseRuntime] /\ auto[w] \in LooseRuntime
  BY DEF DriverTyped
<1>1. ASSUME NEW step, AutoGoto(w, step)
      PROVE  auto'[w].pc = step /\ auto'[w].effects = auto[w].effects /\ auto'[w].job = auto[w].job
  <2>1. auto'[w] = [auto[w] EXCEPT !.pc = step]
    BY <1>0, <1>1 DEF AutoGoto
  <2> QED
    BY <1>0, <2>1 DEF LooseRuntime
<1>2. ASSUME NEW step, auto' = [auto EXCEPT ![w] = [NoRuntime EXCEPT !.pc = step]]
      PROVE  auto'[w].pc = step /\ auto'[w].effects = 0
  BY <1>0, <1>2 DEF NoRuntime
<1>3. auto' = [auto EXCEPT ![w] = NoRuntime] => auto'[w].pc = "off" /\ auto'[w].effects = 0
  BY <1>0 DEF NoRuntime
<1> QED
  BY <1>1, <1>2, <1>3

\* Only the head of the loop lets a turn on, and only within its ceiling.
LEMMA DriverStepKnows ==
  ASSUME Typed, DriverTyped, NEW w \in Autonomous, AutoKnows(w), AutonomousStep(w)
  PROVE  AutoKnows(w)' /\ (Engaged(w)' => Engaged(w) \/ Gate(w))
<1>0. /\ auto \in [Autonomous -> LooseRuntime] /\ auto[w] \in LooseRuntime /\ w \in LiveWorkers
      /\ live \in [LiveWorkers -> Run] /\ TurnCeiling \in Nat /\ auto[w].effects \in Nat /\ FALSE \in Modes
  BY LiveAssumption, AutonomousAssumption DEF DriverTyped, LooseRuntime, Typed, TypeOK
<1> USE DEF AutoAt, At
<1> HIDE DEF InHand
<1>1. UNCHANGED railVars => live'[w] = live[w]
  BY DEF railVars
<1>2. ASSUME live'[w].pc = "idle", auto'[w].effects = 0, auto'[w].pc \in {"off", "killed", "idle", "gating"}
      PROVE  AutoKnows(w)' /\ ~Engaged(w)'
  BY <1>0, <1>2 DEF AutoKnows, Engaged
<1>3. ASSUME live'[w].pc = "idle", auto'[w].effects = auto[w].effects, auto'[w].pc = "gating"
      PROVE  AutoKnows(w)' /\ ~Engaged(w)'
  BY <1>0, <1>3 DEF AutoKnows, Engaged
<1>4. ASSUME live'[w].pc = "idle", auto'[w].effects = auto[w].effects, auto[w].effects < TurnCeiling,
             auto'[w].pc \in {"picking", "picked", "parking", "arming", "starting"}
      PROVE  AutoKnows(w)'
  BY <1>0, <1>4 DEF AutoKnows, Engaged
<1>5. CASE TurnStarts(w)
  BY <1>2, <1>5, DriverShapes DEF TurnStarts, RecoverLeases, AutoKnows
<1>6. CASE Gate(w)
  BY <1>1, <1>4, <1>6, DriverShapes DEF Gate, AutoKnows
<1>7. CASE TurnEnds(w)
  BY <1>1, <1>2, <1>7, DriverShapes DEF TurnEnds, AutoKnows
<1>8. CASE Pick(w)
  <2>0. live'[w].pc = "idle" /\ Engaged(w) /\ auto[w].effects < TurnCeiling
    BY <1>1, <1>8 DEF Pick, AutoKnows, Engaged
  <2>1. ASSUME NEW j \in Jobs, auto' = [auto EXCEPT ![w].pc = "picked", ![w].job = j, ![w].seen = @ \cup {j}]
        PROVE  auto'[w].pc = "picked" /\ auto'[w].effects = auto[w].effects
    BY <1>0, <2>1 DEF LooseRuntime
  <2>2. CASE AutoGoto(w, "gating")
    BY <1>3, <2>0, <2>2, DriverShapes
  <2> QED
    BY <1>4, <1>8, <2>0, <2>1, <2>2 DEF Pick, Due
<1>9. CASE JudgeJob(w)
  <2>0. live'[w].pc = "idle" /\ Engaged(w) /\ auto[w].effects < TurnCeiling
    BY <1>1, <1>9 DEF JudgeJob, AutoKnows, Engaged
  <2> QED
    BY <1>3, <1>4, <1>9, <2>0, DriverShapes DEF JudgeJob
<1>10. CASE Park(w)
  <2>0. live'[w].pc = "idle" /\ Engaged(w) /\ auto[w].effects < TurnCeiling
    BY <1>1, <1>10 DEF Park, ParkClaim, ParkFinalize, AutoKnows, Engaged
  <2>1. CASE UNCHANGED auto
    BY <1>4, <1>10, <2>0, <2>1 DEF Park
  <2>2. CASE AutoGoto(w, "gating")
    BY <1>3, <2>0, <2>2, DriverShapes
  <2>3. CASE auto' = [auto EXCEPT ![w] = NoRuntime]
    BY <1>2, <2>0, <2>3, DriverShapes
  <2> QED
    BY <1>10, <2>1, <2>2, <2>3 DEF Park
<1>11. CASE ArmOwn(w)
  <2>0. live'[w].pc = "idle" /\ Engaged(w) /\ auto[w].effects < TurnCeiling
    BY <1>1, <1>11 DEF ArmOwn, ArmCanary, AutoKnows, Engaged
  <2>1. AutoGoto(w, "starting") \/ AutoGoto(w, "gating")
    BY <1>11 DEF ArmOwn
  <2> QED
    BY <1>3, <1>4, <2>0, <2>1, DriverShapes
<1>12. CASE Start(w)
  <2>0. live[w].pc = "idle" /\ Engaged(w) /\ auto[w].effects < TurnCeiling
    BY <1>12 DEF Start, AutoKnows, Engaged
  <2>1. CASE Begin(w, auto[w].job, FALSE) /\ AutoGoto(w, "running")
    <3>1. live'[w].pc = "swept"
      BY <1>0, <2>1 DEF Begin, NoRun
    <3>2. auto'[w].pc = "running" /\ auto'[w].effects = auto[w].effects
      BY <2>1, DriverShapes
    <3> QED
      BY <1>0, <2>0, <3>1, <3>2 DEF AutoKnows
  <2>2. CASE AutoGoto(w, "gating") /\ UNCHANGED railVars
    BY <1>1, <1>3, <2>0, <2>2, DriverShapes
  <2> QED
    BY <1>12, <2>1, <2>2 DEF Start
<1>13. CASE Hook(w)
  <2>1. live[w].pc = "reserved" /\ live'[w].pc \in {"cleared", "finishing"} /\ UNCHANGED auto
    BY <1>0, <1>13, ShapesOfEffect DEF Hook, EnterHook, autoVars
  <2>2. auto[w].pc = "running" /\ Engaged(w)
    BY <2>1 DEF AutoKnows, Engaged, Unattempted
  <2> QED
    BY <1>0, <2>1, <2>2 DEF AutoKnows
<1>14. CASE Continue(w)
  <2>1. /\ live[w].pc # "idle" /\ (live'[w].pc = "idle" <=> live[w].pc = "closing")
        /\ live'[w].pc \in Unattempted \ {"idle"} => live[w].pc \in Unattempted \ {"idle"}
    BY <1>0, <1>14, RunStepShape DEF Continue
  <2>2. auto[w].pc \in {"running", "throwing"} /\ (auto[w].pc = "throwing" => live[w].pc = "closing")
    BY <2>1 DEF AutoKnows
  <2>3. /\ auto'[w].pc = auto[w].pc
        /\ auto'[w].effects = IF live[w].pc = "consumed" /\ live'[w].pc = "marked"
                              THEN auto[w].effects + 1 ELSE auto[w].effects
    BY <1>0, <1>14 DEF Continue, LooseRuntime
  <2>4. Engaged(w)' => Engaged(w) /\ live'[w].pc # "marked"
    BY <2>1, <2>2, <2>3 DEF Engaged, Unattempted
  <2>5. live[w].pc = "consumed" => Engaged(w) /\ auto[w].effects < TurnCeiling
    BY <2>2 DEF AutoKnows, Engaged, Unattempted
  <2>6. auto'[w].effects <= TurnCeiling /\ (Engaged(w)' => auto'[w].effects < TurnCeiling)
    BY <1>0, <2>3, <2>4, <2>5 DEF AutoKnows
  <2>7. /\ live'[w].pc # "idle" => auto'[w].pc \in {"running", "throwing"}
        /\ auto'[w].pc = "throwing" => live'[w].pc \in {"closing", "idle"}
    BY <2>1, <2>2, <2>3
  <2> QED
    BY <2>4, <2>6, <2>7 DEF AutoKnows
<1>15. CASE Returns(w)
  BY <1>1, <1>2, <1>3, <1>15, DriverShapes DEF Returns
<1>16. CASE Stop(w)
  <2>1. live'[w].pc = "idle"
    BY <1>1, <1>16 DEF Stop, RevokeCanary, AutoKnows
  <2>2. CASE UNCHANGED auto
    BY <1>0, <1>16, <2>1, <2>2 DEF Stop, AutoKnows, Engaged
  <2> QED
    BY <1>2, <1>16, <2>1, <2>2, DriverShapes DEF Stop
<1>17. CASE Throw(w)
  <2>1. CASE Raise(w) /\ AutoGoto(w, "throwing")
    <3>1. live'[w].pc = "closing"
      BY <1>0, <2>1, ShapesOfEffect DEF Raise
    <3>2. auto'[w].pc = "throwing" /\ auto'[w].effects = auto[w].effects
      BY <2>1, DriverShapes
    <3> QED
      BY <1>0, <3>1, <3>2 DEF AutoKnows, Engaged
  <2>2. CASE /\ auto[w].pc \in {"gating", "picking", "picked", "parking", "arming", "starting"}
             /\ auto' = [auto EXCEPT ![w] = NoRuntime]
             /\ DropLocals(w)
    <3>1. live'[w].pc = "idle"
      BY <1>1, <2>2 DEF DropLocals, CloserCrash, AutoKnows
    <3> QED
      BY <1>2, <2>2, <3>1, DriverShapes
  <2> QED
    BY <1>17, <2>1, <2>2 DEF Throw
<1>18. CASE Killed(w)
  <2>1. live'[w].pc = "idle"
    BY <1>0, <1>1, <1>18 DEF Killed, Crash, DropLocals, CloserCrash, NoRun
  <2> QED
    BY <1>2, <1>18, <2>1, DriverShapes DEF Killed
<1> QED
  BY <1>5, <1>6, <1>7, <1>8, <1>9, <1>10, <1>11, <1>12, <1>13, <1>14, <1>15, <1>16, <1>17, <1>18
     DEF AutonomousStep

LEMMA OneDriverAtMost ==
  ASSUME Typed, DriverTyped, [AutonomousNext]_allVars, NEW v \in Autonomous
  PROVE  (auto'[v] = auto[v] /\ live'[v] = live[v]) \/ AutonomousStep(v)
<1>1. CASE \A w \in Autonomous : ~AutonomousStep(w)
  BY <1>1, DriversRest
<1>2. ASSUME NEW w \in Autonomous, AutonomousStep(w), w # v PROVE auto'[v] = auto[v] /\ live'[v] = live[v]
  BY <1>2, OneDriverMoves
<1> QED
  BY <1>1, <1>2

LEMMA EngagedStep ==
  ASSUME Typed, DriverTyped, [AutonomousNext]_allVars, NEW v \in Autonomous, AutoKnows(v)
  PROVE  AutoKnows(v)' /\ (Engaged(v)' => Engaged(v) \/ Gate(v))
<1>1. CASE auto'[v] = auto[v] /\ live'[v] = live[v]
  BY <1>1 DEF AutoKnows, Engaged, At, AutoAt
<1>2. CASE AutonomousStep(v)
  BY <1>2, DriverStepKnows
<1> QED
  BY <1>1, <1>2, OneDriverAtMost

LEMMA DeploymentKept ==
  ASSUME DeploymentTyped, [AutonomousNext]_allVars PROVE DeploymentTyped'
<1>1. CASE UNCHANGED <<activation, covered>>
  BY <1>1 DEF DeploymentTyped
<1>2. CASE DeploymentStep
  <2>1. ASSUME NEW budget \in 1..MaxBudget, Activate(budget) PROVE DeploymentTyped'
    BY <2>1 DEF Activate, DeploymentTyped
  <2>2. CASE RevokeActivation
    BY <2>2 DEF RevokeActivation, DeploymentTyped
  <2>3. CASE UpgradePolicy
    BY <2>3 DEF UpgradePolicy, DeploymentTyped
  <2> QED
    BY <1>2, <2>1, <2>2, <2>3 DEF DeploymentStep
<1>3. ASSUME NEW w \in Autonomous, AutonomousStep(w) PROVE UNCHANGED <<activation, covered>>
  BY <1>3 DEF AutonomousStep, TurnStarts, Gate, TurnEnds, Pick, JudgeJob, Park, ArmOwn, Start, Hook,
     autoVars, Continue, Returns, Stop, Throw, Killed
<1> QED
  BY <1>1, <1>2, <1>3 DEF AutonomousNext, HumanStep, allVars, autoVars

LEMMA DriverInvInit == AutonomousInit => DriverInv
<1> SUFFICES ASSUME AutonomousInit PROVE DriverInv
  OBVIOUS
<1>1. DriverTyped
  BY DEF AutonomousInit, DriverTyped, LooseRuntime, NoRuntime, RuntimeKnows, InHand
<1>2. DeploymentTyped
  BY DEF AutonomousInit, DeploymentTyped
<1>3. ASSUME NEW w \in Autonomous PROVE AutoKnows(w)
  <2>1. auto[w].pc = "off" /\ auto[w].effects = 0 /\ live[w].pc = "idle" /\ TurnCeiling \in Nat
    BY AutonomousAssumption, LiveAssumption DEF AutonomousInit, RailInit, LiveInit, NoRuntime, NoRun
  <2> QED
    BY <2>1 DEF AutoKnows, Engaged, At, AutoAt
<1> QED
  BY <1>1, <1>2, <1>3 DEF DriverInv

LEMMA DriverInvKept == Typed /\ DriverInv /\ [AutonomousNext]_allVars => DriverInv'
<1> SUFFICES ASSUME Typed, DriverInv, [AutonomousNext]_allVars PROVE DriverInv'
  OBVIOUS
<1>1. DriverTyped' /\ DeploymentTyped'
  BY DriverTypedKept, DeploymentKept DEF DriverInv
<1>2. \A v \in Autonomous : AutoKnows(v)'
  BY EngagedStep DEF DriverInv
<1> QED
  BY <1>1, <1>2 DEF DriverInv

LEMMA RailUnderneath == AutonomousSpec => []Typed /\ []Honest
  BY DriverStaysOnTheRailTheorem, TypedTheorem, HonestTheorem DEF DriverStaysOnTheRail

LEMMA DriverInvHolds == AutonomousSpec => []DriverInv
  BY DriverInvInit, DriverInvKept, RailUnderneath, PTL DEF AutonomousSpec

\* The driver's variables keep their types, for any number of runtimes; that a
\* turn never counts more effects than its ceiling allows it is part of them.
THEOREM AutonomousTypeCorrect == AutonomousSpec => []AutonomousTypeOK
<1>1. DriverInv => AutonomousTypeOK
  <2> SUFFICES ASSUME DriverInv PROVE AutonomousTypeOK
    OBVIOUS
  <2>1. TurnCeiling \in Nat /\ MaxBudget \in Nat
    BY AutonomousAssumption
  <2>2. ASSUME NEW w \in Autonomous PROVE auto[w] \in Runtime
    <3>1. auto[w] \in LooseRuntime /\ auto[w].effects <= TurnCeiling
      BY DEF DriverInv, DriverTyped, AutoKnows
    <3>2. auto[w].effects \in 0..TurnCeiling
      BY <2>1, <3>1 DEF LooseRuntime
    <3> QED
      BY <3>1, <3>2 DEF LooseRuntime, Runtime
  <2>3. auto \in [Autonomous -> Runtime]
    BY <2>2 DEF DriverInv, DriverTyped
  <2>4. 1..MaxBudget \subseteq 0..MaxBudget
    BY <2>1
  <2> QED
    BY <2>3, <2>4 DEF AutonomousTypeOK, DriverInv, DeploymentTyped
<1> QED
  BY <1>1, DriverInvHolds, PTL

-----------------------------------------------------------------------------
(* The budget: read at the head of the turn, spent long after              *)

\* Only the mark adds an attempt, and it adds one.
LEMMA AttemptStep ==
  ASSUME Typed, Honest, [RailNext]_railVars
  PROVE  \/ Attempted' = Attempted
         \/ \E w \in LiveWorkers, j \in Jobs \ Attempted :
               /\ Attempted' = Attempted \cup {j}
               /\ live[w].pc = "consumed" /\ live'[w].pc = "marked"
<1>0. \A j \in Jobs : RowStep(j) /\ jobs[j] \in JobRow /\ jobs'[j] \in JobRow
  BY EveryRowStep, TypedKept DEF Typed, TypeOK, QueueTypeOK
<1>1. CASE \A j \in Jobs : jobs'[j].effect = jobs[j].effect
  BY <1>1 DEF Attempted
<1>2. ASSUME NEW j \in Jobs, jobs'[j].effect # jobs[j].effect
      PROVE  \E w \in LiveWorkers, i \in Jobs \ Attempted :
               /\ Attempted' = Attempted \cup {i}
               /\ live[w].pc = "consumed" /\ live'[w].pc = "marked"
  <2>1. PICK w \in LiveWorkers : Marks(w, j, jobs'[j])
    BY <1>0, <1>2 DEF RowStep, JobRow, Honest, RowIsHonest
  <2>2. /\ live[w].job = j /\ ~jobs[j].effect
        /\ live[w].pc = "consumed"
        /\ jobs' # jobs
    BY <1>2, <2>1 DEF Marks, ReserveSlot, At
  <2>3. /\ jobs' = [jobs EXCEPT ![j] = Marked(j, live[w].canary)]
        /\ live' = [live EXCEPT ![w].pc = "marked", ![w].effect = TRUE]
    BY <2>1, <2>2 DEF Marks, ReserveSlot, MarkEffect, JobOf
  <2>4. live'[w].pc = "marked"
    <3>1. live \in [LiveWorkers -> Run] /\ live[w] \in Run
      BY DEF Typed, TypeOK
    <3>2. live'[w] = [live[w] EXCEPT !.pc = "marked", !.effect = TRUE]
      BY <2>3, <3>1
    <3> QED
      BY <3>1, <3>2 DEF Run
  <2>5. Marked(j, live[w].canary).effect
    BY <1>0 DEF Marked, JobRow
  <2>6. jobs \in [Jobs -> JobRow]
    BY DEF Typed, TypeOK, QueueTypeOK
  <2>7. \A i \in Jobs : jobs'[i].effect <=> jobs[i].effect \/ i = j
    BY <2>3, <2>5, <2>6
  <2>8. Attempted' = Attempted \cup {j} /\ j \in Jobs \ Attempted
    BY <2>2, <2>7 DEF Attempted
  <2> QED
    BY <2>2, <2>4, <2>8
<1> QED
  BY <1>1, <1>2

\* An activation is given or taken while nothing else happens.
LEMMA ActivationStep ==
  ASSUME [AutonomousNext]_allVars
  PROVE  \/ UNCHANGED activation
         \/ UNCHANGED <<railVars, auto>> /\ activation' = NoActivation
         \/ /\ UNCHANGED <<railVars, auto>>
            /\ \E budget \in 1..MaxBudget : activation' = [budget |-> budget, before |-> Attempted]
<1>1. CASE DeploymentStep
  <2>1. ASSUME NEW budget \in 1..MaxBudget, Activate(budget)
        PROVE  /\ UNCHANGED <<railVars, auto>>
               /\ activation' = [budget |-> budget, before |-> Attempted]
    BY <2>1 DEF Activate, Attempted
  <2>2. RevokeActivation => UNCHANGED <<railVars, auto>> /\ activation' = NoActivation
    BY DEF RevokeActivation
  <2>3. UpgradePolicy => UNCHANGED activation
    BY DEF UpgradePolicy
  <2> QED
    BY <1>1, <2>1, <2>2, <2>3 DEF DeploymentStep
<1>2. ASSUME NEW w \in Autonomous, AutonomousStep(w) PROVE UNCHANGED activation
  BY <1>2 DEF AutonomousStep, TurnStarts, Gate, TurnEnds, Pick, JudgeJob, Park, ArmOwn, Start, Hook,
     autoVars, Continue, Returns, Stop, Throw, Killed
<1> QED
  BY <1>1, <1>2 DEF AutonomousNext, HumanStep, allVars, autoVars

\* Where every live run is a runtime's, an activation is overrun by the
\* runtimes that were past the head of their loop, and by no more.
LEMMA WithinBudgetKept ==
  ASSUME LiveWorkers = Autonomous, IsFiniteSet(Autonomous),
         Typed, Honest, DriverInv, WithinBudget, [AutonomousNext]_allVars
  PROVE  WithinBudget'
<1> DEFINE A == Attempted
           E == EngagedOnes
           N == Cardinality(Autonomous)
<1>0. /\ [RailNext]_railVars
      /\ \A v \in Autonomous : AutoKnows(v) /\ AutoKnows(v)' /\ (Engaged(v)' => Engaged(v) \/ Gate(v))
  BY DriverStepOnRail, EngagedStep DEF DriverInv
<1>a. IsFiniteSet(A)
  BY DEF WithinBudget
<1>b. E \subseteq Autonomous /\ IsFiniteSet(E) /\ N \in Nat /\ Cardinality(E) \in Nat
  BY FS_Subset, FS_CardinalityType DEF EngagedOnes
<1>c. E' \subseteq Autonomous /\ IsFiniteSet(E') /\ Cardinality(E') \in Nat /\ Cardinality(E') <= N
  <2>1. E' \subseteq Autonomous
    BY DEF EngagedOnes
  <2> QED
    BY <2>1, FS_Subset, FS_CardinalityType
<1>1. CASE UNCHANGED <<railVars, auto>> /\ activation' = NoActivation
  <2>1. A' = A
    BY <1>1 DEF Attempted, railVars
  <2> QED
    BY <1>1, <1>a, <2>1 DEF WithinBudget
<1>2. ASSUME UNCHANGED <<railVars, auto>>, NEW budget \in 1..MaxBudget,
             activation' = [budget |-> budget, before |-> A]
      PROVE  WithinBudget'
  <2>1. A' = A
    BY <1>2 DEF Attempted, railVars
  <2>2. SpentSince(activation)' = 0
    <3>1. SpentSince(activation)' = Cardinality(A' \ A)
      BY <1>2 DEF SpentSince, Attempted
    <3>2. A' \ A = {}
      BY <2>1
    <3> QED
      BY <3>1, <3>2, FS_EmptySet
  <2>3. activation'.budget \in Nat /\ activation'.budget >= 1
    BY <1>2
  <2>4. SpentSince(activation)' + Cardinality(E') < activation'.budget + N
    BY <1>b, <1>c, <2>2, <2>3
  <2> QED
    BY <1>a, <2>1, <2>4 DEF WithinBudget
<1>3. CASE UNCHANGED activation
  <2> DEFINE S == Cardinality(A \ activation.before)
             b == activation.budget
  <2>0. SpentSince(activation) = S /\ SpentSince(activation)' = Cardinality(A' \ activation.before)
    BY <1>3 DEF SpentSince, Attempted
  <2>1. S \in Nat /\ IsFiniteSet(A \ activation.before)
    BY <1>a, FS_Subset, FS_CardinalityType
  <2>2. activation # NoActivation => b \in Nat
    BY DEF DriverInv, DeploymentTyped
  <2>3. CASE A' = A
    <3>1. CASE \E v \in Autonomous : Gate(v)
      <4>1. BudgetOpen
        BY <3>1 DEF Gate
      <4>2. S + Cardinality(E') < b + N
        BY <1>b, <1>c, <2>0, <2>1, <2>2, <4>1 DEF BudgetOpen
      <4> QED
        BY <1>3, <1>a, <2>0, <2>3, <4>2 DEF WithinBudget
    <3>2. CASE ~\E v \in Autonomous : Gate(v)
      <4>1. E' \subseteq E
        BY <1>0, <3>2 DEF EngagedOnes
      <4>2. Cardinality(E') <= Cardinality(E)
        BY <1>b, <4>1, FS_Subset
      <4>3. activation # NoActivation => S + Cardinality(E) < b + N
        BY <2>0 DEF WithinBudget
      <4>4. activation # NoActivation => S + Cardinality(E') < b + N
        BY <1>b, <1>c, <2>1, <2>2, <4>2, <4>3
      <4> QED
        BY <1>3, <1>a, <2>0, <2>3, <4>4 DEF WithinBudget
    <3> QED
      BY <3>1, <3>2
  <2>4. ASSUME NEW w \in LiveWorkers, NEW j \in Jobs \ A, A' = A \cup {j},
               live[w].pc = "consumed", live'[w].pc = "marked"
        PROVE  WithinBudget'
    <3>1. w \in E /\ w \notin E'
      <4>1. auto[w].pc = "running"
        BY <1>0, <2>4 DEF AutoKnows, At, AutoAt
      <4>2. auto'[w].pc \in {"running", "throwing"}
        BY <1>0, <2>4 DEF AutoKnows, At, AutoAt
      <4> QED
        BY <2>4, <4>1, <4>2 DEF EngagedOnes, Engaged, Unattempted
    <3>2. \A v \in Autonomous : ~Gate(v)
      <4>1. live' # live
        BY <2>4
      <4> QED
        BY <4>1 DEF Gate, railVars
    <3>3. E' \subseteq E \ {w}
      BY <1>0, <3>1, <3>2 DEF EngagedOnes
    <3>4. IsFiniteSet(E \ {w}) /\ Cardinality(E \ {w}) = Cardinality(E) - 1
      BY <1>b, <3>1, FS_RemoveElement
    <3>5. Cardinality(E') <= Cardinality(E) - 1
      BY <3>3, <3>4, FS_Subset
    <3>6. IsFiniteSet(A') /\ Cardinality(A' \ activation.before) \in {S, S + 1}
      <4>1. \/ A' \ activation.before = A \ activation.before
            \/ A' \ activation.before = (A \ activation.before) \cup {j}
        BY <2>4
      <4> QED
        BY <1>a, <2>1, <2>4, <4>1, FS_AddElement
    <3>7. activation # NoActivation => S + Cardinality(E) < b + N
      BY <2>0 DEF WithinBudget
    <3>8. activation # NoActivation => Cardinality(A' \ activation.before) + Cardinality(E') < b + N
      BY <1>b, <1>c, <2>1, <2>2, <3>5, <3>6, <3>7
    <3> QED
      BY <1>3, <2>0, <3>6, <3>8 DEF WithinBudget
  <2> QED
    BY <1>0, <2>3, <2>4, AttemptStep
<1> QED
  BY <1>1, <1>2, <1>3, ActivationStep

LEMMA WithinBudgetHolds ==
  LiveWorkers = Autonomous /\ IsFiniteSet(Autonomous) /\ AutonomousSpec => []WithinBudget
<1>1. CASE LiveWorkers = Autonomous /\ IsFiniteSet(Autonomous)
  <2>1. AutonomousInit => WithinBudget
    <3> SUFFICES ASSUME AutonomousInit PROVE WithinBudget
      OBVIOUS
    <3>1. Attempted = {}
      BY DEF AutonomousInit, RailInit, LiveInit, QueueInit, AbsentRow, Attempted
    <3> QED
      BY <3>1, FS_EmptySet DEF AutonomousInit, WithinBudget
  <2>2. Typed /\ Honest /\ DriverInv /\ WithinBudget /\ [AutonomousNext]_allVars => WithinBudget'
    BY <1>1, WithinBudgetKept
  <2> QED
    BY <2>1, <2>2, RailUnderneath, DriverInvHolds, PTL DEF AutonomousSpec
<1> QED
  BY <1>1

\* The budget is read once, at the head of the loop, and spent statements
\* later by a run of its own: N runtimes may together attempt more than the
\* activation allows, and never N more.
THEOREM BudgetOverrun ==
  LiveWorkers = Autonomous /\ IsFiniteSet(Autonomous) /\ AutonomousSpec
    => [](activation # NoActivation =>
            SpentSince(activation) < activation.budget + Cardinality(Autonomous))
<1>1. CASE LiveWorkers = Autonomous /\ IsFiniteSet(Autonomous)
  <2>1. DriverInv /\ WithinBudget
          => (activation # NoActivation =>
                SpentSince(activation) < activation.budget + Cardinality(Autonomous))
    <3> SUFFICES ASSUME DriverInv, WithinBudget, activation # NoActivation
                 PROVE  SpentSince(activation) < activation.budget + Cardinality(Autonomous)
      OBVIOUS
    <3>1. SpentSince(activation) \in Nat
      BY FS_Subset, FS_CardinalityType DEF WithinBudget, SpentSince, Attempted
    <3>2. Cardinality(EngagedOnes) \in Nat /\ Cardinality(Autonomous) \in Nat
      BY <1>1, FS_Subset, FS_CardinalityType DEF EngagedOnes
    <3>3. activation.budget \in Nat
      BY DEF DriverInv, DeploymentTyped
    <3> QED
      BY <3>1, <3>2, <3>3 DEF WithinBudget
  <2> QED
    BY <1>1, <2>1, WithinBudgetHolds, DriverInvHolds, PTL
<1> QED
  BY <1>1

\* One runtime alone never attempts more first contacts after the frontier
\* than its activation allows, whatever it throws, drops or restarts.
THEOREM BudgetKept ==
  LiveWorkers = Autonomous /\ IsFiniteSet(Autonomous) /\ Cardinality(Autonomous) = 1 /\ AutonomousSpec
    => []BudgetIsATotal
<1>1. CASE LiveWorkers = Autonomous /\ IsFiniteSet(Autonomous) /\ Cardinality(Autonomous) = 1
  <2>1. /\ DriverInv /\ WithinBudget
        /\ activation # NoActivation =>
              SpentSince(activation) < activation.budget + Cardinality(Autonomous)
        => BudgetIsATotal
    <3> SUFFICES ASSUME DriverInv, WithinBudget, activation # NoActivation,
                        SpentSince(activation) < activation.budget + 1
                 PROVE  Cardinality({j \in Jobs : jobs[j].effect /\ j \notin activation.before})
                          <= activation.budget
      BY <1>1 DEF BudgetIsATotal
    <3>1. SpentSince(activation) \in Nat
      BY FS_Subset, FS_CardinalityType DEF WithinBudget, SpentSince, Attempted
    <3>2. activation.budget \in Nat
      BY DEF DriverInv, DeploymentTyped
    <3>3. {j \in Jobs : jobs[j].effect /\ j \notin activation.before}
            = {j \in Jobs : jobs[j].effect} \ activation.before
      OBVIOUS
    <3> QED
      BY <3>1, <3>2, <3>3 DEF SpentSince
  <2> QED
    BY <1>1, <2>1, BudgetOverrun, WithinBudgetHolds, DriverInvHolds, PTL
<1> QED
  BY <1>1

-----------------------------------------------------------------------------
(* What the machine leaves armed *)

ArmedAreHuman == \A c \in CanaryIds : canaries[c].state = "ARMED" => canaries[c].kind = "HUMAN"

\* Sweeps, clocks, revocations and a human's own arming arm nothing for the
\* machine.
LEMMA HumansArmTheirOwn ==
  ASSUME CanaryTypeOK, ArmedAreHuman,
         \/ UNCHANGED canaries
         \/ \E j \in Jobs : Arm(j, "HUMAN", jobs[j].effect)
         \/ \E c \in CanaryIds : Revoke(c) \/ TtlElapses(c)
  PROVE  ArmedAreHuman'
<1>0. canaries \in [CanaryIds -> Canary]
  BY DEF CanaryTypeOK
<1>1. \A c \in CanaryIds : Swept(c).state = "ARMED" => Swept(c).kind = "HUMAN"
  <2> SUFFICES ASSUME NEW c \in CanaryIds, Swept(c).state = "ARMED" PROVE Swept(c).kind = "HUMAN"
    OBVIOUS
  <2>1. canaries[c] \in Canary
    BY <1>0
  <2>2. ~IsStale(c)
    BY <2>1 DEF Swept, Canary
  <2> QED
    BY <2>2 DEF Swept, ArmedAreHuman
<1>2. CASE UNCHANGED canaries
  BY <1>2 DEF ArmedAreHuman
<1>3. ASSUME NEW j \in Jobs, Arm(j, "HUMAN", jobs[j].effect) PROVE ArmedAreHuman'
  <2>1. CASE ExpireStale
    BY <1>1, <2>1 DEF ExpireStale, ArmedAreHuman
  <2>2. ASSUME NEW c \in CanaryIds,
               canaries' = [d \in CanaryIds |-> IF d = c THEN ArmedRow(j, "HUMAN") ELSE Swept(d)]
        PROVE  ArmedAreHuman'
    BY <1>1, <2>2 DEF ArmedAreHuman, ArmedRow
  <2> QED
    BY <1>3, <2>1, <2>2 DEF Arm
<1>4. ASSUME NEW c \in CanaryIds, Revoke(c) \/ TtlElapses(c) PROVE ArmedAreHuman'
  <2>1. CASE Revoke(c)
    <3>1. /\ \A d \in CanaryIds \ {c} : canaries'[d] = canaries[d]
          /\ canaries'[c].state = "REVOKED"
      BY <1>0, <2>1 DEF Revoke, Canary
    <3> QED
      BY <3>1 DEF ArmedAreHuman
  <2>2. CASE TtlElapses(c)
    <3>0. canaries'[c] = [canaries[c] EXCEPT !.overdue = TRUE] /\ canaries[c] \in Canary
      BY <1>0, <2>2 DEF TtlElapses
    <3>1. /\ \A d \in CanaryIds \ {c} : canaries'[d] = canaries[d]
          /\ canaries'[c].state = canaries[c].state
          /\ canaries'[c].kind = canaries[c].kind
      BY <1>0, <2>2, <3>0 DEF TtlElapses, Canary
    <3> QED
      BY <3>1 DEF ArmedAreHuman
  <2> QED
    BY <1>4, <2>1, <2>2
<1> QED
  BY <1>2, <1>3, <1>4

\* A row nobody attempted may always be parked.
LEMMA ParkNeverRaises ==
  ASSUME Typed, NEW w \in Autonomous, ParksWell(w), closing[w].pc = "parking",
         DriverTyped, NEW forGood \in BOOLEAN
  PROVE  ~ParkRaises(w, forGood)
<1> DEFINE j == closing[w].job
           r == Finalized(j, ParkStatus(forGood), ParkSkip(forGood), forGood)
<1>1. j \in Jobs /\ ~jobs[j].effect
  BY DEF ParksWell, AutoAt, DriverTyped, RuntimeKnows, InHand
<1>2. jobs[j] \in JobRow
  BY <1>1 DEF Typed, TypeOK, QueueTypeOK
<1>3. /\ r.status = ParkStatus(forGood)
      /\ r.skip = ParkSkip(forGood)
      /\ ~r.effect
  BY <1>1, <1>2 DEF Finalized, JobRow, ParkSkip
<1>4. RowAccepted(r)
  BY <1>3 DEF RowAccepted, ParkStatus, ParkSkip, TerminalStatuses
<1> QED
  BY <1>4 DEF ParkRaises, FinalizeRaises

\* The one runtime there is, step by step.
LEMMA DriverLeavesNothing ==
  ASSUME "raise" \notin Incidents, NEW a \in Autonomous, LiveWorkers = {a},
         Typed, Honest, DriverInv, LeavesNothing, AutonomousStep(a), [RailNext]_railVars
  PROVE  /\ auto'[a].pc # "throwing"
         /\ ParksWell(a)'
         /\ auto'[a].pc = "off" => ArmedAreHuman'
<1> DEFINE Goal == /\ auto'[a].pc # "throwing"
                   /\ ParksWell(a)'
                   /\ auto'[a].pc = "off" => ArmedAreHuman'
<1> USE DEF AutoAt, At
<1>0. /\ auto \in [Autonomous -> LooseRuntime] /\ auto[a] \in LooseRuntime /\ DriverTyped
      /\ auto[a].pc # "throwing" /\ ParksWell(a) /\ AutoKnows(a)
      /\ a \in Closers /\ closing \in [Closers -> Closing]
  BY AutonomousAssumption DEF DriverInv, DriverTyped, LeavesNothing, Typed, TypeOK
<1>1. UNCHANGED railVars => UNCHANGED <<jobs, canaries, live, closing>>
  BY DEF railVars
<1>2. closing[a].pc \in {"idle", "parking"} /\ (closing[a].pc = "parking" => auto[a].pc = "parking")
  BY <1>0 DEF ParksWell
<1>3. ASSUME closing'[a].pc = "idle", auto'[a].pc \notin {"throwing", "picked", "parking", "off"}
      PROVE  Goal
  BY <1>3 DEF ParksWell
<1>4. auto' = [auto EXCEPT ![a] = NoRuntime] => auto'[a].pc = "off"
  BY <1>0, DriverShapes
<1>5. CASE TurnStarts(a)
  BY <1>0, <1>2, <1>3, <1>5, DriverShapes DEF TurnStarts
<1>6. CASE Gate(a) \/ TurnEnds(a)
  BY <1>0, <1>1, <1>2, <1>3, <1>6, DriverShapes DEF Gate, TurnEnds
<1>7. CASE Pick(a)
  <2>0. closing'[a].pc = "idle" /\ UNCHANGED jobs
    BY <1>1, <1>2, <1>7 DEF Pick
  <2>1. ASSUME NEW j \in Due(a), auto' = [auto EXCEPT ![a].pc = "picked", ![a].job = j, ![a].seen = @ \cup {j}]
        PROVE  Goal
    <3>1. auto'[a].pc = "picked" /\ auto'[a].job = j
      BY <1>0, <2>1 DEF LooseRuntime
    <3>2. ~jobs[j].effect
      BY <2>1 DEF Due
    <3> QED
      BY <2>0, <3>1, <3>2 DEF ParksWell
  <2>2. CASE AutoGoto(a, "gating")
    BY <1>0, <1>3, <2>0, <2>2, DriverShapes
  <2> QED
    BY <1>7, <2>1, <2>2 DEF Pick
<1>8. CASE JudgeJob(a)
  <2>0. closing'[a].pc = "idle" /\ UNCHANGED jobs /\ auto[a].pc = "picked"
    BY <1>1, <1>2, <1>8 DEF JudgeJob
  <2>1. CASE AutoGoto(a, "parking")
    <3>1. auto'[a].pc = "parking" /\ auto'[a].job = auto[a].job
      BY <1>0, <2>1, DriverShapes
    <3> QED
      BY <1>0, <2>0, <3>1 DEF ParksWell
  <2>2. CASE AutoGoto(a, "gating") \/ AutoGoto(a, "arming")
    BY <1>0, <1>3, <2>0, <2>2, DriverShapes
  <2> QED
    BY <1>8, <2>1, <2>2 DEF JudgeJob
<1>9. CASE Park(a)
  <2>0. auto[a].pc = "parking" /\ auto[a].job \in Jobs /\ ~jobs[auto[a].job].effect
    BY <1>0, <1>9 DEF Park, ParksWell, DriverTyped, RuntimeKnows, InHand
  <2>1. CASE ParkClaim(a, auto[a].job) /\ UNCHANGED auto
    <3>1. closing'[a].pc = "parking" /\ closing'[a].job = auto[a].job
      BY <1>0, <2>1 DEF ParkClaim
    <3>2. Attempted' = Attempted
      BY <2>1, AttemptStep DEF ParkClaim
    <3>3. ~jobs'[auto[a].job].effect
      BY <2>0, <3>2 DEF Attempted
    <3> QED
      BY <2>0, <2>1, <3>1, <3>3 DEF ParksWell
  <2>2. CASE closing[a].pc = "idle" /\ AutoGoto(a, "gating") /\ UNCHANGED railVars
    BY <1>0, <1>1, <1>3, <2>2, DriverShapes
  <2>3. ASSUME NEW forGood \in BOOLEAN, ParkFinalize(a, forGood),
               IF ParkRaises(a, forGood) THEN auto' = [auto EXCEPT ![a] = NoRuntime]
                                         ELSE AutoGoto(a, "gating")
        PROVE  Goal
    <3>1. closing[a].pc = "parking" /\ closing'[a].pc = "idle"
      BY <1>0, <2>3 DEF ParkFinalize, NoClosing
    <3>2. ~ParkRaises(a, forGood)
      BY <1>0, <3>1, ParkNeverRaises
    <3> QED
      BY <1>0, <1>3, <2>3, <3>1, <3>2, DriverShapes
  <2> QED
    BY <1>9, <2>1, <2>2, <2>3 DEF Park
<1>10. CASE ArmOwn(a)
  <2>1. closing'[a].pc = "idle"
    BY <1>1, <1>2, <1>10 DEF ArmOwn
  <2>2. AutoGoto(a, "starting") \/ AutoGoto(a, "gating")
    BY <1>10 DEF ArmOwn
  <2> QED
    BY <1>0, <1>3, <2>1, <2>2, DriverShapes
<1>11. CASE Start(a)
  <2>1. closing'[a].pc = "idle"
    BY <1>1, <1>2, <1>11 DEF Start
  <2>2. AutoGoto(a, "running") \/ AutoGoto(a, "gating")
    BY <1>11 DEF Start
  <2> QED
    BY <1>0, <1>3, <2>1, <2>2, DriverShapes
<1>12. CASE Hook(a)
  <2>1. live[a].pc = "reserved" /\ UNCHANGED <<auto, closing>>
    BY <1>12 DEF Hook, EnterHook, autoVars
  <2>2. auto[a].pc = "running"
    BY <1>0, <2>1 DEF AutoKnows
  <2> QED
    BY <1>2, <1>3, <2>1, <2>2
<1>13. CASE Continue(a)
  <2>1. live[a].pc # "idle" /\ UNCHANGED closing
    BY <1>13, RunStepShape DEF Continue
  <2>2. auto[a].pc = "running"
    BY <1>0, <2>1 DEF AutoKnows
  <2>3. auto'[a].pc = auto[a].pc
    BY <1>0, <1>13 DEF Continue, LooseRuntime
  <2> QED
    BY <1>2, <1>3, <2>1, <2>2, <2>3
<1>14. CASE Returns(a)
  <2>1. auto[a].pc = "running" /\ AutoGoto(a, "gating") /\ UNCHANGED railVars
    BY <1>0, <1>14 DEF Returns
  <2> QED
    BY <1>0, <1>1, <1>2, <1>3, <2>1, DriverShapes
<1>15. CASE Stop(a)
  <2>0. closing[a].pc = "idle" /\ auto[a].pc = "idle"
    BY <1>2, <1>15 DEF Stop
  <2>1. CASE UNCHANGED <<dry, closing, retired, auto>>
    BY <1>3, <2>0, <2>1
  <2>2. CASE /\ \A c \in CanaryIds : canaries[c].kind = "AUTONOMOUS_POLICY" => canaries[c].state # "ARMED"
             /\ auto' = [auto EXCEPT ![a] = NoRuntime]
             /\ UNCHANGED railVars
    <3>1. ArmedAreHuman'
      BY <1>1, <2>2 DEF ArmedAreHuman, Typed, TypeOK, CanaryTypeOK, Canary
    <3>2. auto'[a].pc = "off" /\ closing'[a].pc = "idle"
      BY <1>1, <1>4, <2>0, <2>2
    <3> QED
      BY <3>1, <3>2 DEF ParksWell
  <2> QED
    BY <1>15, <2>1, <2>2 DEF Stop
<1>16. CASE Killed(a)
  <2>1. auto'[a].pc = "killed"
    BY <1>0, <1>16, DriverShapes DEF Killed
  <2>2. closing'[a].pc = "idle"
    <3>1. CASE Crash(a) /\ UNCHANGED <<dry, closing, retired>>
      BY <1>0, <1>2, <3>1 DEF Crash, AutoKnows
    <3>2. CASE DropLocals(a)
      BY <1>0, <1>1, <3>2 DEF DropLocals, CloserCrash, NoClosing
    <3> QED
      BY <1>16, <3>1, <3>2 DEF Killed
  <2> QED
    BY <1>3, <2>1, <2>2
<1> QED
  BY <1>5, <1>6, <1>7, <1>8, <1>9, <1>10, <1>11, <1>12, <1>13, <1>14, <1>15, <1>16 DEF AutonomousStep

\* Everyone else, around a runtime that does not move.
LEMMA OthersLeaveNothing ==
  ASSUME NEW a \in Autonomous, Autonomous = {a}, LiveWorkers = {a},
         Typed, Honest, DriverInv, LeavesNothing, [AutonomousNext]_allVars, ~AutonomousStep(a)
  PROVE  /\ auto'[a].pc # "throwing"
         /\ ParksWell(a)'
         /\ auto'[a].pc = "off" => ArmedAreHuman'
<1>0. /\ auto'[a] = auto[a] /\ live'[a] = live[a]
      /\ ParksWell(a) /\ auto[a].pc # "throwing" /\ [RailNext]_railVars
      /\ auto[a].pc = "off" => ArmedAreHuman
      /\ auto[a].pc \in {"picked", "parking"} => auto[a].job \in Jobs
      /\ CanaryTypeOK /\ closing \in [Closers -> Closing] /\ a \in Closers
  BY DriversRest, DriverStepOnRail, AutonomousAssumption
     DEF LeavesNothing, AutoAt, ArmedAreHuman, DriverInv, DriverTyped, RuntimeKnows, InHand, Typed, TypeOK
<1>1. Attempted' = Attempted
  BY <1>0, AttemptStep
<1>2. closing'[a] = closing[a] => ParksWell(a)'
  BY <1>0, <1>1 DEF ParksWell, Attempted, AutoAt
<1>3. ASSUME NEW o \in Closers \ Autonomous, CloserStep(o)
      PROVE  closing'[a] = closing[a] /\ UNCHANGED canaries
  <2>1. o # a /\ UNCHANGED canaries
    BY <1>3, BesideCanaryStep
  <2> QED
    BY <1>0, <1>3, <2>1 DEF CloserStep, RetireRead, RetireClaim, RetireCommit, ParkClaim, ParkFinalize, CloserCrash
<1>4. ASSUME NEW d \in DryWorkers, DryStep(d) PROVE closing'[a] = closing[a] /\ UNCHANGED canaries
  BY <1>4, BesideLeavesRuns, BesideCanaryStep
<1>5. CASE HumanStep
  <2>1. UNCHANGED closing
    BY <1>5 DEF HumanStep
  <2>2. \/ UNCHANGED canaries
        \/ \E j \in Jobs : Arm(j, "HUMAN", jobs[j].effect)
        \/ \E c \in CanaryIds : Revoke(c) \/ TtlElapses(c)
    BY <1>5 DEF HumanStep, EnqueueJob, ArmCanary, SupersedeManifest, RevokeCanary, SetKillSwitch,
                JobClock, CanaryClock, PaceClock, queueVars
  <2> QED
    BY <1>0, <1>1, <1>2, <2>1, <2>2, HumansArmTheirOwn
<1>6. CASE DeploymentStep \/ UNCHANGED allVars
  <2>1. UNCHANGED <<closing, canaries>>
    BY <1>6 DEF DeploymentStep, Activate, RevokeActivation, UpgradePolicy, railVars, allVars
  <2> QED
    BY <1>0, <1>1, <1>2, <2>1 DEF ArmedAreHuman
<1>7. ASSUME closing'[a] = closing[a] /\ UNCHANGED canaries
      PROVE  ParksWell(a)' /\ (auto'[a].pc = "off" => ArmedAreHuman')
  BY <1>0, <1>2, <1>7 DEF ArmedAreHuman
<1> QED
  BY <1>0, <1>3, <1>4, <1>5, <1>6, <1>7 DEF AutonomousNext

\* Where nothing raises, one runtime alone, once it has stopped, leaves none
\* of the machine's permissions armed - also when it was killed in between,
\* and whatever its turns left behind.
THEOREM NothingArmed ==
  "raise" \notin Incidents /\ LiveWorkers = Autonomous /\ (\E a : Autonomous = {a}) /\ AutonomousSpec
    => []NothingArmedAfterTheRuntime
<1>1. CASE "raise" \notin Incidents /\ LiveWorkers = Autonomous /\ \E a : Autonomous = {a}
  <2>0. PICK a : Autonomous = {a}
    BY <1>1
  <2>1. AutonomousInit => LeavesNothing
    <3> SUFFICES ASSUME AutonomousInit PROVE LeavesNothing
      OBVIOUS
    <3>1. \A w \in Autonomous : auto[w].pc = "off" /\ closing[w].pc = "idle"
      BY AutonomousAssumption DEF AutonomousInit, NoRuntime, RailInit, NoClosing
    <3>2. \A c \in CanaryIds : canaries[c].state = "NEW"
      BY DEF AutonomousInit, RailInit, LiveInit, CanaryInit, ArmedRow
    <3> QED
      BY <3>1, <3>2 DEF LeavesNothing, ParksWell, AutoAt
  <2>2. Typed /\ Honest /\ DriverInv /\ LeavesNothing /\ [AutonomousNext]_allVars => LeavesNothing'
    <3> SUFFICES ASSUME Typed, Honest, DriverInv, LeavesNothing, [AutonomousNext]_allVars
                 PROVE  LeavesNothing'
      OBVIOUS
    <3>1. a \in Autonomous /\ LiveWorkers = {a} /\ [RailNext]_railVars
      BY <1>1, <2>0, DriverStepOnRail DEF DriverInv
    <3>2. /\ auto'[a].pc # "throwing"
          /\ ParksWell(a)'
          /\ auto'[a].pc = "off" => ArmedAreHuman'
      BY <1>1, <2>0, <3>1, DriverLeavesNothing, OthersLeaveNothing
    <3> QED
      BY <2>0, <3>2 DEF LeavesNothing, AutoAt, ArmedAreHuman
  <2>3. LeavesNothing => NothingArmedAfterTheRuntime
    BY <2>0 DEF LeavesNothing, NothingArmedAfterTheRuntime
  <2> QED
    BY <2>1, <2>2, <2>3, RailUnderneath, DriverInvHolds, PTL DEF AutonomousSpec
<1> QED
  BY <1>1
=============================================================================
