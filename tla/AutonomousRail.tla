--------------------------- MODULE AutonomousRail ---------------------------
(***************************************************************************)
(* The autonomous driver of the rail (lib/instagram/autonomousLiveWorker.ts *)
(* and firstTouchActivation.ts): a loop that picks a due job, replays the  *)
(* policy, arms a permission of its own and runs the live rail on it, as   *)
(* long as a deployment is activated and its budget is not spent.          *)
(*                                                                         *)
(* DispatchRail lets any driver start any run; here the autonomous workers *)
(* start theirs only where this loop does, and every other process is as   *)
(* free as before.                                                         *)
(***************************************************************************)
EXTENDS DispatchRail

CONSTANTS
    TurnCeiling,  \* effects one turn may produce: min(maxEffects, RUN_CEILING)
    MaxBudget,    \* bound: the largest max_effects an activation is given
    NoActivation  \* no live row in hermes_firsttouch_activations

ASSUME AutonomousAssumption ==
    /\ Autonomous \subseteq Closers
    /\ FALSE \in Modes
    /\ TurnCeiling \in Nat
    /\ MaxBudget \in Nat
    /\ NoActivation \notin [budget : Nat, before : SUBSET Jobs]

VARIABLES
    auto,        \* the local state of each autonomous runtime
    activation,  \* the live activation, at most one by unique index
    covered      \* jobs whose machine approval names the current policy

autoVars == <<auto, activation, covered>>
allVars  == <<jobs, canaries, live, locked, killSwitch, recent, cooling, browser, journal,
              streak, sent, contacted, clicks, dry, closing, retired,
              auto, activation, covered>>

\* "off" is a runtime that returned or threw, "killed" one that never could;
\* "idle" is between two turns.  `seen` and `effects` are the turn's own.
Runtime == [ pc      : {"off", "killed", "idle", "gating", "picking", "picked", "parking",
                        "arming", "starting", "running", "throwing"},
             job     : Jobs \cup {NoManifest},
             seen    : SUBSET Jobs,
             effects : 0..TurnCeiling ]

NoRuntime == [ pc |-> "off", job |-> NoManifest, seen |-> {}, effects |-> 0 ]

AutonomousInit ==
    /\ RailInit
    /\ auto = [w \in Autonomous |-> NoRuntime]
    /\ activation = NoActivation
    /\ covered = Jobs

AutoAt(w, step) == auto[w].pc = step
AutoGoto(w, step) == auto' = [auto EXCEPT ![w].pc = step]

-----------------------------------------------------------------------------
(* The deployment budget *)

\* Mutated: proven sendings are counted, not attempts.
SpentSince_ProvenOnly(a) == Cardinality({j \in Jobs : "SENT" \in journal[j]} \ a.before)

\* countFirstTouchActivationEffects: effects ATTEMPTED since the frontier,
\* whoever attempted them, and whatever became of them.
SpentSince(a) == Cardinality({j \in Jobs : jobs[j].effect} \ a.before)

\* assessFirstTouchBudget.
BudgetOpen == activation # NoActivation /\ SpentSince(activation) < activation.budget

\* activateFirstTouch: the frontier is now(), and one row lives at a time.
Activate(budget) ==
    /\ activation = NoActivation
    /\ activation' = [ budget |-> budget,
                       before |-> {j \in Jobs : jobs[j].effect} ]
    /\ UNCHANGED <<railVars, auto, covered>>

\* revokeFirstTouchActivation.
RevokeActivation ==
    /\ activation # NoActivation
    /\ activation' = NoActivation
    /\ UNCHANGED <<railVars, auto, covered>>

\* AUTONOMOUS_POLICY_VERSION is incremented and the runtimes are restarted on
\* the new code: what is approved from here on carries the new version.  The
\* activation names a version too, which nobody compares.
UpgradePolicy ==
    /\ \A w \in Autonomous : auto[w].pc \in {"off", "killed"}
    /\ covered' = {j \in covered : jobs[j].status = "ABSENT"}
    /\ UNCHANGED <<railVars, auto, activation>>

-----------------------------------------------------------------------------
(* One turn: runAutonomousLiveWorker *)

\* Mutated: a starting turn takes back every lease of its own.
TurnStarts_TakesBack(w) ==
    /\ auto[w].pc \in {"off", "killed", "idle"}
    /\ jobs' = [j \in Jobs |-> IF jobs[j].by = w THEN RecoveredRow(jobs[j]) ELSE jobs[j]]
    /\ auto' = [auto EXCEPT ![w] = [NoRuntime EXCEPT !.pc = "gating"]]
    /\ UNCHANGED <<canaries, live, worldVars, paceVars, logVars, browser, clicks,
                   dry, closing, retired, activation, covered>>

TurnStarts(w) ==
    /\ auto[w].pc \in {"off", "killed", "idle"}
    /\ RecoverLeases
    /\ auto' = [auto EXCEPT ![w] = [NoRuntime EXCEPT !.pc = "gating"]]
    /\ UNCHANGED <<dry, closing, retired, activation, covered>>

\* Mutated: the ceiling of the turn is not looked at.
Gate_NoCeiling(w) ==
    /\ AutoAt(w, "gating")
    /\ SafetyAllows
    /\ BudgetOpen
    /\ AutoGoto(w, "picking")
    /\ UNCHANGED <<railVars, activation, covered>>

\* The head of the loop, read again for every job: ceiling, safety, activation
\* and budget.
Gate(w) ==
    /\ AutoAt(w, "gating")
    /\ auto[w].effects < TurnCeiling
    /\ SafetyAllows
    /\ BudgetOpen
    /\ AutoGoto(w, "picking")
    /\ UNCHANGED <<railVars, activation, covered>>

\* Any refusal ends the turn; so do the schedule, a busy profile and a session
\* Instagram wants a human for.
TurnEnds(w) ==
    /\ AutoAt(w, "gating")
    /\ auto' = [auto EXCEPT ![w] = [NoRuntime EXCEPT !.pc = "idle"]]
    /\ UNCHANGED <<railVars, activation, covered>>

\* DUE_AUTONOMOUS_JOBS, without the jobs of this turn.
Due(w) == {j \in Jobs \ auto[w].seen : CanClaim(j, FALSE) /\ ~jobs[j].effect /\ locked[j]}

Pick(w) ==
    /\ AutoAt(w, "picking")
    /\ \/ \E j \in Due(w) :
            auto' = [auto EXCEPT ![w].pc = "picked", ![w].job = j, ![w].seen = @ \cup {j}]
       \/ Due(w) = {} /\ AutoGoto(w, "gating")
    /\ UNCHANGED <<railVars, activation, covered>>

\* Provenance first - the version of the policy that approved - then the
\* policy itself on the prospect as it is now.
JudgeJob(w) ==
    /\ AutoAt(w, "picked")
    /\ \/ auto[w].job \notin covered /\ AutoGoto(w, "gating")
       \/ auto[w].job \in covered /\ AutoGoto(w, "parking")
       \/ auto[w].job \in covered /\ AutoGoto(w, "arming")
    /\ UNCHANGED <<railVars, activation, covered>>

\* parkJob, both statements of it.
Park(w) ==
    /\ AutoAt(w, "parking")
    /\ \/ closing[w].pc = "idle" /\ ParkClaim(w, auto[w].job) /\ UNCHANGED auto
       \/ /\ closing[w].pc = "idle" /\ ~CanClaim(auto[w].job, FALSE)
          /\ AutoGoto(w, "gating") /\ UNCHANGED railVars
       \/ \E forGood \in BOOLEAN :
            /\ ParkFinalize(w, forGood)
            /\ IF ParkRaises(w, forGood)
               THEN auto' = [auto EXCEPT ![w] = NoRuntime]
               ELSE AutoGoto(w, "gating")
    /\ UNCHANGED <<activation, covered>>

\* The permission: armed when the manifest has none, or only dead ones that
\* were never spent; taken as it is when the machine armed it already; left
\* alone when a human did.
ArmOwn(w) ==
    LET j     == auto[w].job
        spare == \A c \in CanaryIds : LoadedFor(j, c) => IsReplaceable(c)
    IN  /\ AutoAt(w, "arming")
        /\ \/ /\ spare /\ locked[j]
              /\ ArmCanary(j, "AUTONOMOUS_POLICY")
              /\ AutoGoto(w, IF SlotFree /\ ~jobs[j].effect THEN "starting" ELSE "gating")
              /\ UNCHANGED <<dry, closing, retired>>
           \/ spare /\ ~locked[j] /\ AutoGoto(w, "gating") /\ UNCHANGED railVars
           \/ \E c \in CanaryIds :
                 /\ LoadedFor(j, c) /\ ~IsReplaceable(c)
                 /\ AutoGoto(w, IF canaries[c].kind = "HUMAN" THEN "gating" ELSE "starting")
                 /\ UNCHANGED railVars
        /\ UNCHANGED <<activation, covered>>

\* runInstagramLiveCanary, with the hook that re-reads safety, schedule and
\* policy: `lateOk` may be false for reasons the model does not hold.
Start(w) ==
    /\ AutoAt(w, "starting")
    /\ \/ Begin(w, auto[w].job, FALSE) /\ AutoGoto(w, "running") /\ UNCHANGED <<dry, closing, retired>>
       \/ ~SafetyAllows /\ AutoGoto(w, "gating") /\ UNCHANGED railVars
    /\ UNCHANGED <<activation, covered>>

Hook(w) ==
    /\ \E othersOk \in BOOLEAN : EnterHook(w, SafetyAllows /\ othersOk)
    /\ UNCHANGED <<dry, closing, retired, autoVars>>

Continue(w) ==
    /\ RunStep(w)
    /\ auto' = [auto EXCEPT ![w].effects =
                  IF live[w].pc = "consumed" /\ live'[w].pc = "marked" THEN @ + 1 ELSE @]
    /\ UNCHANGED <<dry, closing, retired, activation, covered>>

Returns(w) ==
    /\ At(w, "idle")
    /\ \/ AutoAt(w, "running") /\ AutoGoto(w, "gating")
       \/ AutoAt(w, "throwing") /\ auto' = [auto EXCEPT ![w] = NoRuntime]
    /\ UNCHANGED <<railVars, activation, covered>>

-----------------------------------------------------------------------------
(* The end of a runtime *)

\* Mutated: the runtime just ends.
Stop_LeavesThemArmed(w) ==
    /\ AutoAt(w, "idle")
    /\ auto' = [auto EXCEPT ![w] = NoRuntime]
    /\ UNCHANGED <<railVars, activation, covered>>

\* A clean stop between two turns revokes what the machine left armed.
Stop(w) ==
    /\ AutoAt(w, "idle")
    /\ \/ \E c \in CanaryIds :
            /\ canaries[c].kind = "AUTONOMOUS_POLICY"
            /\ RevokeCanary(c)
            /\ UNCHANGED <<dry, closing, retired, auto>>
       \/ /\ \A c \in CanaryIds : canaries[c].kind = "AUTONOMOUS_POLICY" => canaries[c].state # "ARMED"
          /\ auto' = [auto EXCEPT ![w] = NoRuntime]
          /\ UNCHANGED railVars
    /\ UNCHANGED <<activation, covered>>

\* Outside a live run, what the driver was holding is forgotten with it.
DropLocals(w) ==
    \/ closing[w].pc # "idle" /\ CloserCrash(w)
    \/ closing[w].pc = "idle" /\ UNCHANGED railVars

\* An exception in the live run unwinds through its `finally` first, and then
\* through the runtime, whose own `finally` is empty: the revocation written
\* after it is never reached.
Throw(w) ==
    /\ \/ /\ AutoAt(w, "running")
          /\ Raise(w)
          /\ AutoGoto(w, "throwing")
          /\ UNCHANGED <<dry, closing, retired>>
       \/ /\ auto[w].pc \in {"gating", "picking", "picked", "parking", "arming", "starting"}
          /\ auto' = [auto EXCEPT ![w] = NoRuntime]
          /\ DropLocals(w)
    /\ UNCHANGED <<activation, covered>>

\* The process is killed, in its loop or inside a run.
Killed(w) ==
    /\ auto[w].pc \notin {"off", "killed"}
    /\ auto' = [auto EXCEPT ![w] = [NoRuntime EXCEPT !.pc = "killed"]]
    /\ \/ Crash(w) /\ UNCHANGED <<dry, closing, retired>>
       \/ At(w, "idle") /\ DropLocals(w)
    /\ UNCHANGED <<activation, covered>>

-----------------------------------------------------------------------------
AutonomousStep(w) ==
    \/ TurnStarts(w) \/ Gate(w) \/ TurnEnds(w) \/ Pick(w) \/ JudgeJob(w) \/ Park(w)
    \/ ArmOwn(w) \/ Start(w) \/ Hook(w) \/ Continue(w) \/ Returns(w) \/ Stop(w)
    \/ "raise" \in Incidents /\ Throw(w)
    \/ "crash" \in Incidents /\ Killed(w)

\* An operator arms in a human's name only.
HumanStep ==
    /\ \/ \E j \in Jobs : EnqueueJob(j)
       \/ \E j \in Jobs : "arm" \in Incidents /\ ArmCanary(j, "HUMAN")
       \/ \E j \in Jobs : "supersede" \in Incidents /\ SupersedeManifest(j)
       \/ \E c \in CanaryIds : "revoke" \in Incidents /\ RevokeCanary(c)
       \/ SetKillSwitch(FALSE)
       \/ "engage" \in Incidents /\ SetKillSwitch(TRUE)
       \/ JobClock \/ CanaryClock \/ PaceClock
       \/ \E w \in LiveWorkers \ Autonomous : LiveStep(w)
    /\ UNCHANGED <<dry, closing, retired, autoVars>>

DeploymentStep ==
    \/ \E budget \in 1..MaxBudget : Activate(budget)
    \/ RevokeActivation
    \/ "upgrade" \in Incidents /\ UpgradePolicy

AutonomousNext ==
    \/ \E w \in Autonomous : AutonomousStep(w)
    \/ HumanStep
    \/ DeploymentStep
    \/ /\ \/ \E d \in DryWorkers : DryStep(d)
          \/ \E o \in Closers \ Autonomous : CloserStep(o)
       /\ UNCHANGED autoVars

AutonomousSpec == AutonomousInit /\ [][AutonomousNext]_allVars
-----------------------------------------------------------------------------
(* Properties *)

\* Types of the driver's own variables.
AutonomousTypeOK ==
    /\ auto \in [Autonomous -> Runtime]
    /\ \/ activation = NoActivation
       \/ activation \in [budget : 0..MaxBudget, before : SUBSET Jobs]
    /\ covered \subseteq Jobs

\* max_effects is a total: through turns, crashes, restarts and runs that end
\* in doubt, one runtime never attempts more first contacts after the
\* frontier than the activation allows - although the budget is read once, at
\* the head of the turn, and long before the attempt.
BudgetIsATotal ==
    activation # NoActivation =>
        Cardinality({j \in Jobs : jobs[j].effect /\ j \notin activation.before})
            <= activation.budget

\* The driver adds nothing to what the rail allows: every step of it is a step
\* of the rail, or none, so what DispatchRail guarantees holds under it.
DriverStaysOnTheRail == RailSpec

\* When no runtime is running, none of the machine's permissions is armed,
\* whatever a turn left behind and whoever was killed in between: the last to
\* stop revokes them all (runAutonomousLiveRuntime).  It is true where nothing
\* raises: an exception in a turn leaves through an empty `finally`, and the
\* revocation, written after it, is not reached.
NothingArmedAfterTheRuntime ==
    (\A w \in Autonomous : AutoAt(w, "off")) =>
        \A c \in CanaryIds : canaries[c].state = "ARMED" => canaries[c].kind = "HUMAN"
=============================================================================
