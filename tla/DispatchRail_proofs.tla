------------------------ MODULE DispatchRail_proofs ------------------------
(***************************************************************************)
(* Every variable of the rail keeps its type; nobody is contacted twice,   *)
(* never without a permission spent on that very manifest, and never more  *)
(* often than the caps allow; the ledgers agree; and the rail keeps the    *)
(* promise of SendOnce - for any number of jobs, permissions, processes.   *)
(*                                                                         *)
(* The row a run writes is named by what the run remembers, so types alone *)
(* are not inductive: a run must also know what its program counter says   *)
(* it knows (RunsKnow).  Then the queue and the permissions change row by  *)
(* row in few ways (RowStep, and "a permission that is over stays over"),  *)
(* so what a run learnt when it read or wrote a row stays true while the   *)
(* run is at its later statements (Honest).                                *)
(***************************************************************************)
EXTENDS DispatchRail, FiniteSetTheorems, TLAPS


LEMMA ClaimNumbers ==
  /\ MaxClaims \in Nat /\ 0 \in 0..MaxClaims
  /\ \A n \in 0..MaxClaims : n < MaxClaims => n + 1 \in 0..MaxClaims
  BY QueueAssumption DEF QueueAssumption

LEMMA CanaryNumbers == 0 \in 0..MaxCanaries /\ CanaryIds \subseteq 0..MaxCanaries /\ CanaryIds \subseteq Nat
  BY CanaryAssumption DEF CanaryAssumption, CanaryIds

-----------------------------------------------------------------------------
(* The queue's statements keep the queue's types *)

LEMMA EnqueueTypes ==
  ASSUME QueueTypeOK, NEW j \in Jobs, Enqueue(j) PROVE QueueTypeOK'
  BY ClaimNumbers DEF Enqueue, QueueTypeOK, JobRow, AbsentRow, JobStatuses, ClaimableStatuses

LEMMA ClaimTypes ==
  ASSUME QueueTypeOK, NEW j \in Jobs, NEW w \in Workers, NEW early, Claim(j, w, early)
  PROVE  QueueTypeOK'
  BY ClaimNumbers DEF Claim, CanClaim, QueueTypeOK, JobRow, JobStatuses, ClaimableStatuses

LEMMA FinalizeTypes ==
  ASSUME QueueTypeOK, NEW j \in Jobs, NEW token, NEW status \in JobStatuses,
         NEW skip \in {"none", "TEMPORARY", "TERMINAL"}, NEW due \in BOOLEAN,
         Finalize(j, token, status, skip, due)
  PROVE  QueueTypeOK'
<1>1. Finalized(j, status, skip, due) \in JobRow
  <2>1. CASE skip = "none"
    BY ZenonT(30), ClaimNumbers, <2>1 DEF Finalized, QueueTypeOK, JobRow
  <2>2. CASE skip # "none"
    BY ZenonT(30), ClaimNumbers, <2>2 DEF Finalized, QueueTypeOK, JobRow
  <2> QED
    BY <2>1, <2>2
<1> QED
  BY <1>1 DEF Finalize, QueueTypeOK

LEMMA MarkTypes ==
  ASSUME QueueTypeOK, NEW j \in Jobs, NEW c \in Nat, MarkEffect(j, c) PROVE QueueTypeOK'
<1>1. Marked(j, c) \in JobRow
  BY ZenonT(30) DEF Marked, QueueTypeOK, JobRow
<1> QED
  BY <1>1 DEF MarkEffect, QueueTypeOK

LEMMA RecoveredRowTypes == ASSUME NEW r \in JobRow PROVE RecoveredRow(r) \in JobRow
<1>1. CASE r.effect
  BY ClaimNumbers, <1>1 DEF RecoveredRow, JobRow, JobStatuses, TerminalStatuses
<1>2. CASE ~r.effect
  BY ClaimNumbers, <1>2 DEF RecoveredRow, JobRow, JobStatuses, ClaimableStatuses
<1> QED
  BY <1>1, <1>2

LEMMA RecoverTypes ==
  ASSUME QueueTypeOK, RecoverExpiredLeases PROVE QueueTypeOK'
  BY RecoveredRowTypes DEF RecoverExpiredLeases, QueueTypeOK

LEMMA JobClockTypes ==
  ASSUME QueueTypeOK, NEW j \in Jobs, LeaseExpires(j) \/ BecomesDue(j) PROVE QueueTypeOK'
<1>1. CASE LeaseExpires(j)
  BY <1>1 DEF LeaseExpires, QueueTypeOK, JobRow
<1>2. CASE BecomesDue(j)
  <2> DEFINE r == [jobs[j] EXCEPT !.due = TRUE]
  <2>1. jobs[j] \in JobRow
    BY DEF QueueTypeOK
  <2>2. r \in JobRow
    BY ZenonT(30), <2>1 DEF JobRow
  <2>3. jobs' = [jobs EXCEPT ![j] = r]
    BY <1>2 DEF BecomesDue
  <2> HIDE DEF r
  <2> QED
    BY <2>2, <2>3 DEF QueueTypeOK
<1> QED
  BY <1>1, <1>2

-----------------------------------------------------------------------------
(* The permissions' statements keep the permissions' types *)

LEMMA SweptTypes == CanaryTypeOK => \A c \in CanaryIds : Swept(c) \in Canary
  BY DEF Swept, CanaryTypeOK, Canary

LEMMA ExpireStaleTypes == ASSUME CanaryTypeOK, ExpireStale PROVE CanaryTypeOK'
  BY SweptTypes DEF ExpireStale, CanaryTypeOK

LEMMA ArmTypes ==
  ASSUME CanaryTypeOK, NEW m \in Jobs, NEW kind \in {"HUMAN", "AUTONOMOUS_POLICY"},
         NEW attempted, Arm(m, kind, attempted)
  PROVE  CanaryTypeOK'
<1>1. ArmedRow(m, kind) \in Canary
  BY DEF ArmedRow, Canary, LiveStates
<1> QED
  BY <1>1, SweptTypes DEF Arm, ExpireStale, CanaryTypeOK

LEMMA ReserveTypes ==
  ASSUME CanaryTypeOK, NEW c \in CanaryIds, NEW m, NEW w \in Workers, Reserve(c, m, w)
  PROVE  CanaryTypeOK'
<1>1. [canaries[c] EXCEPT !.state = "RESERVED", !.by = w] \in Canary
  BY DEF CanaryTypeOK, Canary, LiveStates
<1>2. canaries' = [canaries EXCEPT ![c] = [canaries[c] EXCEPT !.state = "RESERVED", !.by = w]]
  BY DEF Reserve, CanaryTypeOK
<1> QED
  BY <1>1, <1>2 DEF CanaryTypeOK

LEMMA ConsumeTypes ==
  ASSUME CanaryTypeOK, NEW c \in CanaryIds, NEW m, NEW w, Consume(c, m, w)
  PROVE  CanaryTypeOK'
<1>1. \A n \in 0..1 : n < 1 => n + 1 \in 0..1
  OBVIOUS
<1> QED
  BY <1>1 DEF Consume, CanConsume, CanaryTypeOK, Canary, LiveStates

LEMMA ReleaseTypes ==
  ASSUME CanaryTypeOK, NEW c \in CanaryIds, NEW m, NEW w, Release(c, m, w)
  PROVE  CanaryTypeOK'
<1>1. [canaries[c] EXCEPT !.state = "ARMED", !.by = Nobody] \in Canary
  BY DEF CanaryTypeOK, Canary, LiveStates
<1>2. \/ canaries' = [canaries EXCEPT ![c] = [canaries[c] EXCEPT !.state = "ARMED", !.by = Nobody]]
      \/ canaries' = canaries
  BY DEF Release, CanaryTypeOK
<1> QED
  BY <1>1, <1>2 DEF CanaryTypeOK

LEMMA RevokeTypes ==
  ASSUME CanaryTypeOK, NEW c \in CanaryIds, Revoke(c) PROVE CanaryTypeOK'
  BY DEF Revoke, CanaryTypeOK, Canary

LEMMA ElapseTypes ==
  ASSUME CanaryTypeOK, NEW c \in CanaryIds, TtlElapses(c) PROVE CanaryTypeOK'
  BY ZenonT(30) DEF TtlElapses, CanaryTypeOK, Canary

-----------------------------------------------------------------------------
(* What a run knows *)

\* Past the first step a live run has a job, past the check of its permission
\* it has a permission, and a run that reports has something to report.
LiveKnows(r) ==
    /\ r.pc \notin {"idle", "closing"} => r.job \in Jobs
    /\ r.pc \in {"checked", "opened", "reserved", "cleared", "consumed", "marked"} \/ r.held
         => r.canary \in CanaryIds
    /\ r.pc \in {"finishing", "finalizing"} => r.verdict # "none"

DryKnows(r) ==
    /\ r.pc \notin {"idle", "looping", "ending"} => r.job \in Jobs
    /\ r.pc \in {"recording", "finalizing"} => r.event # "none"

CloserKnows(r) == r.pc # "idle" => r.job \in Jobs

RunsKnow ==
    /\ \A w \in LiveWorkers : LiveKnows(live[w])
    /\ \A d \in DryWorkers : DryKnows(dry[d])
    /\ \A o \in Closers : CloserKnows(closing[o])

\* The inductive invariant of the types.
Typed == TypeOK /\ RunsKnow

-----------------------------------------------------------------------------
(* The two tables are written by these statements and no others *)

\* A step of the rail, as the queue sees it.
QueueStep ==
    \/ UNCHANGED jobs
    \/ RecoverExpiredLeases
    \/ \E j \in Jobs : Enqueue(j) \/ LeaseExpires(j) \/ BecomesDue(j)
    \/ \E j \in Jobs, w \in Workers, early \in BOOLEAN : Claim(j, w, early)
    \/ \E j \in Jobs, token \in 0..MaxClaims, skip \in {"none", "TEMPORARY", "TERMINAL"},
          due \in BOOLEAN, status \in ClaimableStatuses \cup {"INELIGIBLE"} :
          Finalize(j, token, status, skip, due)
    \/ \E w \in LiveWorkers : FinalizeRun(w)
    \/ \E w \in LiveWorkers : ReserveSlot(w) /\ MarkEffect(JobOf(w), live[w].canary)

\* A step of the rail, as the permissions see it.
CanaryStep ==
    \/ UNCHANGED canaries
    \/ ExpireStale
    \/ \E j \in Jobs, kind \in {"HUMAN", "AUTONOMOUS_POLICY"} : Arm(j, kind, jobs[j].effect)
    \/ \E c \in CanaryIds : Revoke(c) \/ TtlElapses(c)
    \/ \E w \in LiveWorkers : Reserve(live[w].canary, JobOf(w), w) /\ ReservePermission(w)
    \/ \E w \in LiveWorkers : Consume(live[w].canary, JobOf(w), w) /\ SpendPermission(w)
    \/ \E w \in LiveWorkers : Release(live[w].canary, JobOf(w), w) /\ live[w].held /\ CloseRun(w)

LEMMA LiveQueueStep ==
  ASSUME Typed, NEW w \in LiveWorkers, LiveStep(w) PROVE QueueStep
<1> USE DEF queueVars
<1>1. ASSUME NEW j \in Jobs, NEW preview \in Modes, Begin(w, j, preview) PROVE QueueStep
  BY <1>1 DEF Begin, QueueStep
<1>2. CASE TakeLease(w)
  <2>1. w \in Workers /\ JobOf(w) \in Jobs
    BY <1>2, LiveAssumption DEF LiveAssumption, TakeLease, At, Typed, RunsKnow, LiveKnows, JobOf
  <2> QED
    BY <1>2, <2>1 DEF TakeLease, QueueStep
<1>3. CASE ReserveSlot(w)
  BY <1>3 DEF ReserveSlot, QueueStep
<1>4. CASE FinalizeRun(w)
  BY <1>4 DEF QueueStep
<1>5. ASSUME \/ ResolveTarget(w) \/ CheckCanary(w) \/ OpenBrowser(w) \/ PageRefuses(w)
             \/ ReservePermission(w) \/ ComposerRefuses(w) \/ SpendPermission(w) \/ Click(w)
             \/ Judge(w) \/ RecordSent(w) \/ EnsureContacted(w) \/ RecordOutcome(w)
             \/ CloseRun(w) \/ EnterHook(w, TRUE) \/ Raise(w) \/ Crash(w)
      PROVE  UNCHANGED jobs
  BY <1>5 DEF ResolveTarget, CheckCanary, OpenBrowser, PageRefuses, ReservePermission,
              ComposerRefuses, SpendPermission, Click, Judge, RecordSent, EnsureContacted,
              RecordOutcome, CloseRun, EnterHook, Raise, Crash
<1> QED
  BY <1>1, <1>2, <1>3, <1>4, <1>5 DEF LiveStep, RunStep, QueueStep

LEMMA DryQueueStep ==
  ASSUME Typed, NEW d \in DryWorkers, DryStep(d) PROVE QueueStep
<1>1. CASE DryClaim(d)
  BY <1>1, RailAssumption DEF RailAssumption, DryClaim, QueueStep
<1>2. CASE DryFinalize(d)
  <2>1. /\ dry[d] \in DryRun
        /\ dry[d].job \in Jobs
        /\ dry[d].event # "none"
    BY <1>2 DEF DryFinalize, DryAt, Typed, TypeOK, RunsKnow, DryKnows
  <2>2. /\ dry[d].token \in 0..MaxClaims
        /\ dry[d].skip \in {"none", "TEMPORARY", "TERMINAL"}
        /\ (dry[d].skip # "TEMPORARY") \in BOOLEAN
        /\ dry[d].event \in {"DRY_RUN_COMPLETED", "SKIPPED", "BLOCKED", "FAILED"}
    BY <2>1 DEF DryRun
  <2>3. DryStatus(d) \in ClaimableStatuses \cup {"INELIGIBLE"}
    BY <2>2 DEF DryStatus, JobStatuses, ClaimableStatuses, TerminalStatuses
  <2> QED
    BY <1>2, <2>1, <2>2, <2>3 DEF DryFinalize, QueueStep
<1>3. CASE DryStart(d)
  BY <1>3 DEF DryStart, QueueStep
<1>4. ASSUME DryGates(d) \/ DryOpen(d) \/ DryVisit(d) \/ DryRecord(d) \/ DryEnd(d)
      PROVE  UNCHANGED jobs
  BY <1>4 DEF DryGates, DryOpen, DryVisit, DryRecord, DryEnd, queueVars
<1> QED
  BY <1>1, <1>2, <1>3, <1>4 DEF DryStep, QueueStep

LEMMA CloserQueueStep ==
  ASSUME Typed, NEW o \in Closers, CloserStep(o) PROVE QueueStep
<1>0. /\ o \in Workers
      /\ closing[o] \in Closing
      /\ closing[o].pc # "idle" => closing[o].job \in Jobs
  BY RailAssumption DEF RailAssumption, Typed, TypeOK, RunsKnow, CloserKnows
<1>1. ASSUME NEW j \in Jobs, ParkClaim(o, j) PROVE QueueStep
  BY <1>0, <1>1 DEF ParkClaim, QueueStep
<1>2. CASE RetireClaim(o)
  BY <1>0, <1>2 DEF RetireClaim, QueueStep
<1>3. CASE RetireCommit(o)
  <2>1. "INELIGIBLE" \in ClaimableStatuses \cup {"INELIGIBLE"}
    BY DEF JobStatuses, TerminalStatuses
  <2>2. closing[o].token \in 0..MaxClaims /\ closing[o].job \in Jobs
    BY <1>0, <1>3 DEF RetireCommit, Closing
  <2> QED
    BY <1>3, <2>1, <2>2 DEF RetireCommit, QueueStep
<1>4. ASSUME NEW forGood \in BOOLEAN, ParkFinalize(o, forGood) PROVE QueueStep
  <2>1. /\ ParkStatus(forGood) \in ClaimableStatuses \cup {"INELIGIBLE"}
        /\ ParkSkip(forGood) \in {"none", "TEMPORARY", "TERMINAL"}
    BY DEF ParkStatus, ParkSkip, JobStatuses, TerminalStatuses, ClaimableStatuses
  <2>2. closing[o].token \in 0..MaxClaims /\ closing[o].job \in Jobs
    BY <1>0, <1>4 DEF ParkFinalize, Closing
  <2> QED
    BY <1>4, <2>1, <2>2 DEF ParkFinalize, QueueStep
<1>5. ASSUME (\E j \in Jobs : RetireRead(o, j)) \/ CloserCrash(o) PROVE UNCHANGED jobs
  BY <1>5 DEF RetireRead, CloserCrash, queueVars
<1> QED
  BY <1>1, <1>2, <1>3, <1>4, <1>5 DEF CloserStep, QueueStep

LEMMA OperatorQueueStep ==
  ASSUME OperatorStep \/ JobClock \/ CanaryClock \/ PaceClock PROVE QueueStep
<1>1. CASE OperatorStep
  BY <1>1 DEF OperatorStep, EnqueueJob, SupersedeManifest, ArmCanary, RevokeCanary,
              SetKillSwitch, RecoverLeases, QueueStep, queueVars
<1>2. CASE JobClock \/ CanaryClock \/ PaceClock
  BY <1>2 DEF JobClock, CanaryClock, PaceClock, QueueStep, queueVars
<1> QED
  BY <1>1, <1>2

\* Whoever takes a step, the queue changes by one of its statements only.
LEMMA RailQueueStep == ASSUME Typed, [RailNext]_railVars PROVE QueueStep
<1>1. CASE UNCHANGED railVars
  BY <1>1 DEF railVars, QueueStep
<1>2. CASE RailNext
  BY <1>2, LiveQueueStep, DryQueueStep, CloserQueueStep, OperatorQueueStep DEF RailNext
<1> QED
  BY <1>1, <1>2

LEMMA LiveCanaryStep ==
  ASSUME NEW w \in LiveWorkers, LiveStep(w) PROVE CanaryStep
<1> USE DEF queueVars
<1>1. ASSUME NEW j \in Jobs, NEW preview \in Modes, Begin(w, j, preview)
      PROVE  UNCHANGED canaries
  BY <1>1 DEF Begin
<1>2. CASE ResolveTarget(w)
  BY <1>2 DEF ResolveTarget, CanaryStep
<1>3. CASE ReservePermission(w)
  BY <1>3 DEF ReservePermission, CanaryStep
<1>4. CASE SpendPermission(w)
  BY <1>4 DEF SpendPermission, CanaryStep
<1>5. CASE CloseRun(w)
  BY <1>5 DEF CloseRun, CanaryStep
<1>6. ASSUME \/ TakeLease(w) \/ CheckCanary(w) \/ OpenBrowser(w) \/ PageRefuses(w)
             \/ ComposerRefuses(w) \/ ReserveSlot(w) \/ Click(w) \/ FinalizeRun(w)
             \/ Judge(w) \/ RecordSent(w) \/ EnsureContacted(w) \/ RecordOutcome(w)
             \/ EnterHook(w, TRUE) \/ Raise(w) \/ Crash(w)
      PROVE  UNCHANGED canaries
  BY <1>6 DEF TakeLease, CheckCanary, OpenBrowser, PageRefuses, ComposerRefuses, ReserveSlot,
              Click, FinalizeRun, Judge, RecordSent, EnsureContacted, RecordOutcome,
              EnterHook, Raise, Crash
<1> QED
  BY <1>1, <1>2, <1>3, <1>4, <1>5, <1>6 DEF LiveStep, RunStep, CanaryStep

LEMMA BesideCanaryStep ==
  ASSUME (\E d \in DryWorkers : DryStep(d)) \/ (\E o \in Closers : CloserStep(o))
  PROVE  UNCHANGED canaries
<1> USE DEF queueVars
<1>1. ASSUME NEW d \in DryWorkers, DryStep(d) PROVE UNCHANGED canaries
  BY <1>1 DEF DryStep, DryStart, DryClaim, DryGates, DryOpen, DryVisit, DryRecord,
              DryFinalize, DryEnd
<1>2. ASSUME NEW o \in Closers, CloserStep(o) PROVE UNCHANGED canaries
  BY <1>2 DEF CloserStep, RetireRead, RetireClaim, RetireCommit, ParkClaim, ParkFinalize,
              CloserCrash
<1> QED
  BY <1>1, <1>2

LEMMA OperatorCanaryStep ==
  ASSUME OperatorStep \/ JobClock \/ CanaryClock \/ PaceClock PROVE CanaryStep
<1>1. ASSUME NEW j \in Jobs, NEW kind \in ArmingKinds, ArmCanary(j, kind) PROVE CanaryStep
  BY <1>1 DEF ArmCanary, ArmingKinds, CanaryStep
<1>2. ASSUME NEW c \in CanaryIds, RevokeCanary(c) PROVE CanaryStep
  BY <1>2 DEF RevokeCanary, CanaryStep
<1>3. ASSUME \/ \E j \in Jobs : EnqueueJob(j) \/ SupersedeManifest(j)
             \/ SetKillSwitch(TRUE) \/ SetKillSwitch(FALSE) \/ RecoverLeases
             \/ JobClock \/ PaceClock
      PROVE  UNCHANGED canaries
  BY <1>3 DEF EnqueueJob, SupersedeManifest, SetKillSwitch, RecoverLeases, JobClock, PaceClock,
              queueVars
<1>4. CASE CanaryClock
  BY <1>4 DEF CanaryClock, CanaryStep
<1> QED
  BY <1>1, <1>2, <1>3, <1>4 DEF OperatorStep, CanaryStep

\* Whoever takes a step, the permissions change by one of their statements
\* only.
LEMMA RailCanaryStep == ASSUME [RailNext]_railVars PROVE CanaryStep
<1>1. CASE UNCHANGED railVars
  BY <1>1 DEF railVars, CanaryStep
<1>2. CASE RailNext
  BY <1>2, LiveCanaryStep, BesideCanaryStep, OperatorCanaryStep DEF RailNext, CanaryStep
<1> QED
  BY <1>1, <1>2

-----------------------------------------------------------------------------
(* The tables keep their types *)

LEMMA QueueTypesKept == ASSUME Typed, [RailNext]_railVars PROVE QueueTypeOK'
<1>0. QueueStep /\ QueueTypeOK /\ live \in [LiveWorkers -> Run]
  BY RailQueueStep DEF Typed, TypeOK
<1>1. ASSUME NEW w \in LiveWorkers, FinalizeRun(w) PROVE QueueTypeOK'
  <2>1. live[w] \in Run /\ live[w].job \in Jobs /\ live[w].verdict # "none"
    BY <1>1 DEF FinalizeRun, At, Typed, TypeOK, RunsKnow, LiveKnows
  <2>2. StatusOf(live[w].verdict) \in JobStatuses /\ (~live[w].effect) \in BOOLEAN
    BY <2>1 DEF Run, Verdicts, EffectOutcomes, StatusOf, JobStatuses, ClaimableStatuses,
                TerminalStatuses
  <2> QED
    BY <1>0, <1>1, <2>1, <2>2, FinalizeTypes DEF FinalizeRun, JobOf
<1>2. ASSUME NEW w \in LiveWorkers, ReserveSlot(w), MarkEffect(JobOf(w), live[w].canary)
      PROVE  QueueTypeOK'
  <2>1. JobOf(w) \in Jobs /\ live[w].canary \in Nat
    BY <1>2, CanaryNumbers DEF ReserveSlot, At, JobOf, Typed, RunsKnow, LiveKnows
  <2> QED
    BY <1>0, <1>2, <2>1, MarkTypes
<1>3. ASSUME NEW j \in Jobs, NEW token \in 0..MaxClaims,
             NEW skip \in {"none", "TEMPORARY", "TERMINAL"}, NEW due \in BOOLEAN,
             NEW status \in ClaimableStatuses \cup {"INELIGIBLE"},
             Finalize(j, token, status, skip, due)
      PROVE  QueueTypeOK'
  BY <1>0, <1>3, FinalizeTypes DEF JobStatuses, TerminalStatuses
<1>4. UNCHANGED jobs => QueueTypeOK'
  BY <1>0 DEF QueueTypeOK
<1> QED
  BY <1>0, <1>1, <1>2, <1>3, <1>4, EnqueueTypes, ClaimTypes, RecoverTypes, JobClockTypes
     DEF QueueStep

LEMMA CanaryTypesKept == ASSUME Typed, [RailNext]_railVars PROVE CanaryTypeOK'
<1>0. CanaryStep /\ CanaryTypeOK /\ LiveWorkers \subseteq Workers
  BY RailCanaryStep, LiveAssumption DEF Typed, TypeOK, LiveAssumption
<1>1. ASSUME NEW w \in LiveWorkers, Reserve(live[w].canary, JobOf(w), w), ReservePermission(w)
      PROVE  CanaryTypeOK'
  <2>1. live[w].canary \in CanaryIds /\ w \in Workers
    BY <1>0, <1>1 DEF ReservePermission, At, Typed, RunsKnow, LiveKnows
  <2> QED
    BY <1>0, <1>1, <2>1, ReserveTypes
<1>2. ASSUME NEW w \in LiveWorkers, Consume(live[w].canary, JobOf(w), w), SpendPermission(w)
      PROVE  CanaryTypeOK'
  <2>1. live[w].canary \in CanaryIds
    BY <1>2 DEF SpendPermission, At, Typed, RunsKnow, LiveKnows
  <2> QED
    BY <1>0, <1>2, <2>1, ConsumeTypes
<1>3. ASSUME NEW w \in LiveWorkers, Release(live[w].canary, JobOf(w), w), live[w].held
      PROVE  CanaryTypeOK'
  <2>1. live[w].canary \in CanaryIds
    BY <1>3 DEF Typed, RunsKnow, LiveKnows
  <2> QED
    BY <1>0, <1>3, <2>1, ReleaseTypes
<1>4. UNCHANGED canaries => CanaryTypeOK'
  BY <1>0 DEF CanaryTypeOK
<1>5. ASSUME NEW j \in Jobs, NEW kind \in {"HUMAN", "AUTONOMOUS_POLICY"},
             Arm(j, kind, jobs[j].effect)
      PROVE  CanaryTypeOK'
  BY <1>0, <1>5, ArmTypes
<1> QED
  BY <1>0, <1>1, <1>2, <1>3, <1>4, <1>5, ExpireStaleTypes, RevokeTypes, ElapseTypes
     DEF CanaryStep

-----------------------------------------------------------------------------
(* The live runs keep their types, and know what they know *)

LiveTyped == /\ live \in [LiveWorkers -> Run]
             /\ \A w \in LiveWorkers : LiveKnows(live[w])

LEMMA RunReplaced ==
  ASSUME LiveTyped, NEW w \in LiveWorkers, NEW r \in Run, LiveKnows(r),
         live' = [live EXCEPT ![w] = r]
  PROVE  LiveTyped'
  BY DEF LiveTyped, LiveKnows

LEMMA NoRunTypes == \A step \in Steps : [NoRun EXCEPT !.pc = step] \in Run
  BY ClaimNumbers, CanaryNumbers DEF NoRun, Run, Steps, Verdicts

LEMMA GotoTypes ==
  ASSUME LiveTyped, NEW w \in LiveWorkers, NEW step \in Steps, Goto(w, step),
         LiveKnows([live[w] EXCEPT !.pc = step])
  PROVE  LiveTyped'
<1>1. [live[w] EXCEPT !.pc = step] \in Run
  BY DEF LiveTyped, Run
<1>2. live' = [live EXCEPT ![w] = [live[w] EXCEPT !.pc = step]]
  BY DEF Goto
<1> QED
  BY <1>1, <1>2, RunReplaced

LEMMA FinishTypes ==
  ASSUME LiveTyped, NEW w \in LiveWorkers, NEW v \in Verdicts \ {"none"}, FinishWith(w, v),
         live[w].pc \notin {"idle", "closing"}
  PROVE  LiveTyped'
<1>1. [live[w] EXCEPT !.pc = "finishing", !.verdict = v] \in Run
  BY ZenonT(30) DEF LiveTyped, Run, Steps
<1>2. live' = [live EXCEPT ![w] = [live[w] EXCEPT !.pc = "finishing", !.verdict = v]]
  BY DEF FinishWith
<1>3. LiveKnows([live[w] EXCEPT !.pc = "finishing", !.verdict = v])
  BY DEF LiveTyped, LiveKnows, Run
<1> QED
  BY <1>1, <1>2, <1>3, RunReplaced

LEMMA LeaveTypes ==
  ASSUME LiveTyped, NEW w \in LiveWorkers, Leave(w) PROVE LiveTyped'
<1>1. CASE live[w].held /\ ~live[w].effect
  <2> DEFINE r == [live[w] EXCEPT !.pc = "closing", !.preview = FALSE, !.token = 0,
                                  !.verdict = "none"]
  <2>1. r \in Run
    BY ZenonT(30), ClaimNumbers DEF LiveTyped, Run, Steps, Verdicts
  <2>2. live' = [live EXCEPT ![w] = r]
    BY <1>1 DEF Leave
  <2>3. LiveKnows(r)
    BY DEF LiveTyped, LiveKnows, Run
  <2> QED
    BY <2>1, <2>2, <2>3, RunReplaced
<1>2. CASE ~(live[w].held /\ ~live[w].effect)
  <2> DEFINE r == [NoRun EXCEPT !.pc = "closing"]
  <2>1. r \in Run
    BY NoRunTypes DEF Steps
  <2>2. live' = [live EXCEPT ![w] = r]
    BY <1>2 DEF Leave
  <2>3. LiveKnows(r)
    BY DEF LiveKnows, NoRun
  <2> QED
    BY <2>1, <2>2, <2>3, RunReplaced
<1> QED
  BY <1>1, <1>2

LEMMA EndTypes ==
  ASSUME LiveTyped, NEW w \in LiveWorkers, live' = [live EXCEPT ![w] = NoRun] PROVE LiveTyped'
<1>1. NoRun \in Run
  BY ClaimNumbers, CanaryNumbers DEF NoRun, Run, Steps, Verdicts
<1>2. LiveKnows(NoRun)
  BY DEF LiveKnows, NoRun
<1> QED
  BY <1>1, <1>2, RunReplaced

LEMMA LiveTypesKept ==
  ASSUME Typed, NEW w \in LiveWorkers, LiveStep(w) PROVE LiveTyped'
<1> LiveTyped /\ QueueTypeOK /\ w \in Workers
  BY LiveAssumption DEF LiveAssumption, Typed, TypeOK, RunsKnow, LiveTyped
<1> live[w] \in Run /\ LiveKnows(live[w])
  BY DEF LiveTyped
<1> USE DEF At
<1>1. ASSUME NEW j \in Jobs, NEW preview \in Modes, Begin(w, j, preview) PROVE LiveTyped'
  <2> DEFINE r == [NoRun EXCEPT !.pc = "swept", !.job = j, !.preview = preview]
  <2>1. r \in Run
    BY ClaimNumbers, CanaryNumbers, LiveAssumption DEF LiveAssumption, NoRun, Run, Steps, Verdicts
  <2>2. live' = [live EXCEPT ![w] = r]
    BY <1>1 DEF Begin
  <2>3. LiveKnows(r)
    BY DEF LiveKnows, NoRun
  <2> QED
    BY <2>1, <2>2, <2>3, RunReplaced
<1>2. CASE ResolveTarget(w)
  <2>1. LiveKnows([live[w] EXCEPT !.pc = "resolved"]) /\ "resolved" \in Steps
    BY <1>2 DEF ResolveTarget, LiveKnows, Run, Steps
  <2>2. live[w].pc \notin {"idle", "closing"} /\ "BLOCKED" \in Verdicts \ {"none"}
    BY <1>2 DEF ResolveTarget, Verdicts
  <2> QED
    BY <1>2, <2>1, <2>2, LeaveTypes, FinishTypes, GotoTypes DEF ResolveTarget
<1>3. CASE TakeLease(w)
  <2>1. live[w].pc = "resolved" /\ JobOf(w) \in Jobs /\ "BLOCKED" \in Verdicts \ {"none"}
    BY <1>3 DEF TakeLease, Verdicts, LiveKnows, JobOf
  <2>2. CASE Claim(JobOf(w), w, FALSE)
             /\ live' = [live EXCEPT ![w].pc = "claimed", ![w].token = jobs'[JobOf(w)].token]
    <3> DEFINE t == jobs'[JobOf(w)].token
               r == [live[w] EXCEPT !.pc = "claimed", !.token = t]
    <3>1. t \in 0..MaxClaims
      <4>1. QueueTypeOK'
        BY <2>1, <2>2, ClaimTypes
      <4> QED
        BY <2>1, <4>1 DEF QueueTypeOK, JobRow
    <3> HIDE DEF t
    <3>2. r \in Run
      BY <3>1 DEF Run, Steps
    <3>3. live' = [live EXCEPT ![w] = r]
      BY <2>2 DEF t
    <3>4. LiveKnows(r)
      BY <2>1 DEF LiveKnows, Run
    <3> QED
      BY <3>2, <3>3, <3>4, RunReplaced
  <2> QED
    BY <1>3, <2>1, <2>2, FinishTypes DEF TakeLease
<1>4. CASE CheckCanary(w)
  <2>1. live[w].pc = "claimed" /\ "BLOCKED" \in Verdicts \ {"none"}
    BY <1>4 DEF CheckCanary, Verdicts
  <2>2. ASSUME NEW c \in CanaryIds, live' = [live EXCEPT ![w].pc = "checked", ![w].canary = c]
        PROVE  LiveTyped'
    <3> DEFINE r == [live[w] EXCEPT !.pc = "checked", !.canary = c]
    <3>1. r \in Run
      BY CanaryNumbers DEF Run, Steps
    <3>2. live' = [live EXCEPT ![w] = r]
      BY <2>2
    <3>3. LiveKnows(r)
      BY <2>1 DEF LiveKnows, Run
    <3> QED
      BY <3>1, <3>2, <3>3, RunReplaced
  <2> QED
    BY <1>4, <2>1, <2>2, FinishTypes DEF CheckCanary
<1>5. CASE OpenBrowser(w)
  <2>1. live[w].pc = "checked" /\ "opened" \in Steps /\ "BLOCKED" \in Verdicts \ {"none"}
    BY <1>5 DEF OpenBrowser, Verdicts, Steps
  <2>2. LiveKnows([live[w] EXCEPT !.pc = "opened"])
    BY <2>1 DEF LiveKnows, Run
  <2> QED
    BY <1>5, <2>1, <2>2, FinishTypes, GotoTypes DEF OpenBrowser
<1>6. CASE PageRefuses(w) \/ ComposerRefuses(w)
  <2>1. live[w].pc \in {"opened", "reserved"} /\ {"BLOCKED", "FAILED"} \subseteq Verdicts \ {"none"}
    BY <1>6 DEF PageRefuses, ComposerRefuses, Verdicts
  <2> QED
    BY <1>6, <2>1, FinishTypes DEF PageRefuses, ComposerRefuses
<1>7. CASE ReservePermission(w)
  <2>1. live[w].pc = "opened" /\ "BLOCKED" \in Verdicts \ {"none"}
    BY <1>7 DEF ReservePermission, Verdicts
  <2>2. ASSUME live' = [live EXCEPT ![w].pc = "reserved", ![w].held = TRUE]
        PROVE  LiveTyped'
    <3> DEFINE r == [live[w] EXCEPT !.pc = "reserved", !.held = TRUE]
    <3>1. r \in Run
      BY DEF Run, Steps
    <3>2. live' = [live EXCEPT ![w] = r]
      BY <2>2
    <3>3. LiveKnows(r)
      BY <2>1 DEF LiveKnows, Run
    <3> QED
      BY <3>1, <3>2, <3>3, RunReplaced
  <2> QED
    BY <1>7, <2>1, <2>2, FinishTypes DEF ReservePermission
<1>8. CASE EnterHook(w, TRUE)
  <2>1. live[w].pc = "reserved" /\ "cleared" \in Steps
    BY <1>8 DEF EnterHook, Steps
  <2>2. LiveKnows([live[w] EXCEPT !.pc = "cleared"])
    BY <2>1 DEF LiveKnows, Run
  <2> QED
    BY <1>8, <2>1, <2>2, GotoTypes DEF EnterHook
<1>9. CASE SpendPermission(w)
  <2>1. live[w].pc = "cleared" /\ "FAILED" \in Verdicts \ {"none"}
    BY <1>9 DEF SpendPermission, Verdicts
  <2>2. ASSUME live' = [live EXCEPT ![w].pc = "consumed", ![w].held = FALSE]
        PROVE  LiveTyped'
    <3> DEFINE r == [live[w] EXCEPT !.pc = "consumed", !.held = FALSE]
    <3>1. r \in Run
      BY DEF Run, Steps
    <3>2. live' = [live EXCEPT ![w] = r]
      BY <2>2
    <3>3. LiveKnows(r)
      BY <2>1 DEF LiveKnows, Run
    <3> QED
      BY <3>1, <3>2, <3>3, RunReplaced
  <2> QED
    BY <1>9, <2>1, <2>2, FinishTypes DEF SpendPermission
<1>10. CASE ReserveSlot(w)
  <2>1. live[w].pc = "consumed" /\ "FAILED" \in Verdicts \ {"none"}
    BY <1>10 DEF ReserveSlot, Verdicts
  <2>2. ASSUME live' = [live EXCEPT ![w].pc = "marked", ![w].effect = TRUE]
        PROVE  LiveTyped'
    <3> DEFINE r == [live[w] EXCEPT !.pc = "marked", !.effect = TRUE]
    <3>1. r \in Run
      BY DEF Run, Steps
    <3>2. live' = [live EXCEPT ![w] = r]
      BY <2>2
    <3>3. LiveKnows(r)
      BY <2>1 DEF LiveKnows, Run
    <3> QED
      BY <3>1, <3>2, <3>3, RunReplaced
  <2> QED
    BY <1>10, <2>1, <2>2, FinishTypes DEF ReserveSlot
<1>11. CASE Click(w)
  <2>1. live[w].pc = "marked" /\ "clicked" \in Steps
    BY <1>11 DEF Click, Steps
  <2>2. LiveKnows([live[w] EXCEPT !.pc = "clicked"])
    BY <2>1 DEF LiveKnows, Run
  <2> QED
    BY <1>11, <2>1, <2>2, GotoTypes DEF Click
<1>12. CASE Judge(w)
  <2>1. live[w].pc \in {"marked", "clicked"} /\ "proved" \in Steps
        /\ {"AMBIGUOUS", "DELIVERY_FAILED"} \subseteq Verdicts \ {"none"}
    BY <1>12 DEF Judge, Steps, Verdicts, EffectOutcomes
  <2>2. LiveKnows([live[w] EXCEPT !.pc = "proved"])
    BY <2>1 DEF LiveKnows, Run
  <2> QED
    BY <1>12, <2>1, <2>2, GotoTypes, FinishTypes DEF Judge
<1>13. CASE RecordSent(w)
  <2>1. live[w].pc = "proved" /\ "recorded" \in Steps
    BY <1>13 DEF RecordSent, Steps
  <2>2. LiveKnows([live[w] EXCEPT !.pc = "recorded"])
    BY <2>1 DEF LiveKnows, Run
  <2> QED
    BY <1>13, <2>1, <2>2, GotoTypes, LeaveTypes DEF RecordSent
<1>14. CASE EnsureContacted(w)
  <2>1. live[w].pc = "recorded" /\ "SENT" \in Verdicts \ {"none"}
    BY <1>14 DEF EnsureContacted, Verdicts, EffectOutcomes
  <2> QED
    BY <1>14, <2>1, FinishTypes DEF EnsureContacted
<1>15. CASE RecordOutcome(w)
  <2>1. live[w].pc = "finishing" /\ "finalizing" \in Steps
    BY <1>15 DEF RecordOutcome, Steps
  <2>2. LiveKnows([live[w] EXCEPT !.pc = "finalizing"])
    BY <2>1 DEF LiveKnows, Run
  <2> QED
    BY <1>15, <2>1, <2>2, GotoTypes DEF RecordOutcome
<1>16. CASE FinalizeRun(w) \/ Raise(w)
  BY <1>16, LeaveTypes DEF FinalizeRun, Raise
<1>17. CASE CloseRun(w) \/ Crash(w)
  BY <1>17, EndTypes DEF CloseRun, Crash
<1> QED
  BY <1>1, <1>2, <1>3, <1>4, <1>5, <1>6, <1>7, <1>8, <1>9, <1>10, <1>11, <1>12, <1>13, <1>14,
     <1>15, <1>16, <1>17 DEF LiveStep, RunStep

-----------------------------------------------------------------------------
(* The processes beside them do too *)

DryTyped == /\ dry \in [DryWorkers -> DryRun]
            /\ \A d \in DryWorkers : DryKnows(dry[d])

LEMMA DryReplaced ==
  ASSUME DryTyped, NEW d \in DryWorkers, NEW r \in DryRun, DryKnows(r),
         dry' = [dry EXCEPT ![d] = r]
  PROVE  DryTyped'
  BY DEF DryTyped, DryKnows

LEMMA DryFinishTypes ==
  ASSUME DryTyped, NEW d \in DryWorkers, dry[d].pc \in {"claimed", "gated", "visiting"},
         NEW event \in {"DRY_RUN_COMPLETED", "SKIPPED", "BLOCKED", "FAILED"},
         NEW skip \in {"none", "TEMPORARY", "TERMINAL"}, NEW stop \in BOOLEAN,
         DryFinish(d, event, skip, stop)
  PROVE  DryTyped'
<1> DEFINE r == [dry[d] EXCEPT !.pc = "recording", !.event = event, !.skip = skip, !.stop = stop]
<1>1. r \in DryRun
  BY ZenonT(30) DEF DryTyped, DryRun
<1>2. dry' = [dry EXCEPT ![d] = r]
  BY DEF DryFinish
<1>3. DryKnows(r)
  BY DEF DryTyped, DryKnows, DryRun
<1> QED
  BY <1>1, <1>2, <1>3, DryReplaced

LEMMA DryTypesKept ==
  ASSUME Typed, NEW d \in DryWorkers, DryStep(d) PROVE DryTyped'
<1> DryTyped /\ QueueTypeOK /\ d \in Workers
  BY RailAssumption DEF RailAssumption, Typed, TypeOK, RunsKnow, DryTyped
<1> dry[d] \in DryRun /\ DryKnows(dry[d])
  BY DEF DryTyped
<1> USE DEF DryAt
<1>1. CASE DryStart(d)
  <2>1. [dry[d] EXCEPT !.pc = "looping"] \in DryRun /\ DryKnows([dry[d] EXCEPT !.pc = "looping"])
    BY DEF DryRun, DryKnows
  <2> QED
    BY <1>1, <2>1, DryReplaced DEF DryStart
<1>2. CASE DryClaim(d)
  <2>1. ASSUME NEW j \in Jobs, Claim(j, d, FALSE),
               dry' = [dry EXCEPT ![d].pc = "claimed", ![d].job = j,
                                  ![d].token = jobs'[j].token, ![d].seen = @ \cup {j}]
        PROVE  DryTyped'
    <3> DEFINE t == jobs'[j].token
               r == [dry[d] EXCEPT !.pc = "claimed", !.job = j, !.token = t, !.seen = @ \cup {j}]
    <3>1. t \in 0..MaxClaims
      <4>1. QueueTypeOK'
        BY <2>1, ClaimTypes
      <4> QED
        BY <4>1 DEF QueueTypeOK, JobRow
    <3> HIDE DEF t
    <3>2. r \in DryRun
      <4>1. dry[d].seen \cup {j} \in SUBSET Jobs
        BY DEF DryRun
      <4> QED
        BY <3>1, <4>1 DEF DryRun
    <3>3. dry' = [dry EXCEPT ![d] = r]
      BY <2>1 DEF t, DryTyped
    <3>4. DryKnows(r)
      BY DEF DryKnows, DryRun
    <3> QED
      BY <3>2, <3>3, <3>4, DryReplaced
  <2>2. CASE dry' = [dry EXCEPT ![d].pc = "ending"]
    <3>1. [dry[d] EXCEPT !.pc = "ending"] \in DryRun /\ DryKnows([dry[d] EXCEPT !.pc = "ending"])
      BY DEF DryRun, DryKnows
    <3> QED
      BY <2>2, <3>1, DryReplaced
  <2> QED
    BY <1>2, <2>1, <2>2 DEF DryClaim
<1>3. CASE DryGates(d)
  <2>1. dry[d].pc = "claimed"
    BY <1>3 DEF DryGates
  <2>2. [dry[d] EXCEPT !.pc = "gated"] \in DryRun /\ DryKnows([dry[d] EXCEPT !.pc = "gated"])
    BY <2>1 DEF DryRun, DryKnows
  <2> QED
    BY <1>3, <2>1, <2>2, DryReplaced, DryFinishTypes DEF DryGates
<1>4. CASE DryOpen(d)
  <2>1. dry[d].pc = "gated"
    BY <1>4 DEF DryOpen
  <2>2. [dry[d] EXCEPT !.pc = "visiting"] \in DryRun
        /\ DryKnows([dry[d] EXCEPT !.pc = "visiting"])
    BY <2>1 DEF DryRun, DryKnows
  <2> QED
    BY <1>4, <2>1, <2>2, DryReplaced, DryFinishTypes DEF DryOpen
<1>5. CASE DryVisit(d)
  <2>1. dry[d].pc = "visiting"
    BY <1>5 DEF DryVisit
  <2> QED
    BY <1>5, <2>1, DryFinishTypes DEF DryVisit
<1>6. CASE DryRecord(d)
  <2>1. dry[d].pc = "recording"
    BY <1>6 DEF DryRecord
  <2>2. [dry[d] EXCEPT !.pc = "finalizing"] \in DryRun
    BY DEF DryRun
  <2>3. dry[d].event # "none"
    BY <2>1 DEF DryKnows
  <2>4. DryKnows([dry[d] EXCEPT !.pc = "finalizing"])
    BY <2>1, <2>3 DEF DryRun, DryKnows
  <2> QED
    BY <1>6, <2>2, <2>4, DryReplaced DEF DryRecord
<1>7. CASE DryFinalize(d)
  <2>1. ASSUME NEW pc \in {"ending", "looping"}
        PROVE  [NoDryRun EXCEPT !.pc = pc, !.seen = dry[d].seen] \in DryRun
               /\ DryKnows([NoDryRun EXCEPT !.pc = pc, !.seen = dry[d].seen])
    BY ClaimNumbers DEF NoDryRun, DryRun, DryKnows
  <2>2. [dry[d] EXCEPT !.pc = "ending"] \in DryRun /\ DryKnows([dry[d] EXCEPT !.pc = "ending"])
    BY DEF DryRun, DryKnows
  <2>3. CASE dry[d].stop
             /\ dry' = [dry EXCEPT ![d] = [NoDryRun EXCEPT !.pc = "ending", !.seen = dry[d].seen]]
    BY <2>1, <2>3, DryReplaced
  <2>4. CASE ~dry[d].stop
             /\ dry' = [dry EXCEPT ![d] = [NoDryRun EXCEPT !.pc = "looping", !.seen = dry[d].seen]]
    BY <2>1, <2>4, DryReplaced
  <2>5. CASE dry' = [dry EXCEPT ![d].pc = "ending"]
    BY <2>2, <2>5, DryReplaced
  <2>6. dry[d].stop \in BOOLEAN
    BY DEF DryRun
  <2> QED
    BY <1>7, <2>3, <2>4, <2>5, <2>6 DEF DryFinalize
<1>8. CASE DryEnd(d)
  <2>1. NoDryRun \in DryRun /\ DryKnows(NoDryRun)
    BY ClaimNumbers DEF NoDryRun, DryRun, DryKnows
  <2> QED
    BY <1>8, <2>1, DryReplaced DEF DryEnd
<1> QED
  BY <1>1, <1>2, <1>3, <1>4, <1>5, <1>6, <1>7, <1>8 DEF DryStep

CloserTyped == /\ closing \in [Closers -> Closing]
               /\ \A o \in Closers : CloserKnows(closing[o])

LEMMA CloserReplaced ==
  ASSUME CloserTyped, NEW o \in Closers, NEW r \in Closing, CloserKnows(r),
         closing' = [closing EXCEPT ![o] = r]
  PROVE  CloserTyped'
  BY DEF CloserTyped, CloserKnows

LEMMA CloserTypesKept ==
  ASSUME Typed, NEW o \in Closers, CloserStep(o) PROVE CloserTyped'
<1> CloserTyped /\ QueueTypeOK /\ o \in Workers
  BY RailAssumption DEF RailAssumption, Typed, TypeOK, RunsKnow, CloserTyped
<1> closing[o] \in Closing /\ CloserKnows(closing[o])
  BY DEF CloserTyped
<1>0. ASSUME NEW j \in Jobs, Claim(j, o, TRUE) \/ Claim(j, o, FALSE)
      PROVE  jobs'[j].token \in 0..MaxClaims
  <2>1. QueueTypeOK'
    BY <1>0, ClaimTypes
  <2> QED
    BY <2>1 DEF QueueTypeOK, JobRow
<1>1. NoClosing \in Closing /\ CloserKnows(NoClosing)
  BY ClaimNumbers DEF NoClosing, Closing, CloserKnows
<1>2. ASSUME NEW j \in Jobs, NEW pc \in {"read", "held", "parking"}, NEW t \in 0..MaxClaims,
             closing' = [closing EXCEPT ![o] = [pc |-> pc, job |-> j, token |-> t]]
      PROVE  CloserTyped'
  <2>1. [pc |-> pc, job |-> j, token |-> t] \in Closing
        /\ CloserKnows([pc |-> pc, job |-> j, token |-> t])
    BY DEF Closing, CloserKnows
  <2> QED
    BY <1>2, <2>1, CloserReplaced
<1>3. ASSUME NEW j \in Jobs, RetireRead(o, j) PROVE CloserTyped'
  <2> DEFINE pc == IF jobs[j].status \in ClaimableStatuses THEN "read" ELSE "held"
  <2>1. pc \in {"read", "held", "parking"}
    OBVIOUS
  <2>2. closing' = [closing EXCEPT ![o] = [pc |-> pc, job |-> j, token |-> 0]]
    BY <1>3 DEF RetireRead
  <2> HIDE DEF pc
  <2> QED
    BY <1>2, <2>1, <2>2, ClaimNumbers
<1>4. ASSUME NEW j \in Jobs, ParkClaim(o, j) PROVE CloserTyped'
  BY <1>0, <1>2, <1>4 DEF ParkClaim
<1>5. CASE RetireClaim(o)
  <2>1. closing[o].job \in Jobs
    BY <1>5 DEF RetireClaim, CloserKnows
  <2>2. ASSUME Claim(closing[o].job, o, TRUE),
               closing' = [closing EXCEPT ![o].pc = "held",
                                          ![o].token = jobs'[closing[o].job].token]
        PROVE  CloserTyped'
    <3> DEFINE t == jobs'[closing[o].job].token
               r == [closing[o] EXCEPT !.pc = "held", !.token = t]
    <3>1. t \in 0..MaxClaims
      BY <1>0, <2>1, <2>2
    <3> HIDE DEF t
    <3>2. r \in Closing /\ CloserKnows(r)
      BY <2>1, <3>1 DEF Closing, CloserKnows
    <3>3. closing' = [closing EXCEPT ![o] = r]
      BY <2>2 DEF t, CloserTyped
    <3> QED
      BY <3>2, <3>3, CloserReplaced
  <2> QED
    BY <1>1, <1>5, <2>2, CloserReplaced DEF RetireClaim
<1>6. ASSUME \/ RetireCommit(o) \/ CloserCrash(o)
             \/ \E forGood \in BOOLEAN : ParkFinalize(o, forGood)
      PROVE  CloserTyped'
  BY <1>1, <1>6, CloserReplaced DEF RetireCommit, CloserCrash, ParkFinalize
<1> QED
  BY <1>3, <1>4, <1>5, <1>6 DEF CloserStep

-----------------------------------------------------------------------------
(* The remaining variables *)

\* Everything that is neither a table nor a process.
WorldTypes ==
    /\ locked \in [Jobs -> BOOLEAN]
    /\ killSwitch \in BOOLEAN
    /\ recent \subseteq Jobs
    /\ cooling \in BOOLEAN
    /\ browser \in Workers \cup {Nobody}
    /\ journal \in [Jobs -> SUBSET EffectOutcomes]
    /\ streak \in 0..MaxFailures
    /\ sent \subseteq Jobs
    /\ contacted \subseteq Jobs
    /\ clicks \in [Jobs -> Nat]
    /\ retired \subseteq Jobs

LEMMA StreakTypes ==
  ASSUME streak \in 0..MaxFailures, NEW status PROVE StreakAfter(status) \in 0..MaxFailures
  BY LiveAssumption DEF LiveAssumption, StreakAfter

LEMMA LiveWorldTypes ==
  ASSUME Typed, NEW w \in LiveWorkers, LiveStep(w), UNCHANGED retired PROVE WorldTypes'
<1> WorldTypes /\ w \in Workers /\ LiveKnows(live[w]) /\ live[w] \in Run
  BY LiveAssumption DEF LiveAssumption, Typed, TypeOK, RunsKnow, WorldTypes
<1> USE DEF WorldTypes, worldVars, logVars, paceVars, At, JobOf
<1>1. ASSUME \/ \E j \in Jobs, preview \in Modes : Begin(w, j, preview)
             \/ ResolveTarget(w) \/ TakeLease(w) \/ CheckCanary(w) \/ PageRefuses(w)
             \/ ReservePermission(w) \/ ComposerRefuses(w) \/ SpendPermission(w) \/ Judge(w)
             \/ FinalizeRun(w) \/ EnterHook(w, TRUE) \/ Raise(w)
      PROVE  WorldTypes'
  BY <1>1 DEF Begin, ResolveTarget, TakeLease, CheckCanary, PageRefuses, ReservePermission,
              ComposerRefuses, SpendPermission, Judge, FinalizeRun, EnterHook, Raise
<1>2. CASE OpenBrowser(w) \/ CloseRun(w) \/ Crash(w)
  BY <1>2 DEF OpenBrowser, CloseRun, Crash
<1>3. CASE ReserveSlot(w)
  BY <1>3 DEF ReserveSlot, LiveKnows
<1>4. CASE Click(w)
  BY <1>4 DEF Click, LiveKnows
<1>5. CASE RecordSent(w) \/ EnsureContacted(w)
  BY <1>5 DEF RecordSent, EnsureContacted, LiveKnows
<1>6. CASE RecordOutcome(w)
  <2>1. live[w].job \in Jobs /\ live[w].verdict \in Verdicts
    BY <1>6 DEF RecordOutcome, LiveKnows, Run
  <2>2. journal' \in [Jobs -> SUBSET EffectOutcomes]
    BY <1>6, <2>1 DEF RecordOutcome
  <2>3. streak' \in 0..MaxFailures
    BY <1>6, StreakTypes DEF RecordOutcome
  <2> QED
    BY <1>6, <2>2, <2>3 DEF RecordOutcome
<1> QED
  BY <1>1, <1>2, <1>3, <1>4, <1>5, <1>6 DEF LiveStep, RunStep

LEMMA BesideWorldTypes ==
  ASSUME Typed, \/ \E d \in DryWorkers : DryStep(d)
                \/ \E o \in Closers : CloserStep(o)
  PROVE  WorldTypes'
<1> WorldTypes
  BY DEF Typed, TypeOK, WorldTypes
<1> USE DEF WorldTypes, worldVars, logVars, paceVars
<1>1. ASSUME NEW d \in DryWorkers, DryStep(d) PROVE WorldTypes'
  <2>0. d \in Workers
    BY RailAssumption DEF RailAssumption
  <2>1. CASE DryStart(d) \/ DryClaim(d) \/ DryGates(d) \/ DryVisit(d) \/ DryFinalize(d)
    BY <2>1 DEF DryStart, DryClaim, DryGates, DryVisit, DryFinalize
  <2>2. CASE DryOpen(d) \/ DryEnd(d)
    BY <2>0, <2>2 DEF DryOpen, DryEnd
  <2>3. CASE DryRecord(d)
    <3>1. streak' \in 0..MaxFailures
      BY <2>3, StreakTypes DEF DryRecord
    <3> QED
      BY <2>3, <3>1 DEF DryRecord
  <2> QED
    BY <1>1, <2>1, <2>2, <2>3 DEF DryStep
<1>2. ASSUME NEW o \in Closers, CloserStep(o) PROVE WorldTypes'
  <2>1. CASE RetireCommit(o)
    <3>1. closing[o].job \in Jobs
      BY <1>2, <2>1 DEF RetireCommit, Typed, RunsKnow, CloserKnows
    <3> QED
      BY <2>1, <3>1 DEF RetireCommit
  <2>2. ASSUME \/ \E j \in Jobs : RetireRead(o, j) \/ ParkClaim(o, j)
               \/ \E forGood \in BOOLEAN : ParkFinalize(o, forGood)
               \/ RetireClaim(o) \/ CloserCrash(o)
        PROVE  WorldTypes'
    BY <2>2 DEF RetireRead, ParkClaim, ParkFinalize, RetireClaim, CloserCrash
  <2> QED
    BY <1>2, <2>1, <2>2 DEF CloserStep
<1> QED
  BY <1>1, <1>2

LEMMA OperatorWorldTypes ==
  ASSUME Typed, OperatorStep \/ JobClock \/ CanaryClock \/ PaceClock, UNCHANGED retired
  PROVE  WorldTypes'
<1> WorldTypes
  BY DEF Typed, TypeOK, WorldTypes
<1>1. CASE OperatorStep
  BY <1>1 DEF OperatorStep, EnqueueJob, SupersedeManifest, ArmCanary, RevokeCanary,
              SetKillSwitch, RecoverLeases, WorldTypes, worldVars, logVars, paceVars
<1>2. CASE JobClock \/ CanaryClock \/ PaceClock
  BY <1>2 DEF JobClock, CanaryClock, PaceClock, WorldTypes, worldVars, logVars, paceVars
<1> QED
  BY <1>1, <1>2

-----------------------------------------------------------------------------
LEMMA OperatorLeavesRuns ==
  OperatorStep \/ JobClock \/ CanaryClock \/ PaceClock => UNCHANGED live
  BY DEF OperatorStep, EnqueueJob, SupersedeManifest, ArmCanary, RevokeCanary, SetKillSwitch,
         RecoverLeases, JobClock, CanaryClock, PaceClock

LEMMA BesideLeavesRuns ==
  /\ (\E d \in DryWorkers : DryStep(d)) => UNCHANGED <<live, closing>>
  /\ (\E o \in Closers : CloserStep(o)) => UNCHANGED <<live, dry>>
<1>1. ASSUME NEW d \in DryWorkers, DryStep(d) PROVE UNCHANGED <<live, closing>>
  BY <1>1 DEF DryStep, DryStart, DryClaim, DryGates, DryOpen, DryVisit, DryRecord,
              DryFinalize, DryEnd
<1>2. ASSUME NEW o \in Closers, CloserStep(o) PROVE UNCHANGED <<live, dry>>
  BY <1>2 DEF CloserStep, RetireRead, RetireClaim, RetireCommit, ParkClaim, ParkFinalize,
              CloserCrash
<1> QED
  BY <1>1, <1>2

LEMMA TypedParts ==
  Typed <=> /\ QueueTypeOK /\ CanaryTypeOK /\ WorldTypes
            /\ LiveTyped /\ DryTyped /\ CloserTyped
  BY DEF Typed, TypeOK, RunsKnow, WorldTypes, LiveTyped, DryTyped, CloserTyped

LEMMA TypedInit == RailInit => Typed
<1> SUFFICES ASSUME RailInit PROVE Typed
  OBVIOUS
<1> USE DEF RailInit, LiveInit
<1>1. QueueTypeOK
  BY ClaimNumbers DEF QueueInit, QueueTypeOK, AbsentRow, JobRow
<1>2. CanaryTypeOK
  <2>1. [ArmedRow(NoManifest, "HUMAN") EXCEPT !.state = "NEW"] \in Canary
    <3>1. ArmedRow(NoManifest, "HUMAN") \in Canary
      BY DEF ArmedRow, Canary, LiveStates
    <3>2. \A r \in Canary : [r EXCEPT !.state = "NEW"] \in Canary
      BY DEF Canary
    <3> QED
      BY <3>1, <3>2
  <2> QED
    BY <2>1 DEF CanaryInit, CanaryTypeOK
<1>3. WorldTypes
  <2>1. 0 \in 0..MaxFailures
    BY LiveAssumption DEF LiveAssumption
  <2>2. /\ clicks \in [Jobs -> Nat]
        /\ journal \in [Jobs -> SUBSET EffectOutcomes]
        /\ locked \in [Jobs -> BOOLEAN]
    OBVIOUS
  <2> QED
    BY <2>1, <2>2 DEF WorldTypes
<1>4. LiveTyped
  BY ClaimNumbers, CanaryNumbers DEF LiveTyped, LiveKnows, NoRun, Run, Steps, Verdicts
<1>5. DryTyped
  BY ClaimNumbers DEF DryTyped, DryKnows, NoDryRun, DryRun
<1>6. CloserTyped
  BY ClaimNumbers DEF CloserTyped, CloserKnows, NoClosing, Closing
<1> QED
  BY <1>1, <1>2, <1>3, <1>4, <1>5, <1>6, TypedParts

LEMMA TypedKept == Typed /\ [RailNext]_railVars => Typed'
<1> SUFFICES ASSUME Typed, [RailNext]_railVars PROVE Typed'
  OBVIOUS
<1>1. QueueTypeOK' /\ CanaryTypeOK'
  BY QueueTypesKept, CanaryTypesKept
<1>2. LiveTyped /\ DryTyped /\ CloserTyped /\ WorldTypes
  BY TypedParts
<1>3. UNCHANGED live => LiveTyped'
  BY <1>2 DEF LiveTyped
<1>4. UNCHANGED dry => DryTyped'
  BY <1>2 DEF DryTyped
<1>5. UNCHANGED closing => CloserTyped'
  BY <1>2 DEF CloserTyped
<1>6. LiveTyped' /\ DryTyped' /\ CloserTyped' /\ WorldTypes'
  <2>1. CASE UNCHANGED railVars
    BY <1>2, <1>3, <1>4, <1>5, <2>1 DEF railVars, WorldTypes
  <2>2. ASSUME NEW w \in LiveWorkers, LiveStep(w), UNCHANGED <<dry, closing, retired>>
        PROVE  LiveTyped' /\ DryTyped' /\ CloserTyped' /\ WorldTypes'
    BY <1>4, <1>5, <2>2, LiveTypesKept, LiveWorldTypes
  <2>3. CASE /\ OperatorStep \/ JobClock \/ CanaryClock \/ PaceClock
             /\ UNCHANGED <<dry, closing, retired>>
    BY <1>3, <1>4, <1>5, <2>3, OperatorLeavesRuns, OperatorWorldTypes
  <2>4. CASE \E d \in DryWorkers : DryStep(d)
    BY <1>3, <1>5, <2>4, DryTypesKept, BesideLeavesRuns, BesideWorldTypes
  <2>5. CASE \E o \in Closers : CloserStep(o)
    BY <1>3, <1>4, <2>5, CloserTypesKept, BesideLeavesRuns, BesideWorldTypes
  <2> QED
    BY <2>1, <2>2, <2>3, <2>4, <2>5 DEF RailNext
<1> QED
  BY <1>1, <1>6 DEF Typed, TypeOK, RunsKnow, WorldTypes, LiveTyped, DryTyped, CloserTyped

\* Every reachable state of the rail is typed, and every process knows what
\* the statement it is at relies on.
THEOREM TypedTheorem == RailSpec => []Typed
<1> QED
  BY TypedInit, TypedKept, PTL DEF RailSpec

\* Every variable of the rail keeps its type, for any number of jobs,
\* permissions and processes: a claim token is never outside the attempts
\* counted, no status is written that the schema does not know, and no
\* journal holds an outcome of a run that attempted nothing.
THEOREM RailTypes == RailSpec => []TypeOK
<1>1. Typed => TypeOK
  BY DEF Typed
<1> QED
  BY <1>1, TypedTheorem, PTL

-----------------------------------------------------------------------------
(* The lease columns *)

RowCoherent(r) ==
    LET claimed == r.status = "CLAIMED"
    IN  /\ claimed <=> r.token # 0
        /\ claimed <=> r.by # Nobody
        /\ claimed <=> r.lease # "none"
        /\ claimed => r.token = r.attempts

LEMMA RowsCoherent == LeaseCoherent <=> \A j \in Jobs : RowCoherent(jobs[j])
  BY DEF LeaseCoherent, RowCoherent

LEMMA FinalizedCoherent ==
  ASSUME QueueTypeOK, LeaseCoherent, NEW i \in Jobs, NEW token, NEW skip, NEW due,
         NEW status, status # "CLAIMED", Finalize(i, token, status, skip, due)
  PROVE  LeaseCoherent'
<1>1. RowCoherent(Finalized(i, status, skip, due))
  BY DEF Finalized, RowCoherent, QueueTypeOK, JobRow
<1>2. UNCHANGED jobs \/ jobs' = [jobs EXCEPT ![i] = Finalized(i, status, skip, due)]
  BY DEF Finalize
<1>3. \A j \in Jobs : RowCoherent(jobs'[j])
  BY <1>1, <1>2, RowsCoherent DEF QueueTypeOK
<1> QED
  BY <1>3 DEF LeaseCoherent, RowCoherent

LEMMA CoherenceKept ==
  ASSUME Typed, LeaseCoherent, [RailNext]_railVars PROVE LeaseCoherent'
<1>0. QueueStep /\ QueueTypeOK /\ \A j \in Jobs : RowCoherent(jobs[j]) /\ jobs[j] \in JobRow
  BY RailQueueStep, RowsCoherent DEF Typed, TypeOK, QueueTypeOK
<1> DEFINE Reported == \E w \in LiveWorkers : FinalizeRun(w)
           Closed == \E i \in Jobs, token \in 0..MaxClaims,
                        skip \in {"none", "TEMPORARY", "TERMINAL"}, due \in BOOLEAN,
                        status \in ClaimableStatuses \cup {"INELIGIBLE"} :
                        Finalize(i, token, status, skip, due)
<1>1. SUFFICES ASSUME ~Reported, ~Closed, NEW j \in Jobs PROVE RowCoherent(jobs'[j])
  <2>1. ASSUME NEW w \in LiveWorkers, FinalizeRun(w) PROVE LeaseCoherent'
    <3>1. live[w].job \in Jobs /\ live[w].verdict \in Verdicts
      BY <2>1 DEF FinalizeRun, At, Typed, TypeOK, RunsKnow, LiveKnows, Run
    <3>2. StatusOf(live[w].verdict) # "CLAIMED"
      BY <3>1 DEF StatusOf, Verdicts, EffectOutcomes
    <3> QED
      BY <1>0, <2>1, <3>1, <3>2, FinalizedCoherent DEF FinalizeRun, JobOf
  <2>2. ASSUME NEW i \in Jobs, NEW token, NEW skip, NEW due,
               NEW status \in ClaimableStatuses \cup {"INELIGIBLE"},
               Finalize(i, token, status, skip, due)
        PROVE  LeaseCoherent'
    BY <1>0, <2>2, FinalizedCoherent DEF ClaimableStatuses
  <2> QED
    BY <2>1, <2>2 DEF LeaseCoherent, RowCoherent
<1>2. CASE UNCHANGED jobs
  BY <1>0, <1>2
<1>3. CASE RecoverExpiredLeases
  <2>1. CASE LeaseLapsed(j)
    <3>1. RowCoherent(RecoveredRow(jobs[j]))
      BY <1>0 DEF RecoveredRow, RowCoherent, JobRow
    <3> QED
      BY <1>3, <2>1, <3>1 DEF RecoverExpiredLeases
  <2>2. CASE ~LeaseLapsed(j)
    BY <1>0, <1>3, <2>2 DEF RecoverExpiredLeases
  <2> QED
    BY <2>1, <2>2
<1>4. ASSUME NEW i \in Jobs, Enqueue(i) PROVE RowCoherent(jobs'[j])
  <2>1. RowCoherent([AbsentRow EXCEPT !.status = "PENDING", !.due = TRUE])
    BY DEF AbsentRow, RowCoherent
  <2> QED
    BY <1>0, <1>4, <2>1 DEF Enqueue, QueueTypeOK
<1>5. ASSUME NEW i \in Jobs, LeaseExpires(i) \/ BecomesDue(i) PROVE RowCoherent(jobs'[j])
  <2>1. CASE LeaseExpires(i)
    BY <1>0, <2>1 DEF LeaseExpires, QueueTypeOK, JobRow, RowCoherent
  <2>2. CASE BecomesDue(i)
    BY <1>0, <2>2 DEF BecomesDue, QueueTypeOK, JobRow, RowCoherent
  <2> QED
    BY <1>5, <2>1, <2>2
<1>6. ASSUME NEW i \in Jobs, NEW w \in Workers, NEW early, Claim(i, w, early)
      PROVE  RowCoherent(jobs'[j])
  <2> DEFINE r == [jobs[i] EXCEPT !.status = "CLAIMED", !.token = jobs[i].attempts + 1,
                                  !.attempts = jobs[i].attempts + 1, !.by = w,
                                  !.lease = "running"]
  <2>1. jobs' = [jobs EXCEPT ![i] = r]
    BY <1>0, <1>6 DEF Claim, QueueTypeOK
  <2>2. \A n \in 0..MaxClaims : n + 1 # 0
    OBVIOUS
  <2>3. jobs[i].attempts + 1 # 0 /\ w # Nobody
    BY <1>0, <2>2, OwnerAssumption DEF OwnerAssumption, JobRow
  <2>4. RowCoherent(r)
    BY <1>0, <2>3 DEF RowCoherent, JobRow
  <2> HIDE DEF r
  <2> QED
    BY <1>0, <2>1, <2>4 DEF QueueTypeOK
<1>7. ASSUME NEW w \in LiveWorkers, ReserveSlot(w), MarkEffect(JobOf(w), live[w].canary)
      PROVE  RowCoherent(jobs'[j])
  <2>1. jobs' = [jobs EXCEPT ![JobOf(w)] = Marked(JobOf(w), live[w].canary)]
    BY <1>7 DEF MarkEffect
  <2>2. RowCoherent(Marked(j, live[w].canary))
    BY <1>0 DEF Marked, RowCoherent, JobRow
  <2> QED
    BY <1>0, <2>1, <2>2 DEF QueueTypeOK
<1>8. \/ Reported \/ Closed
      \/ UNCHANGED jobs \/ RecoverExpiredLeases
      \/ \E i \in Jobs : Enqueue(i) \/ LeaseExpires(i) \/ BecomesDue(i)
      \/ \E i \in Jobs, w \in Workers, early \in BOOLEAN : Claim(i, w, early)
      \/ \E w \in LiveWorkers : ReserveSlot(w) /\ MarkEffect(JobOf(w), live[w].canary)
  BY <1>0, Zenon DEF QueueStep
<1> HIDE DEF Reported, Closed
<1> QED
  BY <1>1, <1>2, <1>3, <1>4, <1>5, <1>6, <1>7, <1>8

\* Whatever interleaves, the lease columns of a job are set together, exactly
\* while it is claimed, and the token is that of its latest claim: two
\* processes never hold the right to write the same outcome.
THEOREM LeaseCoherentTheorem == RailSpec => []LeaseCoherent
<1>1. RailInit => LeaseCoherent
  BY DEF RailInit, LiveInit, QueueInit, AbsentRow, LeaseCoherent
<1>2. Typed /\ LeaseCoherent /\ [RailNext]_railVars => LeaseCoherent'
  BY CoherenceKept
<1> QED
  BY <1>1, <1>2, TypedTheorem, PTL DEF RailSpec


-----------------------------------------------------------------------------
(* Permissions *)

\* The statements on a permission leave alone one that is over.
LEMMA OverStaysOver ==
  ASSUME Typed, [RailNext]_railVars, NEW c \in CanaryIds,
         canaries[c].state \in {"CONSUMED", "EXPIRED", "REVOKED"}
  PROVE  canaries'[c] = canaries[c]
<1>1. CanaryStep /\ CanaryTypeOK
  BY RailCanaryStep DEF Typed, TypeOK
<1>2. Swept(c) = canaries[c]
  BY DEF Swept, IsStale, LiveStates
<1>3. CASE UNCHANGED canaries \/ ExpireStale
  BY <1>2, <1>3 DEF ExpireStale
<1>4. ASSUME NEW j \in Jobs, NEW kind, Arm(j, kind, jobs[j].effect)
      PROVE  canaries'[c] = canaries[c]
  BY <1>2, <1>4 DEF Arm, Fresh, ExpireStale
<1>5. ASSUME NEW d \in CanaryIds, Revoke(d) \/ TtlElapses(d) PROVE canaries'[c] = canaries[c]
  BY <1>1, <1>5 DEF Revoke, TtlElapses, LiveStates, CanaryTypeOK
<1>6. ASSUME NEW d, NEW m, NEW w, Reserve(d, m, w) \/ Consume(d, m, w) \/ Release(d, m, w)
      PROVE  canaries'[c] = canaries[c]
  BY <1>1, <1>6 DEF Reserve, CanReserve, Consume, CanConsume, Release, HoldsReservation,
                    CanaryTypeOK
<1> QED
  BY <1>1, <1>3, <1>4, <1>5, <1>6 DEF CanaryStep

\* A permission that was spent, expired or revoked is never live again: no
\* late release gives it back, and no sweep rewrites how it ended.
THEOREM PermissionIsOneShotTheorem == RailSpec => PermissionIsOneShot
<1>1. Typed /\ [RailNext]_railVars
        => [\A c \in CanaryIds :
              canaries[c].state \in {"CONSUMED", "EXPIRED", "REVOKED"} =>
                canaries'[c] = canaries[c]]_railVars
  BY OverStaysOver
<1> QED
  BY <1>1, TypedTheorem, PTL DEF RailSpec, PermissionIsOneShot

-----------------------------------------------------------------------------
(* The caps *)

\* Only the mark adds an attempt to the window, under the count it made; time
\* only takes attempts out.
LEMMA WindowStep ==
  ASSUME [RailNext]_railVars
  PROVE  \/ UNCHANGED recent
         \/ \E j \in recent : recent' = recent \ {j}
         \/ \E w \in LiveWorkers : /\ Cardinality(recent) < EffectCap
                                   /\ recent' = recent \cup {JobOf(w)}
<1> USE DEF paceVars
<1>1. ASSUME NEW w \in LiveWorkers, LiveStep(w), ~ReserveSlot(w) PROVE UNCHANGED recent
  BY <1>1 DEF LiveStep, RunStep, Begin, ResolveTarget, TakeLease, CheckCanary, OpenBrowser,
              PageRefuses, ReservePermission, ComposerRefuses, EnterHook, SpendPermission,
              Click, Judge, RecordSent, EnsureContacted, RecordOutcome, FinalizeRun, Raise,
              CloseRun, Crash
<1>2. ASSUME NEW w \in LiveWorkers, ReserveSlot(w)
      PROVE  \/ UNCHANGED recent
             \/ /\ Cardinality(recent) < EffectCap
                /\ recent' = recent \cup {JobOf(w)}
  BY <1>2 DEF ReserveSlot, SlotOpen
<1>3. CASE OperatorStep \/ JobClock \/ CanaryClock
  BY <1>3 DEF OperatorStep, EnqueueJob, SupersedeManifest, ArmCanary, RevokeCanary,
              SetKillSwitch, RecoverLeases, JobClock, CanaryClock
<1>4. CASE PaceClock
  BY <1>4 DEF PaceClock
<1>5. ASSUME NEW d \in DryWorkers, DryStep(d) PROVE UNCHANGED recent
  BY <1>5 DEF DryStep, DryStart, DryClaim, DryGates, DryOpen, DryVisit, DryRecord,
              DryFinalize, DryEnd
<1>6. ASSUME NEW o \in Closers, CloserStep(o) PROVE UNCHANGED recent
  BY <1>6 DEF CloserStep, RetireRead, RetireClaim, RetireCommit, ParkClaim, ParkFinalize,
              CloserCrash
<1>7. CASE UNCHANGED railVars
  BY <1>7 DEF railVars
<1> QED
  BY <1>1, <1>2, <1>3, <1>4, <1>5, <1>6, <1>7 DEF RailNext

\* However many workers read "one slot left", the window never holds more
\* attempts than the cap: the count and the mark are one transaction.
THEOREM CapNeverExceededTheorem == RailSpec => []CapNeverExceeded
<1> DEFINE Window == IsFiniteSet(recent) /\ CapNeverExceeded
<1>1. RailInit => Window
  BY FS_EmptySet, LiveAssumption DEF LiveAssumption, RailInit, LiveInit, CapNeverExceeded
<1>2. Window /\ [RailNext]_railVars => Window'
  <2> SUFFICES ASSUME Window, [RailNext]_railVars PROVE Window'
    OBVIOUS
  <2>0. Cardinality(recent) \in Nat /\ EffectCap \in Nat
    BY FS_CardinalityType, LiveAssumption DEF LiveAssumption
  <2>1. CASE UNCHANGED recent
    BY <2>1 DEF CapNeverExceeded
  <2>2. ASSUME NEW j \in recent, recent' = recent \ {j} PROVE Window'
    <3>1. IsFiniteSet(recent') /\ Cardinality(recent') = Cardinality(recent) - 1
      BY <2>2, FS_RemoveElement
    <3> QED
      BY <2>0, <3>1 DEF CapNeverExceeded
  <2>3. ASSUME NEW w \in LiveWorkers, Cardinality(recent) < EffectCap,
               recent' = recent \cup {JobOf(w)}
        PROVE  Window'
    <3>1. /\ IsFiniteSet(recent')
          /\ Cardinality(recent') \in {Cardinality(recent), Cardinality(recent) + 1}
      BY <2>3, FS_AddElement
    <3> QED
      BY <2>0, <2>3, <3>1 DEF CapNeverExceeded
  <2> QED
    BY <2>1, <2>2, <2>3, WindowStep
<1> QED
  BY <1>1, <1>2, PTL DEF RailSpec

-----------------------------------------------------------------------------
(* The invariant *)

\* What a row and the permission it names say together: an intent that is
\* announced names a permission spent on it, one that was never announced was
\* never clicked, and the CHECK constraints hold of every row, also where no
\* statement evaluates them.
RowIsHonest(j) ==
    /\ jobs[j].status = "ABSENT" => ~jobs[j].effect
    /\ jobs[j].effect => /\ jobs[j].canary \in CanaryIds
                         /\ canaries[jobs[j].canary].state = "CONSUMED"
                         /\ canaries[jobs[j].canary].manifest = j
    /\ clicks[j] \in 0..1
    /\ clicks[j] = 1 => jobs[j].effect
    /\ RowAccepted(jobs[j])
    /\ jobs[j].status = "REVIEW_REQUIRED" => jobs[j].effect
    /\ jobs[j].status = "DELIVERY_FAILED" => clicks[j] = 1

\* The steps of a run at which its job must already be a row.
OnARow == {"resolved", "claimed", "checked", "opened", "reserved", "cleared", "consumed"}

Reporting == {"finishing", "finalizing"}

\* What a run may conclude from where it is.
RunIsHonest(w) ==
    LET r == live[w]
        j == r.job
    IN  /\ r.pc \in OnARow => jobs[j].status # "ABSENT"
        /\ r.pc = "consumed" => /\ canaries[r.canary].state = "CONSUMED"
                                /\ canaries[r.canary].manifest = j
        /\ r.pc = "marked" => jobs[j].effect /\ clicks[j] = 0
        /\ r.pc \in {"clicked", "proved"} => clicks[j] = 1
        /\ r.pc = "recorded" => j \in sent
        /\ r.pc \in Reporting =>
             /\ r.verdict = "SENT" => j \in contacted
             /\ r.verdict = "DELIVERY_FAILED" => clicks[j] = 1
             /\ r.verdict = "AMBIGUOUS" => jobs[j].effect
        /\ r.pc = "finalizing" /\ r.verdict = "SENT" => "SENT" \in journal[j]

\* No two runs are between the mark and the click of one job.
OneAtTheButton ==
    \A v, w \in LiveWorkers :
        live[v].pc = "marked" /\ live[w].pc = "marked" /\ live[v].job = live[w].job => v = w

\* The inductive invariant of the rail.
Honest ==
    /\ \A j \in Jobs : RowIsHonest(j)
    /\ \A w \in LiveWorkers : RunIsHonest(w)
    /\ OneAtTheButton
    /\ LedgersAgree

-----------------------------------------------------------------------------
(* How one row moves *)

\* A row that stays where it is in its life: a claim, a clock.
Waits(r, t) == /\ t.skip = r.skip
               /\ \/ r.status \in ClaimableStatuses /\ t.status \in {r.status, "CLAIMED"}
                  \/ r.status = "CLAIMED" /\ t.status = "CLAIMED"

\* recoverExpiredLeases.
Recovers(r, t) == /\ r.status = "CLAIMED"
                  /\ \/ r.effect /\ t.status = "REVIEW_REQUIRED" /\ t.skip = "TERMINAL"
                     \/ ~r.effect /\ t.status = "PENDING" /\ t.skip = r.skip

\* A final write by a process that never sends.
Closes(r, t) == /\ r.status = "CLAIMED"
                /\ t.status \in ClaimableStatuses \cup {"INELIGIBLE"}
                /\ RowAccepted(t)

\* The final write of the live run w.
Reports(w, j, t) == /\ FinalizeRun(w)
                    /\ live[w].job = j
                    /\ jobs[j].status = "CLAIMED"
                    /\ t.status = StatusOf(live[w].verdict)
                    /\ RowAccepted(t)

\* The mark, set by the live run w.
Marks(w, j, t) == /\ ReserveSlot(w)
                  /\ live[w].job = j
                  /\ ~jobs[j].effect
                  /\ t = Marked(j, live[w].canary)
                  /\ RowAccepted(t)

RowStep(j) ==
    LET r == jobs[j]
        t == jobs'[j]
    IN  \/ t = r
        \/ r.status = "ABSENT" /\ t.status = "PENDING" /\ ~t.effect /\ t.skip = "none"
        \/ /\ t.effect = r.effect
           /\ t.canary = r.canary
           /\ \/ Waits(r, t) \/ Recovers(r, t) \/ Closes(r, t)
              \/ \E w \in LiveWorkers : Reports(w, j, t)
        \/ \E w \in LiveWorkers : Marks(w, j, t)

\* A final write leaves the mark and the permission it names alone.
LEMMA FinalizedRow ==
  ASSUME QueueTypeOK, NEW j \in Jobs, NEW i \in Jobs, NEW token, NEW status, NEW skip, NEW due,
         Finalize(i, token, status, skip, due)
  PROVE  \/ jobs'[j] = jobs[j]
         \/ /\ j = i
            /\ jobs[j].status = "CLAIMED"
            /\ jobs'[j].status = status
            /\ jobs'[j].effect = jobs[j].effect
            /\ jobs'[j].canary = jobs[j].canary
            /\ RowAccepted(jobs'[j])
<1>1. CASE ~HoldsLease(i, token) \/ i # j
  BY <1>1 DEF Finalize, QueueTypeOK
<1>2. CASE HoldsLease(i, token) /\ i = j
  <2> DEFINE t == Finalized(j, status, skip, due)
  <2>1. jobs'[j] = t /\ RowAccepted(t) /\ jobs[j].status = "CLAIMED"
    BY <1>2 DEF Finalize, HoldsLease, QueueTypeOK
  <2>2. t.status = status /\ t.effect = jobs[j].effect /\ t.canary = jobs[j].canary
    BY DEF Finalized, QueueTypeOK, JobRow
  <2> QED
    BY <1>2, <2>1, <2>2
<1> QED
  BY <1>1, <1>2

LEMMA RecoveredRowMoves ==
  ASSUME NEW r \in JobRow, r.status = "CLAIMED"
  PROVE  /\ Recovers(r, RecoveredRow(r))
         /\ RecoveredRow(r).effect = r.effect
         /\ RecoveredRow(r).canary = r.canary
<1>1. CASE r.effect
  BY <1>1 DEF RecoveredRow, Recovers, JobRow
<1>2. CASE ~r.effect
  BY <1>2 DEF RecoveredRow, Recovers, JobRow
<1> QED
  BY <1>1, <1>2

LEMMA EveryRowStep ==
  ASSUME Typed, [RailNext]_railVars, NEW j \in Jobs PROVE RowStep(j)
<1>0. QueueStep /\ QueueTypeOK /\ jobs[j] \in JobRow
  BY RailQueueStep DEF Typed, TypeOK, QueueTypeOK
<1>1. CASE UNCHANGED jobs
  BY <1>1 DEF RowStep
<1>2. CASE RecoverExpiredLeases
  BY <1>0, <1>2, RecoveredRowMoves DEF RecoverExpiredLeases, LeaseLapsed, RowStep
<1>3. ASSUME NEW i \in Jobs, Enqueue(i) PROVE RowStep(j)
  <2>1. CASE i = j
    BY <1>0, <1>3, <2>1 DEF Enqueue, RowStep, AbsentRow, QueueTypeOK
  <2>2. CASE i # j
    BY <1>0, <1>3, <2>2 DEF Enqueue, RowStep, QueueTypeOK
  <2> QED
    BY <2>1, <2>2
<1>4. ASSUME NEW i \in Jobs, LeaseExpires(i) \/ BecomesDue(i) PROVE RowStep(j)
  <2>1. CASE LeaseExpires(i)
    BY <1>0, <2>1 DEF LeaseExpires, RowStep, Waits, QueueTypeOK, JobRow
  <2>2. CASE BecomesDue(i)
    BY <1>0, <2>2 DEF BecomesDue, RowStep, Waits, QueueTypeOK, JobRow
  <2> QED
    BY <1>4, <2>1, <2>2
<1>5. ASSUME NEW i \in Jobs, NEW w \in Workers, NEW early \in BOOLEAN, Claim(i, w, early)
      PROVE  RowStep(j)
  BY <1>0, <1>5 DEF Claim, CanClaim, RowStep, Waits, QueueTypeOK, JobRow
<1>6. ASSUME NEW i \in Jobs, NEW token, NEW skip, NEW due,
             NEW status \in ClaimableStatuses \cup {"INELIGIBLE"},
             Finalize(i, token, status, skip, due)
      PROVE  RowStep(j)
  BY <1>0, <1>6, FinalizedRow DEF RowStep, Closes
<1>7. ASSUME NEW w \in LiveWorkers, FinalizeRun(w) PROVE RowStep(j)
  <2>1. live[w].job \in Jobs
    BY <1>7 DEF FinalizeRun, At, Typed, RunsKnow, LiveKnows
  <2> QED
    BY <1>0, <1>7, <2>1, FinalizedRow DEF FinalizeRun, JobOf, RowStep, Reports
<1>8. ASSUME NEW w \in LiveWorkers, ReserveSlot(w), MarkEffect(JobOf(w), live[w].canary)
      PROVE  RowStep(j)
  <2>1. CASE live[w].job = j
    BY <1>0, <1>8, <2>1 DEF MarkEffect, CanMarkEffect, JobOf, RowStep, Marks, QueueTypeOK
  <2>2. CASE live[w].job # j
    BY <1>0, <1>8, <2>2 DEF MarkEffect, JobOf, RowStep, QueueTypeOK
  <2> QED
    BY <2>1, <2>2
<1> QED
  BY <1>0, <1>1, <1>2, <1>3, <1>4, <1>5, <1>6, <1>7, <1>8 DEF QueueStep

-----------------------------------------------------------------------------
(* How the logs and the world move *)

\* "Send" is clicked by Click, and each ledger is written by one statement.
LEMMA LogStep ==
  ASSUME [RailNext]_railVars
  PROVE  /\ UNCHANGED clicks \/ \E w \in LiveWorkers : Click(w)
         /\ UNCHANGED sent \/ \E w \in LiveWorkers : RecordSent(w)
         /\ UNCHANGED contacted \/ \E w \in LiveWorkers : EnsureContacted(w)
         /\ UNCHANGED journal \/ \E w \in LiveWorkers : RecordOutcome(w)
<1> DEFINE Logs == <<clicks, sent, contacted, journal>>
<1> USE DEF logVars
<1>1. ASSUME NEW w \in LiveWorkers, LiveStep(w)
      PROVE  /\ UNCHANGED clicks \/ Click(w)
             /\ UNCHANGED sent \/ RecordSent(w)
             /\ UNCHANGED contacted \/ EnsureContacted(w)
             /\ UNCHANGED journal \/ RecordOutcome(w)
  <2>1. ASSUME \/ \E j \in Jobs, preview \in Modes : Begin(w, j, preview)
               \/ ResolveTarget(w) \/ TakeLease(w) \/ CheckCanary(w) \/ OpenBrowser(w)
               \/ PageRefuses(w) \/ ReservePermission(w) \/ ComposerRefuses(w)
               \/ EnterHook(w, TRUE) \/ SpendPermission(w) \/ ReserveSlot(w) \/ Judge(w)
               \/ FinalizeRun(w) \/ Raise(w) \/ CloseRun(w) \/ Crash(w)
        PROVE  UNCHANGED Logs
    BY <2>1 DEF Begin, ResolveTarget, TakeLease, CheckCanary, OpenBrowser, PageRefuses,
                ReservePermission, ComposerRefuses, EnterHook, SpendPermission, ReserveSlot,
                Judge, FinalizeRun, Raise, CloseRun, Crash
  <2>2. CASE Click(w) \/ RecordSent(w) \/ EnsureContacted(w) \/ RecordOutcome(w)
    BY <2>2 DEF Click, RecordSent, EnsureContacted, RecordOutcome
  <2> QED
    BY <1>1, <2>1, <2>2 DEF LiveStep, RunStep
<1>2. CASE OperatorStep \/ JobClock \/ CanaryClock \/ PaceClock
  BY <1>2 DEF OperatorStep, EnqueueJob, SupersedeManifest, ArmCanary, RevokeCanary,
              SetKillSwitch, RecoverLeases, JobClock, CanaryClock, PaceClock
<1>3. ASSUME NEW d \in DryWorkers, DryStep(d) PROVE UNCHANGED Logs
  BY <1>3 DEF DryStep, DryStart, DryClaim, DryGates, DryOpen, DryVisit, DryRecord,
              DryFinalize, DryEnd
<1>4. ASSUME NEW o \in Closers, CloserStep(o) PROVE UNCHANGED Logs
  BY <1>4 DEF CloserStep, RetireRead, RetireClaim, RetireCommit, ParkClaim, ParkFinalize,
              CloserCrash
<1>5. CASE UNCHANGED railVars
  BY <1>5 DEF railVars
<1> QED
  BY <1>1, <1>2, <1>3, <1>4, <1>5 DEF RailNext

-----------------------------------------------------------------------------
(* What was true stays true *)

\* The mark and the permission it names are for ever, rows are not deleted,
\* a settled row stays settled.
LEMMA RowsStay ==
  ASSUME Typed, [RailNext]_railVars, NEW j \in Jobs, RowIsHonest(j)
  PROVE  /\ jobs[j].effect => jobs'[j].effect /\ jobs'[j].canary = jobs[j].canary
         /\ jobs[j].status # "ABSENT" => jobs'[j].status # "ABSENT"
         /\ jobs[j].status \in TerminalStatuses => jobs'[j].status = jobs[j].status
         /\ RowAccepted(jobs'[j])
<1>0. RowStep(j) /\ jobs[j] \in JobRow
  BY EveryRowStep DEF Typed, TypeOK, QueueTypeOK
<1> USE DEF RowIsHonest
<1>1. CASE jobs'[j] = jobs[j]
  BY <1>1
<1>2. CASE /\ jobs[j].status = "ABSENT" /\ jobs'[j].status = "PENDING"
           /\ ~jobs'[j].effect /\ jobs'[j].skip = "none"
  BY <1>2 DEF RowAccepted, TerminalStatuses
<1>3. CASE /\ jobs'[j].effect = jobs[j].effect /\ jobs'[j].canary = jobs[j].canary
           /\ Waits(jobs[j], jobs'[j]) \/ Recovers(jobs[j], jobs'[j])
  BY <1>3 DEF Waits, Recovers, RowAccepted, ClaimableStatuses, TerminalStatuses
<1>4. CASE /\ jobs'[j].effect = jobs[j].effect /\ jobs'[j].canary = jobs[j].canary
           /\ Closes(jobs[j], jobs'[j])
  BY <1>4 DEF Closes, ClaimableStatuses, TerminalStatuses
<1>5. ASSUME NEW w \in LiveWorkers, Reports(w, j, jobs'[j]),
             jobs'[j].effect = jobs[j].effect, jobs'[j].canary = jobs[j].canary
      PROVE  /\ jobs[j].status = "CLAIMED" /\ jobs'[j].status # "ABSENT"
             /\ RowAccepted(jobs'[j])
  <2>1. live[w].verdict \in Verdicts
    BY DEF Typed, TypeOK, Run
  <2>2. StatusOf(live[w].verdict) # "ABSENT"
    BY <2>1 DEF StatusOf, Verdicts, EffectOutcomes
  <2> QED
    BY <1>5, <2>2 DEF Reports
<1>6. ASSUME NEW w \in LiveWorkers, Marks(w, j, jobs'[j])
      PROVE  ~jobs[j].effect /\ jobs'[j].status = jobs[j].status /\ RowAccepted(jobs'[j])
  BY <1>0, <1>6 DEF Marks, Marked, JobRow
<1> QED
  BY <1>0, <1>1, <1>2, <1>3, <1>4, <1>5, <1>6 DEF RowStep, TerminalStatuses

\* A click needs the mark, and a run at the button has not clicked yet.
LEMMA ClicksStay ==
  ASSUME Typed, Honest, [RailNext]_railVars, NEW j \in Jobs
  PROVE  /\ clicks'[j] = clicks[j] \/ \E w \in LiveWorkers : Click(w) /\ live[w].job = j
         /\ \A w \in LiveWorkers :
              Click(w) /\ live[w].job = j => /\ clicks[j] = 0 /\ clicks'[j] = 1
                                             /\ jobs[j].effect /\ UNCHANGED jobs
         /\ clicks[j] = 1 => clicks'[j] = 1
<1>1. clicks \in [Jobs -> Nat]
  BY DEF Typed, TypeOK
<1>2. ASSUME NEW w \in LiveWorkers, Click(w)
      PROVE  /\ live[w].job = j => /\ clicks[j] = 0 /\ clicks'[j] = 1
                                   /\ jobs[j].effect /\ UNCHANGED jobs
             /\ live[w].job # j => clicks'[j] = clicks[j]
  <2>1. live[w].pc = "marked" /\ RunIsHonest(w)
    BY <1>2 DEF Click, At, Honest
  <2> QED
    BY <1>1, <1>2, <2>1 DEF Click, JobOf, RunIsHonest, queueVars
<1> QED
  BY <1>2, LogStep

LEMMA LedgersStay ==
  ASSUME Typed, [RailNext]_railVars, NEW j \in Jobs
  PROVE  /\ j \in sent => j \in sent'
         /\ j \in contacted => j \in contacted'
         /\ "SENT" \in journal[j] => "SENT" \in journal'[j]
<1>1. journal \in [Jobs -> SUBSET EffectOutcomes]
  BY DEF Typed, TypeOK
<1>2. ASSUME NEW w \in LiveWorkers, RecordSent(w) PROVE j \in sent => j \in sent'
  BY <1>2 DEF RecordSent
<1>3. ASSUME NEW w \in LiveWorkers, EnsureContacted(w)
      PROVE  j \in contacted => j \in contacted'
  BY <1>3 DEF EnsureContacted
<1>4. ASSUME NEW w \in LiveWorkers, RecordOutcome(w), "SENT" \in journal[j]
      PROVE  "SENT" \in journal'[j]
  BY <1>1, <1>4 DEF RecordOutcome
<1> QED
  BY <1>2, <1>3, <1>4, LogStep

LEMMA LiveStepMovesOne ==
  ASSUME Typed, NEW w \in LiveWorkers, LiveStep(w), NEW v \in LiveWorkers \ {w}
  PROVE  live'[v] = live[v]
<1> USE DEF Goto, FinishWith, Leave
<1>0. live \in [LiveWorkers -> Run]
  BY DEF Typed, TypeOK
<1>1. ASSUME \/ \E j \in Jobs, preview \in Modes : Begin(w, j, preview)
             \/ ResolveTarget(w) \/ TakeLease(w) \/ CheckCanary(w) \/ OpenBrowser(w)
             \/ PageRefuses(w) \/ ReservePermission(w) \/ ComposerRefuses(w)
             \/ EnterHook(w, TRUE) \/ SpendPermission(w)
      PROVE  live'[v] = live[v]
  BY <1>0, <1>1 DEF Begin, ResolveTarget, TakeLease, CheckCanary, OpenBrowser, PageRefuses,
                    ReservePermission, ComposerRefuses, EnterHook, SpendPermission
<1>2. ASSUME \/ ReserveSlot(w) \/ Click(w) \/ Judge(w) \/ RecordSent(w) \/ EnsureContacted(w)
             \/ RecordOutcome(w) \/ FinalizeRun(w) \/ Raise(w) \/ CloseRun(w) \/ Crash(w)
      PROVE  live'[v] = live[v]
  BY <1>0, <1>2 DEF ReserveSlot, Click, Judge, RecordSent, EnsureContacted, RecordOutcome,
                    FinalizeRun, Raise, CloseRun, Crash
<1> QED
  BY <1>1, <1>2 DEF LiveStep, RunStep

\* One process moves at a time.
LEMMA OneRunMoves ==
  ASSUME Typed, [RailNext]_railVars
  PROVE  \/ UNCHANGED live
         \/ \E w \in LiveWorkers : /\ LiveStep(w)
                                   /\ \A v \in LiveWorkers \ {w} : live'[v] = live[v]
  BY LiveStepMovesOne, OperatorLeavesRuns, BesideLeavesRuns DEF RailNext, railVars

-----------------------------------------------------------------------------
(* A run stays honest *)

LEMMA JobOfARun ==
  ASSUME Typed, NEW w \in LiveWorkers
  PROVE  /\ live[w].pc \notin {"idle", "closing"} => live[w].job \in Jobs
         /\ live[w].pc = "consumed" => live[w].canary \in CanaryIds
  BY DEF Typed, RunsKnow, LiveKnows

\* What the others do never makes a run's knowledge false.
LEMMA WaitingRunStaysHonest ==
  ASSUME Typed, Honest, [RailNext]_railVars, NEW w \in LiveWorkers, live'[w] = live[w]
  PROVE  RunIsHonest(w)'
<1> DEFINE r == live[w]
           j == live[w].job
<1>1. RunIsHonest(w) /\ live'[w] = live[w]
  BY DEF Honest
<1>2. CASE r.pc \in {"idle", "closing"}
  BY <1>2 DEF RunIsHonest, OnARow, Reporting
<1>3. CASE r.pc \notin {"idle", "closing"}
  <2>1. j \in Jobs /\ RowIsHonest(j)
    BY <1>3, JobOfARun DEF Honest
  <2>2. /\ jobs[j].effect => jobs'[j].effect
        /\ jobs[j].status # "ABSENT" => jobs'[j].status # "ABSENT"
    BY <2>1, RowsStay
  <2>3. /\ clicks[j] = 1 => clicks'[j] = 1
        /\ j \in sent => j \in sent'
        /\ j \in contacted => j \in contacted'
        /\ "SENT" \in journal[j] => "SENT" \in journal'[j]
    BY <2>1, ClicksStay, LedgersStay
  <2>4. ASSUME r.pc = "consumed"
        PROVE  /\ canaries'[r.canary].state = "CONSUMED"
               /\ canaries'[r.canary].manifest = j
    <3>1. /\ canaries[r.canary].state = "CONSUMED"
          /\ canaries[r.canary].manifest = j
          /\ r.canary \in CanaryIds
      BY <1>1, <2>4, JobOfARun DEF RunIsHonest
    <3> QED
      BY <3>1, OverStaysOver
  <2>5. ASSUME r.pc = "marked" PROVE clicks'[j] = 0
    <3>1. clicks[j] = 0
      BY <1>1, <2>5 DEF RunIsHonest
    <3>2. ASSUME NEW v \in LiveWorkers, Click(v), live[v].job = j PROVE FALSE
      <4>1. live[v].pc = "marked" /\ live'[v].pc = "clicked"
        BY <3>2 DEF Click, At, Goto, Typed, TypeOK, Run
      <4>2. v = w
        BY <2>5, <3>2, <4>1 DEF Honest, OneAtTheButton
      <4> QED
        BY <2>5, <4>1, <4>2
    <3> QED
      BY <2>1, <3>1, <3>2, ClicksStay
  <2> HIDE DEF r, j
  <2>6. live'[w] = r /\ r = live[w] /\ j = r.job
    BY DEF r, j
  <2> QED
    BY <1>1, <2>2, <2>3, <2>4, <2>5, <2>6 DEF RunIsHonest
<1> QED
  BY <1>2, <1>3

\* A run that asks for the lease has it, or is refused.
LEMMA TakeLeaseShape ==
  ASSUME Typed, NEW w \in LiveWorkers, TakeLease(w)
  PROVE  \/ live'[w].pc = "claimed" /\ live'[w].job = live[w].job
         \/ FinishWith(w, "BLOCKED")
<1>0. live \in [LiveWorkers -> Run] /\ live[w] \in Run
  BY DEF Typed, TypeOK
<1>1. ASSUME NEW t, live' = [live EXCEPT ![w].pc = "claimed", ![w].token = t]
      PROVE  live'[w].pc = "claimed" /\ live'[w].job = live[w].job
  <2>1. live'[w] = [live[w] EXCEPT !.pc = "claimed", !.token = t]
    BY <1>0, <1>1
  <2> QED
    BY <1>0, <2>1 DEF Run
<1> QED
  BY <1>1 DEF TakeLease

LEMMA Shapes ==
  ASSUME Typed, NEW w \in LiveWorkers
  PROVE  /\ \A step : Goto(w, step) => /\ live'[w].pc = step
                                       /\ live'[w].job = live[w].job
                                       /\ live'[w].canary = live[w].canary
                                       /\ live'[w].verdict = live[w].verdict
         /\ \A v : FinishWith(w, v) => /\ live'[w].pc = "finishing"
                                       /\ live'[w].job = live[w].job
                                       /\ live'[w].verdict = v
         /\ Leave(w) => live'[w].pc = "closing"
<1>0. live \in [LiveWorkers -> Run] /\ live[w] \in Run
  BY DEF Typed, TypeOK
<1>1. ASSUME NEW step, Goto(w, step)
      PROVE  /\ live'[w].pc = step
             /\ live'[w].job = live[w].job
             /\ live'[w].canary = live[w].canary
             /\ live'[w].verdict = live[w].verdict
  <2>1. live'[w] = [live[w] EXCEPT !.pc = step]
    BY <1>0, <1>1 DEF Goto
  <2> QED
    BY <1>0, <2>1 DEF Run
<1>2. ASSUME NEW v, FinishWith(w, v)
      PROVE  /\ live'[w].pc = "finishing"
             /\ live'[w].job = live[w].job
             /\ live'[w].verdict = v
  <2>1. live'[w] = [live[w] EXCEPT !.pc = "finishing", !.verdict = v]
    BY <1>0, <1>2 DEF FinishWith
  <2> QED
    BY <1>0, <2>1 DEF Run
<1>3. Leave(w) => \/ live'[w] = [NoRun EXCEPT !.pc = "closing"]
                  \/ live'[w] = [live[w] EXCEPT !.pc = "closing", !.preview = FALSE,
                                                !.token = 0, !.verdict = "none"]
  BY <1>0 DEF Leave
<1>4. Leave(w) => live'[w].pc = "closing"
  BY <1>0, <1>3 DEF Run, NoRun
<1> QED
  BY <1>1, <1>2, <1>4

LEMMA MovingRunStaysHonest ==
  ASSUME Typed, Honest, [RailNext]_railVars, NEW w \in LiveWorkers, LiveStep(w)
  PROVE  RunIsHonest(w)'
<1> DEFINE j == live[w].job
<1>0. RunIsHonest(w) /\ live \in [LiveWorkers -> Run] /\ live[w] \in Run
  BY DEF Honest, Typed, TypeOK
<1>a. ASSUME live[w].pc \notin {"idle", "closing"}
      PROVE  /\ j \in Jobs /\ RowIsHonest(j)
             /\ jobs[j].effect => jobs'[j].effect
             /\ jobs[j].status # "ABSENT" => jobs'[j].status # "ABSENT"
             /\ clicks[j] = 1 => clicks'[j] = 1
             /\ j \in sent => j \in sent'
             /\ j \in contacted => j \in contacted'
  <2>1. j \in Jobs /\ RowIsHonest(j)
    BY <1>a, JobOfARun DEF Honest
  <2> QED
    BY <2>1, RowsStay, ClicksStay, LedgersStay
<1> USE DEF At, JobOf, OnARow, Reporting
<1>1. ASSUME live'[w].pc \in {"idle", "swept", "closing"} PROVE RunIsHonest(w)'
  BY <1>1 DEF RunIsHonest
<1>2. ASSUME NEW i \in Jobs, NEW preview \in Modes, Begin(w, i, preview) PROVE RunIsHonest(w)'
  <2>1. live'[w] = [NoRun EXCEPT !.pc = "swept", !.job = i, !.preview = preview]
    BY <1>0, <1>2 DEF Begin
  <2> QED
    BY <1>1, <2>1 DEF NoRun
<1>3. CASE FinalizeRun(w) \/ Raise(w)
  BY <1>1, <1>3, Shapes DEF FinalizeRun, Raise
<1>4. CASE CloseRun(w) \/ Crash(w)
  <2>1. live'[w] = NoRun
    BY <1>0, <1>4 DEF CloseRun, Crash
  <2> QED
    BY <1>1, <2>1 DEF NoRun
\* A refusal says nothing that could be false.
<1>5. ASSUME FinishWith(w, "BLOCKED") \/ FinishWith(w, "FAILED") PROVE RunIsHonest(w)'
  <2>1. live'[w].pc = "finishing" /\ live'[w].verdict \in {"BLOCKED", "FAILED"}
    BY <1>5, Shapes
  <2> QED
    BY <2>1 DEF RunIsHonest
\* On the way to the permission, the run still knows its job is a row.
<1>6. ASSUME live[w].pc \in OnARow \/ jobs[j].status # "ABSENT",
             live[w].pc \notin {"idle", "closing"},
             live'[w].pc \in OnARow \ {"consumed"}, live'[w].job = j
      PROVE  RunIsHonest(w)'
  BY <1>0, <1>6, <1>a DEF RunIsHonest
<1>7. CASE ResolveTarget(w)
  BY <1>1, <1>5, <1>6, <1>7, Shapes DEF ResolveTarget
<1>8. CASE TakeLease(w)
  <2>1. \/ live'[w].pc = "claimed" /\ live'[w].job = j
        \/ FinishWith(w, "BLOCKED")
    BY <1>8, TakeLeaseShape
  <2> QED
    BY <1>5, <1>6, <1>8, <2>1 DEF TakeLease
<1>9. CASE CheckCanary(w)
  <2>1. \/ live'[w].pc = "checked" /\ live'[w].job = j
        \/ FinishWith(w, "BLOCKED")
    BY <1>0, <1>9 DEF CheckCanary, Run
  <2> QED
    BY <1>5, <1>6, <1>9, <2>1 DEF CheckCanary
<1>10. CASE OpenBrowser(w) \/ EnterHook(w, TRUE)
  BY <1>5, <1>6, <1>10, Shapes DEF OpenBrowser, EnterHook
<1>11. CASE PageRefuses(w) \/ ComposerRefuses(w)
  BY <1>5, <1>11 DEF PageRefuses, ComposerRefuses
<1>12. CASE ReservePermission(w)
  <2>1. \/ live'[w].pc = "reserved" /\ live'[w].job = j
        \/ FinishWith(w, "BLOCKED")
    BY <1>0, <1>12 DEF ReservePermission, Run
  <2> QED
    BY <1>5, <1>6, <1>12, <2>1 DEF ReservePermission
<1>13. CASE SpendPermission(w)
  <2>1. CASE FinishWith(w, "FAILED")
    BY <1>5, <2>1
  <2>2. CASE /\ Consume(live[w].canary, j, w)
             /\ live' = [live EXCEPT ![w].pc = "consumed", ![w].held = FALSE]
    <3>1. live'[w].pc = "consumed" /\ live'[w].job = j /\ live'[w].canary = live[w].canary
      BY <1>0, <2>2 DEF Run
    <3>2. live[w].canary \in CanaryIds /\ canaries \in [CanaryIds -> Canary]
      BY <1>13 DEF SpendPermission, Typed, TypeOK, CanaryTypeOK, RunsKnow, LiveKnows
    <3>3. /\ canaries'[live[w].canary].state = "CONSUMED"
          /\ canaries'[live[w].canary].manifest = j
      BY <2>2, <3>2 DEF Consume, CanConsume, HoldsReservation, Canary
    <3>4. jobs'[j].status # "ABSENT"
      BY <1>0, <1>13, <1>a DEF SpendPermission, RunIsHonest
    <3> QED
      BY <3>1, <3>3, <3>4 DEF RunIsHonest
  <2> QED
    BY <1>13, <2>1, <2>2 DEF SpendPermission
<1>14. CASE ReserveSlot(w)
  <2>1. CASE FinishWith(w, "FAILED")
    BY <1>5, <2>1
  <2>2. CASE /\ MarkEffect(j, live[w].canary)
             /\ live' = [live EXCEPT ![w].pc = "marked", ![w].effect = TRUE]
    <3>1. live'[w].pc = "marked" /\ live'[w].job = j
      BY <1>0, <2>2 DEF Run
    <3>2. j \in Jobs /\ RowIsHonest(j) /\ jobs \in [Jobs -> JobRow]
      BY <1>14, <1>a DEF ReserveSlot, Typed, TypeOK, QueueTypeOK
    <3>3. ~jobs[j].effect /\ jobs'[j].effect
      BY <2>2, <3>2 DEF MarkEffect, CanMarkEffect, Marked, JobRow
    <3>4. clicks'[j] = 0
      BY <1>14, <3>2, <3>3 DEF RowIsHonest, ReserveSlot
    <3> QED
      BY <3>1, <3>3, <3>4 DEF RunIsHonest
  <2> QED
    BY <1>14, <2>1, <2>2 DEF ReserveSlot
<1>15. CASE Click(w)
  <2>1. live'[w].pc = "clicked" /\ live'[w].job = j /\ j \in Jobs
    BY <1>15, <1>a, Shapes DEF Click
  <2>2. clicks'[j] = 1
    BY <1>15, <2>1, ClicksStay
  <2> QED
    BY <2>1, <2>2 DEF RunIsHonest
<1>16. CASE Judge(w)
  <2>1. live'[w].job = j /\ live[w].pc \in {"clicked", "marked"}
    BY <1>16, Shapes DEF Judge
  <2>2. CASE live[w].pc = "clicked"
    <3>1. clicks'[j] = 1 /\ jobs'[j].effect
      <4>1. clicks[j] = 1 /\ jobs[j].effect
        BY <1>0, <2>2, <1>a DEF RunIsHonest, RowIsHonest
      <4> QED
        BY <2>2, <4>1, <1>a
    <3>2. \/ live'[w].pc = "proved"
          \/ /\ live'[w].pc = "finishing"
             /\ live'[w].verdict \in {"AMBIGUOUS", "DELIVERY_FAILED"}
      BY <1>16, <2>2, Shapes DEF Judge
    <3> QED
      BY <2>1, <3>1, <3>2 DEF RunIsHonest
  <2>3. CASE live[w].pc = "marked"
    <3>1. jobs'[j].effect
      BY <1>0, <2>3, <1>a DEF RunIsHonest
    <3>2. live'[w].pc = "finishing" /\ live'[w].verdict = "AMBIGUOUS"
      BY <1>16, <2>3, Shapes DEF Judge
    <3> QED
      BY <2>1, <3>1, <3>2 DEF RunIsHonest
  <2> QED
    BY <2>1, <2>2, <2>3
<1>17. CASE RecordSent(w)
  <2>1. \/ live'[w].pc = "closing"
        \/ live'[w].pc = "recorded" /\ live'[w].job = j /\ j \in sent'
    BY <1>17, Shapes DEF RecordSent
  <2> QED
    BY <1>1, <2>1 DEF RunIsHonest
<1>18. CASE EnsureContacted(w)
  <2>1. /\ live'[w].pc = "finishing" /\ live'[w].verdict = "SENT"
        /\ live'[w].job = j /\ j \in contacted'
    BY <1>18, Shapes DEF EnsureContacted
  <2> QED
    BY <2>1 DEF RunIsHonest
<1>19. CASE RecordOutcome(w)
  <2>1. /\ live[w].pc = "finishing" /\ live'[w].pc = "finalizing"
        /\ live'[w].job = j /\ live'[w].verdict = live[w].verdict
    BY <1>19, Shapes DEF RecordOutcome
  <2>2. live[w].verdict = "SENT" => "SENT" \in journal'[j]
    <3>1. j \in Jobs /\ journal \in [Jobs -> SUBSET EffectOutcomes]
      BY <2>1, <1>a DEF Typed, TypeOK
    <3> QED
      BY <1>19, <3>1 DEF RecordOutcome, EffectOutcomes
  <2> QED
    BY <1>0, <1>a, <2>1, <2>2 DEF RunIsHonest
<1> QED
  BY <1>2, <1>3, <1>4, <1>7, <1>8, <1>9, <1>10, <1>11, <1>12, <1>13, <1>14, <1>15, <1>16,
     <1>17, <1>18, <1>19 DEF LiveStep, RunStep

-----------------------------------------------------------------------------
(* The rows, the button and the ledgers *)

\* The live run that writes a final status has earned it.
LEMMA ReportIsEarned ==
  ASSUME Typed, Honest, NEW w \in LiveWorkers, NEW j \in Jobs, NEW t, Reports(w, j, t)
  PROVE  /\ t.status = "SENT" => "SENT" \in journal[j]
         /\ t.status = "DELIVERY_FAILED" => clicks[j] = 1
         /\ t.status = "REVIEW_REQUIRED" => jobs[j].effect
         /\ t.status \notin {"ABSENT", "INELIGIBLE"}
<1>1. live[w].pc = "finalizing" /\ live[w].job = j /\ RunIsHonest(w)
  BY DEF Reports, FinalizeRun, At, Honest
<1>2. live[w].verdict \in Verdicts /\ t.status = StatusOf(live[w].verdict)
  BY DEF Reports, Typed, TypeOK, Run
<1> QED
  BY <1>1, <1>2 DEF StatusOf, Verdicts, EffectOutcomes, RunIsHonest, Reporting

LEMMA RowStaysHonest ==
  ASSUME Typed, Honest, [RailNext]_railVars, NEW j \in Jobs
  PROVE  RowIsHonest(j)'
<1>0. /\ RowIsHonest(j) /\ RowStep(j)
      /\ jobs[j] \in JobRow /\ clicks[j] \in Nat
  BY EveryRowStep DEF Honest, Typed, TypeOK, QueueTypeOK
<1>1. /\ jobs[j].effect => jobs'[j].effect /\ jobs'[j].canary = jobs[j].canary
      /\ RowAccepted(jobs'[j])
  BY <1>0, RowsStay
<1>2. jobs'[j].status = "ABSENT" => ~jobs'[j].effect
  <2>1. ASSUME NEW w \in LiveWorkers, Marks(w, j, jobs'[j]) PROVE jobs'[j].status # "ABSENT"
    <3>1. live[w].pc = "consumed" /\ live[w].job = j /\ RunIsHonest(w)
      BY <2>1 DEF Marks, ReserveSlot, At, Honest
    <3>2. jobs[j].status # "ABSENT"
      BY <3>1 DEF RunIsHonest, OnARow
    <3> QED
      BY <1>0, <2>1, <3>2 DEF Marks, Marked, JobRow
  <2>2. ASSUME NEW w \in LiveWorkers, Reports(w, j, jobs'[j]) PROVE jobs'[j].status # "ABSENT"
    BY <2>2, ReportIsEarned
  <2> QED
    BY <1>0, <2>1, <2>2 DEF RowStep, RowIsHonest, Waits, Recovers, Closes, ClaimableStatuses
<1>3. jobs'[j].effect => /\ jobs'[j].canary \in CanaryIds
                         /\ canaries'[jobs'[j].canary].state = "CONSUMED"
                         /\ canaries'[jobs'[j].canary].manifest = j
  <2>1. ASSUME NEW w \in LiveWorkers, Marks(w, j, jobs'[j])
        PROVE  /\ jobs'[j].canary \in CanaryIds
               /\ canaries'[jobs'[j].canary].state = "CONSUMED"
               /\ canaries'[jobs'[j].canary].manifest = j
    <3>1. live[w].pc = "consumed" /\ live[w].job = j /\ RunIsHonest(w)
      BY <2>1 DEF Marks, ReserveSlot, At, Honest
    <3>2. /\ live[w].canary \in CanaryIds
          /\ canaries[live[w].canary].state = "CONSUMED"
          /\ canaries[live[w].canary].manifest = j
      BY <3>1, JobOfARun DEF RunIsHonest
    <3>3. jobs'[j].canary = live[w].canary
      BY <1>0, <2>1 DEF Marks, Marked, JobRow
    <3> QED
      BY <3>2, <3>3, OverStaysOver
  <2>2. ASSUME jobs[j].effect
        PROVE  /\ jobs'[j].canary \in CanaryIds
               /\ canaries'[jobs'[j].canary].state = "CONSUMED"
               /\ canaries'[jobs'[j].canary].manifest = j
    <3>1. /\ jobs[j].canary \in CanaryIds
          /\ canaries[jobs[j].canary].state = "CONSUMED"
          /\ canaries[jobs[j].canary].manifest = j
      BY <1>0, <2>2 DEF RowIsHonest
    <3> QED
      BY <1>1, <2>2, <3>1, OverStaysOver
  <2> QED
    BY <1>0, <2>1, <2>2 DEF RowStep
<1>4. clicks'[j] \in 0..1 /\ (clicks'[j] = 1 => jobs'[j].effect)
  BY <1>0, <1>1, ClicksStay DEF RowIsHonest
<1>5. jobs'[j].status = "REVIEW_REQUIRED" => jobs'[j].effect
  <2>1. ASSUME NEW w \in LiveWorkers, Marks(w, j, jobs'[j]) PROVE jobs'[j].effect
    BY <1>0, <2>1 DEF Marks, Marked, JobRow
  <2>2. ASSUME NEW w \in LiveWorkers, Reports(w, j, jobs'[j]), jobs'[j].status = "REVIEW_REQUIRED"
        PROVE  jobs[j].effect
    BY <2>2, ReportIsEarned
  <2> QED
    BY <1>0, <1>1, <2>1, <2>2 DEF RowStep, RowIsHonest, Waits, Recovers, Closes, ClaimableStatuses
<1>6. jobs'[j].status = "DELIVERY_FAILED" => clicks'[j] = 1
  <2>1. ASSUME NEW w \in LiveWorkers, Marks(w, j, jobs'[j])
        PROVE  jobs'[j].status = jobs[j].status
    BY <1>0, <2>1 DEF Marks, Marked, JobRow
  <2>2. ASSUME NEW w \in LiveWorkers, Reports(w, j, jobs'[j]), jobs'[j].status = "DELIVERY_FAILED"
        PROVE  clicks[j] = 1
    BY <2>2, ReportIsEarned
  <2>3. jobs'[j].status = "DELIVERY_FAILED" => clicks[j] = 1
    BY <1>0, <2>1, <2>2 DEF RowStep, RowIsHonest, Waits, Recovers, Closes, ClaimableStatuses
  <2> QED
    BY <2>3, ClicksStay
<1> QED
  BY <1>1, <1>2, <1>3, <1>4, <1>5, <1>6 DEF RowIsHonest

\* A run only comes to the button by setting the mark.
LEMMA ToTheButton ==
  ASSUME Typed, NEW w \in LiveWorkers, LiveStep(w), live'[w].pc = "marked"
  PROVE  live'[w].job = live[w].job /\ ~jobs[live[w].job].effect
<1>0. live \in [LiveWorkers -> Run] /\ live[w] \in Run
  BY DEF Typed, TypeOK
<1>1. CASE ReserveSlot(w)
  <2>1. SlotOpen(w) /\ live' = [live EXCEPT ![w].pc = "marked", ![w].effect = TRUE]
    BY <1>1, Shapes DEF ReserveSlot
  <2> QED
    BY <1>0, <2>1 DEF SlotOpen, CanMarkEffect, JobOf, Run
<1>2. ASSUME \/ \E j \in Jobs, preview \in Modes : Begin(w, j, preview)
             \/ TakeLease(w) \/ CheckCanary(w) \/ ReservePermission(w) \/ SpendPermission(w)
             \/ CloseRun(w) \/ Crash(w)
      PROVE  live'[w].pc # "marked"
  <2>1. ASSUME FinishWith(w, "BLOCKED") \/ FinishWith(w, "FAILED") PROVE live'[w].pc # "marked"
    BY <2>1, Shapes
  <2>2. ASSUME NEW j, NEW preview, Begin(w, j, preview) PROVE live'[w].pc = "swept"
    BY <1>0, <2>2 DEF Begin, NoRun
  <2>3. CASE CloseRun(w) \/ Crash(w)
    <3>1. live'[w] = NoRun
      BY <1>0, <2>3 DEF CloseRun, Crash
    <3> QED
      BY <3>1 DEF NoRun
  <2>4. CASE TakeLease(w)
    BY <2>1, <2>4, TakeLeaseShape
  <2>5. CASE CheckCanary(w)
    BY <1>0, <2>1, <2>5 DEF CheckCanary, Run
  <2>6. CASE ReservePermission(w)
    BY <1>0, <2>1, <2>6 DEF ReservePermission, Run
  <2>7. CASE SpendPermission(w)
    BY <1>0, <2>1, <2>7 DEF SpendPermission, Run
  <2> QED
    BY <1>2, <2>2, <2>3, <2>4, <2>5, <2>6, <2>7
<1>3. ASSUME \/ ResolveTarget(w) \/ OpenBrowser(w) \/ PageRefuses(w) \/ ComposerRefuses(w)
             \/ EnterHook(w, TRUE) \/ Click(w) \/ Judge(w) \/ RecordSent(w)
             \/ EnsureContacted(w) \/ RecordOutcome(w) \/ FinalizeRun(w) \/ Raise(w)
      PROVE  live'[w].pc # "marked"
  BY <1>3, Shapes DEF ResolveTarget, OpenBrowser, PageRefuses, ComposerRefuses, EnterHook, Click,
                      Judge, RecordSent, EnsureContacted, RecordOutcome, FinalizeRun, Raise
<1> QED
  BY <1>1, <1>2, <1>3 DEF LiveStep, RunStep

LEMMA OneStaysAtTheButton ==
  ASSUME Typed, Honest, [RailNext]_railVars PROVE OneAtTheButton'
<1> SUFFICES ASSUME NEW v \in LiveWorkers, NEW w \in LiveWorkers,
                    live'[v].pc = "marked", live'[w].pc = "marked",
                    live'[v].job = live'[w].job, v # w
             PROVE  FALSE
  BY DEF OneAtTheButton
<1>1. ASSUME NEW x \in LiveWorkers, LiveStep(x), live'[x].pc = "marked",
             NEW y \in LiveWorkers, live'[y] = live[y], live'[y].pc = "marked",
             live'[x].job = live'[y].job
      PROVE  FALSE
  <2>1. ~jobs[live[y].job].effect
    BY <1>1, ToTheButton
  <2>2. jobs[live[y].job].effect
    BY <1>1 DEF Honest, RunIsHonest
  <2> QED
    BY <2>1, <2>2
<1>2. CASE live'[v] = live[v] /\ live'[w] = live[w]
  BY <1>2 DEF Honest, OneAtTheButton
<1>3. CASE LiveStep(v) /\ live'[w] = live[w]
  BY <1>1, <1>3
<1>4. CASE LiveStep(w) /\ live'[v] = live[v]
  BY <1>1, <1>4
<1> QED
  BY <1>2, <1>3, <1>4, OneRunMoves

LEMMA LedgersStayInStep ==
  ASSUME Typed, Honest, [RailNext]_railVars PROVE LedgersAgree'
<1> SUFFICES ASSUME NEW j \in Jobs
             PROVE  /\ jobs'[j].status = "SENT" => "SENT" \in journal'[j]
                    /\ "SENT" \in journal'[j] => j \in contacted'
                    /\ j \in contacted' => j \in sent'
                    /\ j \in sent' => clicks'[j] = 1
  BY DEF LedgersAgree
<1>0. /\ RowStep(j) /\ jobs[j] \in JobRow
      /\ jobs[j].status = "SENT" => "SENT" \in journal[j]
      /\ "SENT" \in journal[j] => j \in contacted
      /\ j \in contacted => j \in sent
      /\ j \in sent => clicks[j] = 1
  BY EveryRowStep DEF Honest, LedgersAgree, Typed, TypeOK, QueueTypeOK
<1>1. jobs'[j].status = "SENT" => "SENT" \in journal[j]
  <2>1. ASSUME NEW w \in LiveWorkers, Marks(w, j, jobs'[j])
        PROVE  jobs'[j].status = jobs[j].status
    BY <1>0, <2>1 DEF Marks, Marked, JobRow
  <2>2. ASSUME NEW w \in LiveWorkers, Reports(w, j, jobs'[j]), jobs'[j].status = "SENT"
        PROVE  "SENT" \in journal[j]
    BY <2>2, ReportIsEarned
  <2> QED
    BY <1>0, <2>1, <2>2 DEF RowStep, Waits, Recovers, Closes, ClaimableStatuses
<1>2. "SENT" \in journal'[j] => j \in contacted
  <2>1. ASSUME NEW w \in LiveWorkers, RecordOutcome(w), "SENT" \in journal'[j]
        PROVE  j \in contacted
    <3>1. live[w].pc = "finishing" /\ RunIsHonest(w) /\ journal \in [Jobs -> SUBSET EffectOutcomes]
      BY <2>1 DEF RecordOutcome, At, Honest, Typed, TypeOK
    <3>2. "SENT" \in journal[j] \/ (live[w].job = j /\ live[w].verdict = "SENT")
      BY <2>1, <3>1 DEF RecordOutcome, JobOf
    <3> QED
      BY <1>0, <3>1, <3>2 DEF RunIsHonest, Reporting
  <2> QED
    BY <1>0, <2>1, LogStep
<1>3. j \in contacted' => j \in sent
  <2>1. ASSUME NEW w \in LiveWorkers, EnsureContacted(w), j \in contacted' PROVE j \in sent
    <3>1. live[w].pc = "recorded" /\ RunIsHonest(w)
      BY <2>1 DEF EnsureContacted, At, Honest
    <3> QED
      BY <1>0, <2>1, <3>1 DEF EnsureContacted, JobOf, RunIsHonest
  <2> QED
    BY <1>0, <2>1, LogStep
<1>4. j \in sent' => clicks[j] = 1
  <2>1. ASSUME NEW w \in LiveWorkers, RecordSent(w), j \in sent' PROVE clicks[j] = 1
    <3>1. live[w].pc = "proved" /\ RunIsHonest(w)
      BY <2>1 DEF RecordSent, At, Honest
    <3> QED
      BY <1>0, <2>1, <3>1 DEF RecordSent, JobOf, RunIsHonest
  <2> QED
    BY <1>0, <2>1, LogStep
<1> QED
  BY <1>1, <1>2, <1>3, <1>4, LedgersStay, ClicksStay

-----------------------------------------------------------------------------
LEMMA HonestInit == RailInit => Honest
<1> SUFFICES ASSUME RailInit PROVE Honest
  OBVIOUS
<1> USE DEF RailInit, LiveInit
<1>1. ASSUME NEW j \in Jobs PROVE RowIsHonest(j)
  BY <1>1 DEF QueueInit, AbsentRow, RowIsHonest, RowAccepted
<1>2. ASSUME NEW w \in LiveWorkers PROVE RunIsHonest(w)
  BY <1>2 DEF RunIsHonest, NoRun, OnARow, Reporting
<1>3. OneAtTheButton
  BY DEF OneAtTheButton, NoRun
<1>4. LedgersAgree
  BY DEF LedgersAgree, QueueInit, AbsentRow
<1> QED
  BY <1>1, <1>2, <1>3, <1>4 DEF Honest

LEMMA HonestKept == Typed /\ Honest /\ [RailNext]_railVars => Honest'
<1> SUFFICES ASSUME Typed, Honest, [RailNext]_railVars PROVE Honest'
  OBVIOUS
<1>1. ASSUME NEW w \in LiveWorkers PROVE RunIsHonest(w)'
  BY OneRunMoves, WaitingRunStaysHonest, MovingRunStaysHonest
<1> QED
  BY <1>1, RowStaysHonest, OneStaysAtTheButton, LedgersStayInStep DEF Honest

\* Every reachable state of the rail is honest.
THEOREM HonestTheorem == RailSpec => []Honest
<1> QED
  BY TypedTheorem, HonestInit, HonestKept, PTL DEF RailSpec

\* Whatever leases expire, whichever processes die, stall or race, "send" is
\* clicked at most once for a manifest.
THEOREM ClickedAtMostOnceTheorem == RailSpec => []ClickedAtMostOnce
<1>1. Honest => ClickedAtMostOnce
  BY DEF Honest, RowIsHonest, ClickedAtMostOnce
<1> QED
  BY <1>1, HonestTheorem, PTL

\* No click without a permission for this very manifest, already spent, named
\* by the mark that was on the row before.
THEOREM ClickIsAuthorizedTheorem == RailSpec => []ClickIsAuthorized
<1>1. Honest => ClickIsAuthorized
  BY DEF Honest, RowIsHonest, ClickIsAuthorized
<1> QED
  BY <1>1, HonestTheorem, PTL

\* The job, its journal, the prospect's state and the outreach ledger never
\* say more than what happened.
THEOREM LedgersAgreeTheorem == RailSpec => []LedgersAgree
<1>1. Honest => LedgersAgree
  BY DEF Honest
<1> QED
  BY <1>1, HonestTheorem, PTL

-----------------------------------------------------------------------------
(* The rail implements SendOnce: forget the workers, the leases, the       *)
(* permissions and the clocks, keep of every job whether a contact was     *)
(* announced, how often it was made and how it was settled, and every step *)
(* of the rail is, for every job, a step of the promise or none.           *)

\* What a settled row says is true, and was not said of anything else.
LEMMA OutcomeIsTrue ==
  ASSUME Honest, NEW j \in Jobs
  PROVE  /\ jobs[j].status \in {"SENT", "DELIVERY_FAILED"} => clicks[j] = 1 /\ jobs[j].effect
         /\ jobs[j].status = "REVIEW_REQUIRED" => jobs[j].effect
         /\ jobs[j].status = "INELIGIBLE" => ~jobs[j].effect
  BY DEF Honest, LedgersAgree, RowIsHonest, RowAccepted

LEMMA StoryUpdates ==
  ASSUME NEW a, NEW b, NEW c
  PROVE  /\ \A x : [[announced |-> a, contacts |-> b, outcome |-> c] EXCEPT !.announced = x]
                  = [announced |-> x, contacts |-> b, outcome |-> c]
         /\ \A x : [[announced |-> a, contacts |-> b, outcome |-> c] EXCEPT !.contacts = x]
                  = [announced |-> a, contacts |-> x, outcome |-> c]
  OBVIOUS

\* One job's story moves as SendOnce lets it, whoever takes the step.
LEMMA StoryStep ==
  ASSUME Typed, Honest, Honest', [RailNext]_railVars, NEW j \in Jobs
  PROVE  \/ StoryOf(j)' = StoryOf(j)
         \/ Promise!Announce(StoryOf(j), StoryOf(j)')
         \/ Promise!Contact(StoryOf(j), StoryOf(j)')
         \/ Promise!Settle(StoryOf(j), StoryOf(j)')
<1>0. /\ RowStep(j) /\ RowIsHonest(j)
      /\ jobs[j] \in JobRow /\ jobs'[j] \in JobRow
  BY EveryRowStep, TypedKept DEF Honest, Typed, TypeOK, QueueTypeOK
<1>1. ASSUME NEW w \in LiveWorkers, Click(w), live[w].job = j
      PROVE  Promise!Contact(StoryOf(j), StoryOf(j)')
  <2>1. clicks[j] = 0 /\ clicks'[j] = 1 /\ jobs[j].effect /\ UNCHANGED jobs
    BY <1>1, ClicksStay
  <2> DEFINE o == IF jobs[j].status \in TerminalStatuses THEN jobs[j].status ELSE "none"
  <2>2. StoryOf(j) = [announced |-> jobs[j].effect, contacts |-> 0, outcome |-> o]
    BY <2>1 DEF StoryOf
  <2>3. StoryOf(j)' = [announced |-> jobs[j].effect, contacts |-> 1, outcome |-> o]
    BY <2>1 DEF StoryOf
  <2> HIDE DEF o
  <2>4. StoryOf(j)' = [StoryOf(j) EXCEPT !.contacts = 1]
    BY <2>2, <2>3, StoryUpdates
  <2>5. StoryOf(j).announced /\ StoryOf(j).contacts = 0
    BY <2>1, <2>2
  <2> QED
    BY <2>4, <2>5 DEF Promise!Contact
<1>2. ASSUME clicks'[j] = clicks[j], NEW w \in LiveWorkers, Marks(w, j, jobs'[j])
      PROVE  Promise!Announce(StoryOf(j), StoryOf(j)')
  <2>1. /\ ~jobs[j].effect /\ jobs'[j].effect
        /\ jobs'[j].status = jobs[j].status /\ RowAccepted(jobs'[j])
    BY <1>0, <1>2 DEF Marks, Marked, JobRow
  <2>2. jobs[j].status \notin TerminalStatuses
    BY <2>1, OutcomeIsTrue DEF TerminalStatuses, RowAccepted
  <2>3. jobs'[j].effect = TRUE
    BY <1>0, <2>1 DEF JobRow
  <2> DEFINE a == jobs[j].effect
             b == clicks[j]
  <2>4. StoryOf(j) = [announced |-> a, contacts |-> b, outcome |-> "none"]
    BY <2>2 DEF StoryOf
  <2>5. StoryOf(j)' = [announced |-> TRUE, contacts |-> b, outcome |-> "none"]
    BY <1>2, <2>1, <2>2, <2>3 DEF StoryOf
  <2>6. ~StoryOf(j).announced /\ StoryOf(j).outcome = "none"
    BY <2>1, <2>4
  <2> HIDE DEF a, b
  <2>7. StoryOf(j)' = [StoryOf(j) EXCEPT !.announced = TRUE]
    <3>1. \A x : [[announced |-> a, contacts |-> b, outcome |-> "none"] EXCEPT !.announced = x]
                 = [announced |-> x, contacts |-> b, outcome |-> "none"]
      BY StoryUpdates
    <3> QED
      BY <2>4, <2>5, <3>1, Zenon
  <2> QED
    BY <2>6, <2>7 DEF Promise!Announce
<1>3. ASSUME clicks'[j] = clicks[j], jobs'[j].effect = jobs[j].effect
      PROVE  StoryOf(j)' = StoryOf(j) \/ Promise!Settle(StoryOf(j), StoryOf(j)')
  <2>1. CASE jobs[j].status \in TerminalStatuses
    <3>1. jobs'[j].status = jobs[j].status
      BY <1>0, <2>1, RowsStay
    <3> QED
      BY <1>3, <3>1 DEF StoryOf
  <2>2. CASE jobs[j].status \notin TerminalStatuses /\ jobs'[j].status \notin TerminalStatuses
    BY <1>3, <2>2 DEF StoryOf
  <2>3. CASE jobs[j].status \notin TerminalStatuses /\ jobs'[j].status \in TerminalStatuses
    <3> DEFINE o == jobs'[j].status
    <3>1. /\ o \in {"SENT", "DELIVERY_FAILED"} => clicks[j] = 1
          /\ o = "REVIEW_REQUIRED" => jobs[j].effect
          /\ o = "INELIGIBLE" => ~jobs[j].effect
      BY <1>3 DEF Honest, LedgersAgree, RowIsHonest, RowAccepted
    <3>2. o \in {"SENT", "DELIVERY_FAILED", "REVIEW_REQUIRED", "INELIGIBLE"}
      BY <2>3 DEF TerminalStatuses
    <3>3. Promise!Settles(StoryOf(j), o) /\ o \in Promise!Outcomes
      BY <3>1, <3>2 DEF Promise!Settles, Promise!Outcomes, StoryOf
    <3>4. StoryOf(j).outcome = "none" /\ StoryOf(j)' = [StoryOf(j) EXCEPT !.outcome = o]
      BY <1>3, <2>3 DEF StoryOf
    <3> QED
      BY <3>3, <3>4 DEF Promise!Settle
  <2> QED
    BY <2>1, <2>2, <2>3
<1>4. \/ \E w \in LiveWorkers : Marks(w, j, jobs'[j])
      \/ jobs'[j].effect = jobs[j].effect
  BY <1>0 DEF RowStep, RowIsHonest, JobRow
<1> QED
  BY <1>1, <1>2, <1>3, <1>4, ClicksStay

\* The rail keeps the promise: a contact is announced before it is made and
\* made at most once, and an intent is settled once, by an outcome that is
\* true of it.
THEOREM KeepsItsPromiseTheorem == RailSpec => KeepsItsPromise
<1>1. RailInit => Promise!Init
  BY DEF RailInit, LiveInit, QueueInit, AbsentRow, StoryOf, TerminalStatuses, Promise!Init,
         Promise!Untold
<1>2. Typed /\ Honest /\ [RailNext]_railVars => Promise!Next
  <2> SUFFICES ASSUME Typed, Honest, [RailNext]_railVars, NEW j \in Jobs
               PROVE  \/ StoryOf(j)' = StoryOf(j)
                      \/ Promise!Announce(StoryOf(j), StoryOf(j)')
                      \/ Promise!Contact(StoryOf(j), StoryOf(j)')
                      \/ Promise!Settle(StoryOf(j), StoryOf(j)')
    BY DEF Promise!Next
  <2> QED
    BY StoryStep, HonestKept
<1> QED
  BY <1>1, <1>2, TypedTheorem, HonestTheorem, PTL DEF RailSpec, KeepsItsPromise, Promise!Spec

-----------------------------------------------------------------------------
(* What a run that is over keeps *)

\* The steps at which a run may hold a reservation, and those at which it has
\* attempted nothing.
Holding     == {"reserved", "cleared", "finishing", "finalizing", "closing"}
Unattempted == {"idle", "swept", "resolved", "claimed", "checked", "opened",
                "reserved", "cleared", "consumed"}

Pockets(r) == /\ r.held => r.pc \in Holding
              /\ r.pc \in Unattempted => ~r.effect

ReservedBy(c, w) == canaries[c].state = "RESERVED" /\ canaries[c].by = w

\* Of a permission the table says is reserved by it, a run knows all that its
\* `finally` needs to give it back.
Remembers(r, c) == r.held /\ ~r.effect /\ r.canary = c /\ r.job = canaries[c].manifest

\* What a step leaves in the hands of a run.
Carries(r, s) == s.held = r.held /\ s.effect = r.effect /\ s.canary = r.canary /\ s.job = r.job

NothingForgotten ==
    \A w \in LiveWorkers :
        /\ Pockets(live[w])
        /\ browser = w => ~At(w, "idle")
        /\ \A c \in CanaryIds : ReservedBy(c, w) => Remembers(live[w], c)

LEMMA ShapesOfEffect ==
  ASSUME Typed, NEW w \in LiveWorkers
  PROVE  /\ \A step : Goto(w, step) => Carries(live[w], live'[w]) /\ live'[w].pc = step
         /\ \A v : FinishWith(w, v) => Carries(live[w], live'[w]) /\ live'[w].pc = "finishing"
         /\ Leave(w) => /\ live'[w].pc = "closing"
                        /\ \/ Carries(live[w], live'[w]) /\ ~live[w].effect
                           \/ ~live'[w].held /\ ~(live[w].held /\ ~live[w].effect)
<1>0. live \in [LiveWorkers -> Run] /\ live[w] \in Run
  BY DEF Typed, TypeOK
<1>1. ASSUME NEW step, Goto(w, step) PROVE Carries(live[w], live'[w]) /\ live'[w].pc = step
  <2>1. live'[w] = [live[w] EXCEPT !.pc = step]
    BY <1>0, <1>1 DEF Goto
  <2> QED
    BY <1>0, <2>1 DEF Run, Carries
<1>2. ASSUME NEW v, FinishWith(w, v) PROVE Carries(live[w], live'[w]) /\ live'[w].pc = "finishing"
  <2>1. live'[w] = [live[w] EXCEPT !.pc = "finishing", !.verdict = v]
    BY <1>0, <1>2 DEF FinishWith
  <2> QED
    BY <1>0, <2>1 DEF Run, Carries
<1>3. ASSUME Leave(w), live[w].held /\ ~live[w].effect
      PROVE  Carries(live[w], live'[w]) /\ live'[w].pc = "closing"
  <2>1. live'[w] = [live[w] EXCEPT !.pc = "closing", !.preview = FALSE, !.token = 0, !.verdict = "none"]
    BY <1>0, <1>3 DEF Leave
  <2> QED
    BY <1>0, <2>1 DEF Run, Carries
<1>4. ASSUME Leave(w), ~(live[w].held /\ ~live[w].effect)
      PROVE  ~live'[w].held /\ live'[w].pc = "closing"
  <2>1. live'[w] = [NoRun EXCEPT !.pc = "closing"]
    BY <1>0, <1>4 DEF Leave
  <2> QED
    BY <2>1 DEF NoRun
<1> QED
  BY <1>1, <1>2, <1>3, <1>4

\* Where a run goes, and what it takes along.
LEMMA PocketsKept ==
  ASSUME Typed, NEW w \in LiveWorkers, Pockets(live[w]), LiveStep(w) PROVE Pockets(live'[w])
<1>0. live \in [LiveWorkers -> Run] /\ live[w] \in Run
  BY DEF Typed, TypeOK
<1>1. ASSUME NEW step \in Steps, Goto(w, step), step \in Holding \/ ~live[w].held,
             step \in Unattempted => ~live[w].effect
      PROVE  Pockets(live'[w])
  BY <1>1, ShapesOfEffect DEF Pockets, Carries
<1>2. ASSUME NEW v, FinishWith(w, v) PROVE Pockets(live'[w])
  BY <1>2, ShapesOfEffect DEF Pockets, Holding, Unattempted
<1>3. ASSUME Leave(w) PROVE Pockets(live'[w])
  BY <1>3, ShapesOfEffect DEF Pockets, Holding, Unattempted
<1>4. ASSUME NEW j \in Jobs, NEW preview \in Modes, Begin(w, j, preview) PROVE Pockets(live'[w])
  <2>1. live'[w] = [NoRun EXCEPT !.pc = "swept", !.job = j, !.preview = preview]
    BY <1>0, <1>4 DEF Begin
  <2> QED
    BY <2>1 DEF Pockets, NoRun
<1>5. ASSUME live' = [live EXCEPT ![w] = NoRun] PROVE Pockets(live'[w])
  BY <1>0, <1>5 DEF Pockets, NoRun
<1>6. CASE ResolveTarget(w)
  <2>1. ~live[w].held /\ ~live[w].effect
    BY <1>6 DEF ResolveTarget, At, Pockets, Holding, Unattempted
  <2> QED
    BY <1>1, <1>2, <1>3, <1>6, <2>1 DEF ResolveTarget, Steps
<1>7. CASE TakeLease(w)
  <2>1. ~live[w].held /\ ~live[w].effect
    BY <1>7 DEF TakeLease, At, Pockets, Holding, Unattempted
  <2>2. ASSUME NEW t, live' = [live EXCEPT ![w].pc = "claimed", ![w].token = t] PROVE Pockets(live'[w])
    <3>1. live'[w] = [live[w] EXCEPT !.pc = "claimed", !.token = t]
      BY <1>0, <2>2
    <3> QED
      BY <1>0, <2>1, <3>1 DEF Pockets, Run
  <2> QED
    BY <1>2, <1>7, <2>2 DEF TakeLease
<1>8. CASE CheckCanary(w)
  <2>1. ~live[w].held /\ ~live[w].effect
    BY <1>8 DEF CheckCanary, At, Pockets, Holding, Unattempted
  <2>2. ASSUME NEW c, live' = [live EXCEPT ![w].pc = "checked", ![w].canary = c] PROVE Pockets(live'[w])
    <3>1. live'[w] = [live[w] EXCEPT !.pc = "checked", !.canary = c]
      BY <1>0, <2>2
    <3> QED
      BY <1>0, <2>1, <3>1 DEF Pockets, Run
  <2> QED
    BY <1>2, <1>8, <2>2 DEF CheckCanary
<1>9. CASE OpenBrowser(w)
  <2>1. ~live[w].held /\ ~live[w].effect
    BY <1>9 DEF OpenBrowser, At, Pockets, Holding, Unattempted
  <2> QED
    BY <1>1, <1>2, <1>9, <2>1 DEF OpenBrowser, Steps
<1>10. CASE ReservePermission(w)
  <2>1. ~live[w].effect
    BY <1>10 DEF ReservePermission, At, Pockets, Unattempted
  <2>2. ASSUME live' = [live EXCEPT ![w].pc = "reserved", ![w].held = TRUE] PROVE Pockets(live'[w])
    <3>1. live'[w] = [live[w] EXCEPT !.pc = "reserved", !.held = TRUE]
      BY <1>0, <2>2
    <3> QED
      BY <1>0, <2>1, <3>1 DEF Pockets, Run, Holding
  <2> QED
    BY <1>2, <1>10, <2>2 DEF ReservePermission
<1>11. CASE EnterHook(w, TRUE)
  <2>1. ~live[w].effect
    BY <1>11 DEF EnterHook, At, Pockets, Unattempted
  <2> QED
    BY <1>1, <1>11, <2>1 DEF EnterHook, Steps, Holding
<1>12. CASE SpendPermission(w)
  <2>1. ~live[w].effect
    BY <1>12 DEF SpendPermission, At, Pockets, Unattempted
  <2>2. ASSUME live' = [live EXCEPT ![w].pc = "consumed", ![w].held = FALSE] PROVE Pockets(live'[w])
    <3>1. live'[w] = [live[w] EXCEPT !.pc = "consumed", !.held = FALSE]
      BY <1>0, <2>2
    <3> QED
      BY <1>0, <2>1, <3>1 DEF Pockets, Run
  <2> QED
    BY <1>2, <1>12, <2>2 DEF SpendPermission
<1>13. CASE ReserveSlot(w)
  <2>1. ~live[w].held
    BY <1>13 DEF ReserveSlot, At, Pockets, Holding
  <2>2. ASSUME live' = [live EXCEPT ![w].pc = "marked", ![w].effect = TRUE] PROVE Pockets(live'[w])
    <3>1. live'[w] = [live[w] EXCEPT !.pc = "marked", !.effect = TRUE]
      BY <1>0, <2>2
    <3> QED
      BY <1>0, <2>1, <3>1 DEF Pockets, Run, Unattempted
  <2> QED
    BY <1>2, <1>13, <2>2 DEF ReserveSlot
<1>14. CASE Click(w) \/ Judge(w) \/ RecordSent(w)
  <2>1. Goto(w, "clicked") \/ Goto(w, "proved") \/ Goto(w, "recorded") => ~live[w].held
    BY <1>14, ShapesOfEffect DEF Click, Judge, RecordSent, At, Pockets, Holding
  <2>2. \/ Goto(w, "clicked") \/ Goto(w, "proved") \/ Goto(w, "recorded") \/ Leave(w)
        \/ \E v : FinishWith(w, v)
    BY <1>14 DEF Click, Judge, RecordSent
  <2> QED
    BY <1>1, <1>2, <1>3, <2>1, <2>2 DEF Steps, Unattempted
<1>15. CASE RecordOutcome(w)
  BY <1>1, <1>15 DEF RecordOutcome, Steps, Holding, Unattempted
<1>16. CASE PageRefuses(w) \/ ComposerRefuses(w) \/ EnsureContacted(w)
  BY <1>2, <1>16 DEF PageRefuses, ComposerRefuses, EnsureContacted
<1>17. CASE FinalizeRun(w) \/ Raise(w)
  BY <1>3, <1>17 DEF FinalizeRun, Raise
<1>18. CASE CloseRun(w) \/ Crash(w)
  BY <1>5, <1>18 DEF CloseRun, Crash
<1> QED
  BY <1>4, <1>6, <1>7, <1>8, <1>9, <1>10, <1>11, <1>12, <1>13, <1>14, <1>15, <1>16, <1>17, <1>18
     DEF LiveStep, RunStep

\* A permission is reserved by a run only in the step that reserves it.
LEMMA ReservationStep ==
  ASSUME Typed, [RailNext]_railVars, NEW w \in LiveWorkers, NEW c \in CanaryIds,
         canaries'[c].state = "RESERVED", canaries'[c].by = w
  PROVE  \/ ReservedBy(c, w) /\ canaries'[c].manifest = canaries[c].manifest
         \/ /\ ReservePermission(w) /\ c = live[w].canary /\ canaries'[c].manifest = JobOf(w)
            /\ CanReserve(c, JobOf(w)) /\ Reserve(c, JobOf(w), w)
<1>1. CanaryStep /\ canaries \in [CanaryIds -> Canary] /\ Nobody \notin Workers /\ w \in Workers
  BY RailCanaryStep, OwnerAssumption, LiveAssumption DEF Typed, TypeOK, CanaryTypeOK
<1>2. CASE UNCHANGED canaries
  BY <1>2 DEF ReservedBy
<1>3. CASE ExpireStale
  BY <1>1, <1>3 DEF ExpireStale, Swept, IsStale, ReservedBy, Canary
<1>4. ASSUME NEW j \in Jobs, NEW kind, Arm(j, kind, jobs[j].effect)
      PROVE  ReservedBy(c, w) /\ canaries'[c].manifest = canaries[c].manifest
  BY <1>1, <1>4 DEF Arm, ExpireStale, Swept, IsStale, ArmedRow, ReservedBy, Canary
<1>5. ASSUME NEW d \in CanaryIds, Revoke(d) \/ TtlElapses(d)
      PROVE  ReservedBy(c, w) /\ canaries'[c].manifest = canaries[c].manifest
  BY <1>1, <1>5 DEF Revoke, TtlElapses, ReservedBy, Canary
<1>6. ASSUME NEW v \in LiveWorkers, NEW d, d = live[v].canary,
             Reserve(d, JobOf(v), v), ReservePermission(v), ~ReservedBy(c, w) \/ canaries'[c].manifest # canaries[c].manifest
      PROVE  /\ ReservePermission(w) /\ c = live[w].canary /\ canaries'[c].manifest = JobOf(w)
             /\ CanReserve(c, JobOf(w)) /\ Reserve(c, JobOf(w), w)
  <2>1. c = d
    BY <1>1, <1>6 DEF Reserve, ReservedBy
  <2>2. canaries'[c] = [canaries[c] EXCEPT !.state = "RESERVED", !.by = v]
    BY <1>1, <1>6, <2>1 DEF Reserve
  <2>3. v = w /\ canaries'[c].manifest = canaries[c].manifest
    BY <1>1, <2>2 DEF Canary
  <2> QED
    BY <1>6, <2>1, <2>3 DEF Reserve, CanReserve
<1>7. ASSUME NEW d, NEW m, NEW v, Consume(d, m, v) \/ Release(d, m, v)
      PROVE  ReservedBy(c, w) /\ canaries'[c].manifest = canaries[c].manifest
  BY <1>1, <1>7 DEF Consume, Release, ReservedBy, Canary
<1> QED
  BY <1>1, <1>2, <1>3, <1>4, <1>5, <1>6, <1>7 DEF CanaryStep

\* The profile is taken where the run opens its session, and given back before
\* it is over.
LEMMA BrowserStep ==
  ASSUME Typed, [RailNext]_railVars, NEW w \in LiveWorkers, browser' = w
  PROVE  browser = w \/ OpenBrowser(w)
<1>1. w \notin DryWorkers /\ w # Nobody
  BY RailAssumption, LiveAssumption, OwnerAssumption
<1>2. ASSUME NEW v \in LiveWorkers, LiveStep(v) PROVE browser = w \/ OpenBrowser(w)
  BY <1>1, <1>2 DEF LiveStep, RunStep, Begin, ResolveTarget, TakeLease, CheckCanary, OpenBrowser,
     PageRefuses, ReservePermission, ComposerRefuses, EnterHook, SpendPermission, ReserveSlot, Click,
     Judge, RecordSent, EnsureContacted, RecordOutcome, FinalizeRun, Raise, CloseRun, Crash
<1>3. ASSUME NEW d \in DryWorkers, DryStep(d) PROVE browser = w
  BY <1>1, <1>3 DEF DryStep, DryStart, DryClaim, DryGates, DryOpen, DryVisit, DryRecord, DryFinalize, DryEnd
<1>4. ASSUME NEW o \in Closers, CloserStep(o) PROVE browser = w
  BY <1>4 DEF CloserStep, RetireRead, RetireClaim, RetireCommit, ParkClaim, ParkFinalize, CloserCrash
<1>5. ASSUME OperatorStep \/ JobClock \/ CanaryClock \/ PaceClock PROVE browser = w
  BY <1>5 DEF OperatorStep, EnqueueJob, SupersedeManifest, ArmCanary, RevokeCanary, SetKillSwitch,
              RecoverLeases, JobClock, CanaryClock, PaceClock
<1> QED
  BY <1>2, <1>3, <1>4, <1>5 DEF RailNext, railVars

\* What a run holds, it takes along or gives back.
LEMMA HolderStep ==
  ASSUME Typed, NEW w \in LiveWorkers, NEW c \in CanaryIds, "crash" \notin Incidents,
         Remembers(live[w], c), ReservedBy(c, w), live[w].pc \in Holding, LiveStep(w),
         canaries'[c].state = "RESERVED"
  PROVE  Carries(live[w], live'[w])
<1>0. canaries \in [CanaryIds -> Canary]
  BY DEF Typed, TypeOK, CanaryTypeOK
<1>1. live[w].held /\ ~live[w].effect /\ live[w].canary = c /\ JobOf(w) = canaries[c].manifest
  BY DEF Remembers, JobOf
<1>2. CASE ComposerRefuses(w) \/ EnterHook(w, TRUE) \/ RecordOutcome(w)
  BY <1>2, ShapesOfEffect DEF ComposerRefuses, EnterHook, RecordOutcome
<1>3. CASE FinalizeRun(w) \/ Raise(w)
  BY <1>1, <1>3, ShapesOfEffect DEF FinalizeRun, Raise
<1>4. CASE SpendPermission(w)
  <2>1. ASSUME Consume(c, JobOf(w), w) PROVE FALSE
    <3>1. canaries'[c] = [canaries[c] EXCEPT !.state = "CONSUMED", !.used = canaries[c].used + 1]
      BY <1>0, <2>1 DEF Consume
    <3> QED
      BY <1>0, <3>1 DEF Canary
  <2> QED
    BY <1>1, <1>4, <2>1, ShapesOfEffect DEF SpendPermission
<1>5. ASSUME CloseRun(w) PROVE FALSE
  <2>1. Release(c, JobOf(w), w) /\ HoldsReservation(c, JobOf(w), w)
    BY <1>1, <1>5 DEF CloseRun, HoldsReservation, ReservedBy
  <2>2. canaries'[c] = [canaries[c] EXCEPT !.state = "ARMED", !.by = Nobody]
    BY <1>0, <2>1 DEF Release
  <2> QED
    BY <1>0, <2>2 DEF Canary
<1> QED
  BY <1>2, <1>3, <1>4, <1>5 DEF LiveStep, RunStep, At, Begin, ResolveTarget, TakeLease, CheckCanary,
     OpenBrowser, PageRefuses, ReservePermission, ReserveSlot, Click, Judge, RecordSent, EnsureContacted, Holding

\* What it reserves, it remembers.
LEMMA ReserverRemembers ==
  ASSUME Typed, NEW w \in LiveWorkers, NEW c \in CanaryIds, Pockets(live[w]),
         ReservePermission(w), c = live[w].canary, CanReserve(c, JobOf(w)), canaries'[c].manifest = JobOf(w)
  PROVE  Remembers(live[w], c)'
<1>0. live \in [LiveWorkers -> Run] /\ live[w] \in Run
  BY DEF Typed, TypeOK
<1>1. ~live[w].effect
  BY DEF ReservePermission, At, Pockets, Unattempted
<1>2. live'[w] = [live[w] EXCEPT !.pc = "reserved", !.held = TRUE]
  BY <1>0 DEF ReservePermission
<1> QED
  BY <1>0, <1>1, <1>2 DEF Remembers, Run, JobOf

LEMMA NothingForgottenInit == RailInit => NothingForgotten
<1> SUFFICES ASSUME RailInit PROVE NothingForgotten
  OBVIOUS
<1>1. \A w \in LiveWorkers : Pockets(live[w]) /\ browser # w
  BY OwnerAssumption, LiveAssumption DEF RailInit, LiveInit, Pockets, NoRun
<1>2. \A c \in CanaryIds : canaries[c].state = "NEW"
  BY DEF RailInit, LiveInit, CanaryInit, ArmedRow
<1> QED
  BY <1>1, <1>2 DEF NothingForgotten, ReservedBy

LEMMA NothingForgottenKept ==
  "crash" \notin Incidents /\ Typed /\ NothingForgotten /\ [RailNext]_railVars => NothingForgotten'
<1> SUFFICES ASSUME "crash" \notin Incidents, Typed, NothingForgotten, [RailNext]_railVars, NEW w \in LiveWorkers
             PROVE  /\ Pockets(live'[w])
                    /\ browser' = w => live'[w].pc # "idle"
                    /\ \A c \in CanaryIds : ReservedBy(c, w)' => Remembers(live[w], c)'
  BY DEF NothingForgotten, At
<1>1. Pockets(live[w]) /\ (browser = w => live[w].pc # "idle")
  BY DEF NothingForgotten, At
<1>2. live'[w] = live[w] \/ LiveStep(w)
  BY OneRunMoves
<1>3. Pockets(live'[w])
  BY <1>1, <1>2, PocketsKept
<1>4. ASSUME browser' = w, live'[w].pc = "idle" PROVE FALSE
  <2>0. live \in [LiveWorkers -> Run] /\ w # Nobody
    BY LiveAssumption, OwnerAssumption DEF Typed, TypeOK
  <2>1. CASE OpenBrowser(w)
    BY <1>4, <2>1, ShapesOfEffect DEF OpenBrowser
  <2>2. CASE browser = w /\ ~OpenBrowser(w)
    <3>1. live'[w] # live[w] /\ LiveStep(w)
      BY <1>1, <1>2, <1>4, <2>2
    <3>2. ~CloseRun(w)
      BY <1>4, <2>0 DEF CloseRun
    <3>3. \A j \in Jobs, preview \in Modes : ~Begin(w, j, preview)
      BY <1>1, <2>2 DEF Begin, At
    <3>4. ~\/ \E step \in Steps \ {"idle"} : Goto(w, step)
           \/ \E v : FinishWith(w, v)
           \/ Leave(w)
      BY <1>4, ShapesOfEffect
    <3>5. ASSUME NEW t, live' = [live EXCEPT ![w].pc = "claimed", ![w].token = t] PROVE FALSE
      BY <1>4, <2>0, <3>5 DEF Run
    <3>6. ASSUME NEW c, live' = [live EXCEPT ![w].pc = "checked", ![w].canary = c] PROVE FALSE
      BY <1>4, <2>0, <3>6 DEF Run
    <3>7. ASSUME \/ live' = [live EXCEPT ![w].pc = "reserved", ![w].held = TRUE]
                 \/ live' = [live EXCEPT ![w].pc = "consumed", ![w].held = FALSE]
                 \/ live' = [live EXCEPT ![w].pc = "marked", ![w].effect = TRUE]
          PROVE  FALSE
      BY <1>4, <2>0, <3>7 DEF Run
    <3>8. ~ResolveTarget(w) /\ ~TakeLease(w) /\ ~CheckCanary(w)
      BY <3>4, <3>5, <3>6 DEF ResolveTarget, TakeLease, CheckCanary, Steps
    <3>9. ~PageRefuses(w) /\ ~ReservePermission(w) /\ ~ComposerRefuses(w) /\ ~EnterHook(w, TRUE) /\ ~SpendPermission(w)
      BY <3>4, <3>7 DEF PageRefuses, ReservePermission, ComposerRefuses, EnterHook, SpendPermission, Steps
    <3>10. ~ReserveSlot(w) /\ ~Click(w) /\ ~Judge(w) /\ ~RecordSent(w) /\ ~EnsureContacted(w)
      BY <3>4, <3>7 DEF ReserveSlot, Click, Judge, RecordSent, EnsureContacted, Steps
    <3>11. ~RecordOutcome(w) /\ ~FinalizeRun(w) /\ ~Raise(w)
      BY <3>4 DEF RecordOutcome, FinalizeRun, Raise, Steps
    <3> QED
      BY <2>2, <3>1, <3>2, <3>3, <3>8, <3>9, <3>10, <3>11 DEF LiveStep, RunStep
  <2> QED
    BY <1>4, <2>1, <2>2, BrowserStep
<1>5. ASSUME NEW c \in CanaryIds, canaries'[c].state = "RESERVED", canaries'[c].by = w
      PROVE  Remembers(live[w], c)'
  <2>1. CASE ReservedBy(c, w) /\ canaries'[c].manifest = canaries[c].manifest
    <3>1. Remembers(live[w], c) /\ live[w].pc \in Holding
      BY <1>1, <2>1 DEF NothingForgotten, Remembers, Pockets
    <3>2. Carries(live[w], live'[w])
      BY <1>2, <1>5, <2>1, <3>1, HolderStep DEF Carries
    <3> QED
      BY <2>1, <3>1, <3>2 DEF Remembers, Carries
  <2>2. CASE /\ ReservePermission(w) /\ c = live[w].canary /\ canaries'[c].manifest = JobOf(w)
             /\ CanReserve(c, JobOf(w))
    BY <1>1, <2>2, ReserverRemembers
  <2> QED
    BY <1>5, <2>1, <2>2, ReservationStep
<1> QED
  BY <1>3, <1>4, <1>5 DEF ReservedBy

\* Where no process is killed, a run that is over keeps neither the browser
\* nor a reservation, whichever of its many exits it took.
THEOREM NothingIsLeftHeldTheorem == "crash" \notin Incidents /\ RailSpec => []NothingIsLeftHeld
<1>1. NothingForgotten => NothingIsLeftHeld
  BY DEF NothingForgotten, NothingIsLeftHeld, ReservedBy, Remembers, Pockets, Holding, At
<1>2. CASE "crash" \notin Incidents
  <2>1. Typed /\ NothingForgotten /\ [RailNext]_railVars => NothingForgotten'
    BY <1>2, NothingForgottenKept
  <2> QED
    BY <1>1, <2>1, NothingForgottenInit, TypedTheorem, PTL DEF RailSpec
<1> QED
  BY <1>2
=============================================================================
