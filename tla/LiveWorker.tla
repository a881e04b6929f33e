----------------------------- MODULE LiveWorker -----------------------------
(***************************************************************************)
(* runInstagramLiveCanary (lib/instagram/liveWorker.ts): the one path that *)
(* can click "send".  Any number of processes run it at once, each at its  *)
(* own point of the function; every database statement is a step, and a    *)
(* process may be killed between two of them.                              *)
(*                                                                         *)
(* A worker's local variables are a record: `pc` is the statement about to *)
(* run, named after the last gate passed; token, canary, held and effect   *)
(* are claimToken, canary, reservationHeld and externalEffectAttempted;    *)
(* verdict is the status handed to finish().                               *)
(***************************************************************************)
EXTENDS DispatchQueue, CanaryAuthorization

CONSTANTS
    LiveWorkers,  \* processes that run runInstagramLiveCanary
    Autonomous,   \* those driven by the autonomous worker
    Modes,        \* values of previewOnly a run is started with
    Incidents,    \* what may disturb a run, in this instance
    EffectCap,    \* attempts allowed in the sliding window of the caps
    MaxFailures   \* caps.maxConsecutiveFailures

ASSUME LiveAssumption == /\ LiveWorkers \subseteq Workers
                         /\ Autonomous \subseteq LiveWorkers
                         /\ Modes \subseteq BOOLEAN
                         /\ Incidents \subseteq {"raise", "crash", "supersede", "revoke",
                                               "engage", "arm", "upgrade"}
                         /\ EffectCap \in Nat
                         /\ MaxFailures \in Nat \ {0}

VARIABLES
    live,        \* the local state of each run
    locked,      \* r6b_dispatch_manifests.status = 'LOCKED'
    killSwitch,  \* ig_kill_switch.engaged
    recent,      \* jobs whose attempt is still inside the caps' window
    cooling,     \* the latest attempt is younger than minSendIntervalMs
    browser,     \* owner of the browser profile's exclusive lease
    journal,     \* LIVE outcomes written to ig_job_events, per job
    streak,      \* consecutive FAILED outcomes at the tail of ig_job_events
    sent,        \* jobs with a 'sent' row in outreach_events
    contacted,   \* jobs whose prospect ensureContacted has moved on
    clicks       \* the world: how often "send" was clicked for a job

queueVars == <<jobs, canaries>>
worldVars == <<locked, killSwitch>>
paceVars  == <<recent, cooling>>
logVars   == <<journal, streak, sent, contacted>>

Steps == {"idle", "swept", "resolved", "claimed", "checked", "opened",
          "reserved", "cleared", "consumed", "marked", "clicked", "proved",
          "recorded", "finishing", "finalizing", "closing"}

EffectOutcomes == {"SENT", "AMBIGUOUS", "DELIVERY_FAILED"}
Verdicts       == EffectOutcomes \cup {"none", "BLOCKED", "FAILED"}

\* Mutated: the verdict is written as it is.
StatusOf_Unmapped(v) == v

\* judgeSendOutcome and finish(): the job status of each verdict.
StatusOf(v) == IF v = "AMBIGUOUS" THEN "REVIEW_REQUIRED" ELSE v

Run == [ pc      : Steps,
         job     : Jobs \cup {NoManifest},
         preview : BOOLEAN,
         token   : 0..MaxClaims,
         canary  : 0..MaxCanaries,
         held    : BOOLEAN,
         effect  : BOOLEAN,
         verdict : Verdicts ]

NoRun == [ pc |-> "idle", job |-> NoManifest, preview |-> FALSE, token |-> 0,
           canary |-> 0, held |-> FALSE, effect |-> FALSE, verdict |-> "none" ]

LiveInit ==
    /\ QueueInit
    /\ CanaryInit
    /\ live = [w \in LiveWorkers |-> NoRun]
    /\ locked = [j \in Jobs |-> TRUE]
    /\ killSwitch = TRUE           \* an absent row is an engaged switch
    /\ recent = {}
    /\ cooling = FALSE
    /\ browser = Nobody
    /\ journal = [j \in Jobs |-> {}]
    /\ streak = 0
    /\ sent = {}
    /\ contacted = {}
    /\ clicks = [j \in Jobs |-> 0]

-----------------------------------------------------------------------------
(* Guards and bookkeeping *)

\* evaluateSafety: the kill switch, the caps on SENDS, the minimal interval,
\* the failure series.
SafetyAllows ==
    /\ ~killSwitch
    /\ Cardinality({j \in recent : "SENT" \in journal[j]}) < EffectCap
    /\ ~cooling
    /\ streak < MaxFailures

\* The failure series as loadSafetySnapshot reads it: any outcome that is not
\* FAILED ends it.
StreakAfter(status) == IF status # "FAILED" THEN 0
                       ELSE IF streak < MaxFailures THEN streak + 1 ELSE streak

At(w, step)   == live[w].pc = step
JobOf(w)      == live[w].job
Goto(w, step) == live' = [live EXCEPT ![w].pc = step]

\* return await finish(status, ...)
FinishWith(w, v) == live' = [live EXCEPT ![w].pc = "finishing", ![w].verdict = v]

\* Mutated: the `finally` does not know a reservation is held.
Leave_ForgetsReservation(w) == live' = [live EXCEPT ![w] = [NoRun EXCEPT !.pc = "closing"]]

\* On to the `finally`, which needs no more than a reservation to give back.
Leave(w) ==
    live' = [live EXCEPT ![w] =
               IF @.held /\ ~@.effect
               THEN [@ EXCEPT !.pc = "closing", !.preview = FALSE, !.token = 0, !.verdict = "none"]
               ELSE [NoRun EXCEPT !.pc = "closing"]]

-----------------------------------------------------------------------------
(* The run, statement by statement *)

\* The mode, adapter and safety gates, then recoverExpiredLeases.  A refusal
\* returns before any job is known and leaves nothing behind; a preview goes
\* on regardless.  What the safety gates read is not used again, so nothing
\* tells this step from two.
Begin(w, j, preview) ==
    /\ At(w, "idle")
    /\ SafetyAllows \/ preview
    /\ RecoverExpiredLeases
    /\ live' = [live EXCEPT ![w] = [NoRun EXCEPT !.pc = "swept", !.job = j, !.preview = preview]]
    /\ UNCHANGED <<canaries, worldVars, logVars, paceVars, browser, clicks>>

\* expireStaleCanaryAuthorizations, then resolveDispatchTarget and the first
\* read of the job.  Before a job is known a refusal writes nothing; an
\* effect already attempted is reported on the job, without a lease.
ResolveTarget(w) ==
    /\ At(w, "swept")
    /\ ExpireStale
    /\ LET j == JobOf(w)
       IN  \/ (~locked[j] \/ jobs[j].status = "ABSENT") /\ Leave(w)
           \/ locked[j] /\ jobs[j].effect /\ FinishWith(w, "BLOCKED")
           \/ /\ locked[j] /\ jobs[j].status # "ABSENT" /\ ~jobs[j].effect
              /\ Goto(w, "resolved")
    /\ UNCHANGED <<jobs, worldVars, logVars, paceVars, browser, clicks>>

TakeLease(w) ==
    /\ At(w, "resolved")
    /\ \/ /\ Claim(JobOf(w), w, FALSE)
          /\ live' = [live EXCEPT ![w].pc = "claimed", ![w].token = jobs'[JobOf(w)].token]
       \/ /\ ~CanClaim(JobOf(w), FALSE)
          /\ FinishWith(w, "BLOCKED")
          /\ UNCHANGED jobs
    /\ UNCHANGED <<canaries, worldVars, logVars, paceVars, browser, clicks>>

\* detectJobManifestDrift, loadCanaryForManifest and checkCanaryAuthorization.
CheckCanary(w) ==
    /\ At(w, "claimed")
    /\ \/ \E c \in CanaryIds :
            /\ LoadedFor(JobOf(w), c)
            /\ CheckPasses(c)
            /\ live' = [live EXCEPT ![w].pc = "checked", ![w].canary = c]
       \/ /\ \A c \in CanaryIds : LoadedFor(JobOf(w), c) => ~CheckPasses(c)
          /\ FinishWith(w, "BLOCKED")
    /\ UNCHANGED <<queueVars, worldVars, logVars, paceVars, browser, clicks>>

\* ensureSession takes the browser profile, or finds it busy.
OpenBrowser(w) ==
    /\ At(w, "checked")
    /\ \/ /\ browser = Nobody
          /\ browser' = w
          /\ Goto(w, "opened")
       \/ /\ browser # Nobody
          /\ FinishWith(w, "BLOCKED")
          /\ UNCHANGED browser
    /\ UNCHANGED <<queueVars, worldVars, logVars, paceVars, clicks>>

\* Session, profile page, identity: any of them may refuse; a preview ends
\* here, which finish() writes as BLOCKED.
PageRefuses(w) ==
    /\ At(w, "opened")
    /\ \E v \in {"BLOCKED", "FAILED"} : FinishWith(w, v)
    /\ UNCHANGED <<queueVars, worldVars, logVars, paceVars, browser, clicks>>

ReservePermission(w) ==
    /\ At(w, "opened")
    /\ ~live[w].preview
    /\ \/ /\ Reserve(live[w].canary, JobOf(w), w)
          /\ live' = [live EXCEPT ![w].pc = "reserved", ![w].held = TRUE]
       \/ /\ ~CanReserve(live[w].canary, JobOf(w))
          /\ FinishWith(w, "BLOCKED")
          /\ UNCHANGED canaries
    /\ UNCHANGED <<jobs, worldVars, logVars, paceVars, browser, clicks>>

\* sendFirstTouchDm gives up (NOT_ATTEMPTED) or throws before its hook.
ComposerRefuses(w) ==
    /\ At(w, "reserved")
    /\ \E v \in {"BLOCKED", "FAILED"} : FinishWith(w, v)
    /\ UNCHANGED <<queueVars, worldVars, logVars, paceVars, browser, clicks>>

\* onBeforeExternalEffect opens.  `lateOk` is what beforeExternalEffect
\* re-reads; without that dependency it is TRUE.
EnterHook(w, lateOk) ==
    /\ At(w, "reserved")
    /\ IF lateOk THEN Goto(w, "cleared") ELSE FinishWith(w, "FAILED")
    /\ UNCHANGED <<queueVars, worldVars, logVars, paceVars, browser, clicks>>

SpendPermission(w) ==
    /\ At(w, "cleared")
    /\ \/ /\ Consume(live[w].canary, JobOf(w), w)
          /\ live' = [live EXCEPT ![w].pc = "consumed", ![w].held = FALSE]
       \/ /\ ~CanConsume(live[w].canary, JobOf(w), w)
          /\ FinishWith(w, "FAILED")
          /\ UNCHANGED canaries
    /\ UNCHANGED <<jobs, worldVars, logVars, paceVars, browser, clicks>>

\* Mutated: the caps are left to evaluateSafety.
SlotOpen_NoCount(w) == ~cooling /\ CanMarkEffect(JobOf(w), live[w].canary)

\* reserveExternalEffectSlot: the count and the mark are one transaction
\* under one advisory lock.
SlotOpen(w) == /\ Cardinality(recent) < EffectCap
               /\ ~cooling
               /\ CanMarkEffect(JobOf(w), live[w].canary)

ReserveSlot(w) ==
    /\ At(w, "consumed")
    /\ \/ /\ SlotOpen(w)
          /\ MarkEffect(JobOf(w), live[w].canary)
          /\ recent' = recent \cup {JobOf(w)}
          /\ cooling' = TRUE
          /\ live' = [live EXCEPT ![w].pc = "marked", ![w].effect = TRUE]
       \/ /\ ~SlotOpen(w)
          /\ FinishWith(w, "FAILED")
          /\ UNCHANGED <<jobs, paceVars>>
    /\ UNCHANGED <<canaries, worldVars, logVars, browser, clicks>>

\* The hook has returned: the rail clicks once, or fails on the way to it.
Click(w) ==
    /\ At(w, "marked")
    /\ clicks' = [clicks EXCEPT ![JobOf(w)] = @ + 1]
    /\ Goto(w, "clicked")
    /\ UNCHANGED <<queueVars, worldVars, logVars, paceVars, browser>>

\* What the page shows afterwards, judged; an exception after the mark is
\* AMBIGUOUS too.
Judge(w) ==
    /\ \/ At(w, "clicked") /\ Goto(w, "proved")
       \/ At(w, "clicked") /\ \E v \in {"AMBIGUOUS", "DELIVERY_FAILED"} : FinishWith(w, v)
       \/ At(w, "marked")  /\ FinishWith(w, "AMBIGUOUS")
    /\ UNCHANGED <<queueVars, worldVars, logVars, paceVars, browser, clicks>>

\* recordSentOutcome: the outreach event (unique per manifest, so a second
\* insert raises), then ensureContacted in a transaction of its own.
RecordSent(w) ==
    /\ At(w, "proved")
    /\ IF JobOf(w) \in sent
       THEN Leave(w) /\ UNCHANGED sent
       ELSE Goto(w, "recorded") /\ sent' = sent \cup {JobOf(w)}
    /\ UNCHANGED <<queueVars, worldVars, journal, streak, contacted, paceVars, browser, clicks>>

\* Mutated: the prospect is not moved on.
EnsureContacted_Skipped(w) ==
    /\ At(w, "recorded")
    /\ FinishWith(w, "SENT")
    /\ UNCHANGED <<queueVars, worldVars, journal, streak, sent, contacted, paceVars, browser, clicks>>

EnsureContacted(w) ==
    /\ At(w, "recorded")
    /\ contacted' = contacted \cup {JobOf(w)}
    /\ FinishWith(w, "SENT")
    /\ UNCHANGED <<queueVars, worldVars, journal, streak, sent, paceVars, browser, clicks>>

\* finish(): the event first ...
RecordOutcome(w) ==
    /\ At(w, "finishing")
    /\ LET v == live[w].verdict
       IN  /\ journal' = [journal EXCEPT ![JobOf(w)] = @ \cup ({v} \cap EffectOutcomes)]
           /\ streak' = StreakAfter(v)
    /\ Goto(w, "finalizing")
    /\ UNCHANGED <<queueVars, worldVars, sent, contacted, paceVars, browser, clicks>>

\* ... then the row, under the token taken at the claim.  A lost lease is
\* only logged.
FinalizeRun(w) ==
    /\ At(w, "finalizing")
    /\ Finalize(JobOf(w), live[w].token, StatusOf(live[w].verdict), "none", ~live[w].effect)
    /\ Leave(w)
    /\ UNCHANGED <<canaries, worldVars, logVars, paceVars, browser, clicks>>

\* An error no handler expects leaves the function from anywhere after the
\* claim; the `finally` still runs.
Raise(w) ==
    /\ live[w].pc \in Steps \ {"idle", "closing"}
    /\ Leave(w)
    /\ UNCHANGED <<queueVars, worldVars, logVars, paceVars, browser, clicks>>

\* The `finally`: give back an unspent reservation, close the browser.
CloseRun(w) ==
    /\ At(w, "closing")
    /\ IF live[w].held
       THEN Release(live[w].canary, JobOf(w), w)
       ELSE UNCHANGED canaries
    /\ browser' = IF browser = w THEN Nobody ELSE browser
    /\ live' = [live EXCEPT ![w] = NoRun]
    /\ UNCHANGED <<jobs, worldVars, logVars, paceVars, clicks>>

\* The process dies: no `finally`, but the profile lease of a dead pid can
\* be taken over.
Crash(w) ==
    /\ ~At(w, "idle")
    /\ live' = [live EXCEPT ![w] = NoRun]
    /\ browser' = IF browser = w THEN Nobody ELSE browser
    /\ UNCHANGED <<queueVars, worldVars, logVars, paceVars, clicks>>

-----------------------------------------------------------------------------
(* The operator and the clock *)

EnqueueJob(j) ==
    /\ locked[j]
    /\ Enqueue(j)
    /\ UNCHANGED <<canaries, live, worldVars, logVars, paceVars, browser, clicks>>

ArmCanary(j, kind) ==
    /\ locked[j]
    /\ Arm(j, kind, jobs[j].effect)
    /\ UNCHANGED <<jobs, live, worldVars, logVars, paceVars, browser, clicks>>

RevokeCanary(c) ==
    /\ Revoke(c)
    /\ UNCHANGED <<jobs, live, worldVars, logVars, paceVars, browser, clicks>>

\* setKillSwitch.
SetKillSwitch(engaged) ==
    /\ killSwitch' = engaged
    /\ UNCHANGED <<queueVars, live, locked, logVars, paceVars, browser, clicks>>

\* A re-lock supersedes the manifest; nothing in the queue is told.
SupersedeManifest(j) ==
    /\ locked[j]
    /\ locked' = [locked EXCEPT ![j] = FALSE]
    /\ UNCHANGED <<queueVars, live, killSwitch, logVars, paceVars, browser, clicks>>

\* now() moves past a lease, a not_before, an expiry, the caps' window or
\* the minimal interval.
JobClock ==
    /\ \E j \in Jobs : LeaseExpires(j) \/ BecomesDue(j)
    /\ UNCHANGED <<canaries, live, worldVars, paceVars, logVars, browser, clicks>>

CanaryClock ==
    /\ \E c \in CanaryIds : TtlElapses(c)
    /\ UNCHANGED <<jobs, live, worldVars, paceVars, logVars, browser, clicks>>

PaceClock ==
    /\ \/ cooling /\ cooling' = FALSE /\ UNCHANGED recent
       \/ (\E j \in recent : recent' = recent \ {j}) /\ UNCHANGED cooling
    /\ UNCHANGED <<queueVars, live, worldVars, logVars, browser, clicks>>

-----------------------------------------------------------------------------
\* Everything a run does on its own, once it is started.
RunStep(w) ==
    \/ ResolveTarget(w) \/ TakeLease(w) \/ CheckCanary(w)
    \/ OpenBrowser(w) \/ PageRefuses(w) \/ ReservePermission(w) \/ ComposerRefuses(w)
    \/ SpendPermission(w) \/ ReserveSlot(w) \/ Click(w) \/ Judge(w)
    \/ RecordSent(w) \/ EnsureContacted(w) \/ RecordOutcome(w) \/ FinalizeRun(w)
    \/ CloseRun(w)

\* A process, as its driver may start it on any job at any time and, if the
\* driver re-reads nothing in the hook, let it through.
LiveStep(w) ==
    \/ \E j \in Jobs, preview \in Modes : Begin(w, j, preview)
    \/ EnterHook(w, TRUE)
    \/ RunStep(w)
    \/ "raise" \in Incidents /\ Raise(w)
    \/ "crash" \in Incidents /\ Crash(w)

\* An autonomous turn starts by recovering leases, whatever it does next.
RecoverLeases ==
    /\ Autonomous # {}
    /\ RecoverExpiredLeases
    /\ UNCHANGED <<canaries, live, worldVars, paceVars, logVars, browser, clicks>>

ArmingKinds == {"HUMAN"} \cup (IF Autonomous = {} THEN {} ELSE {"AUTONOMOUS_POLICY"})

OperatorStep ==
    \/ \E j \in Jobs : EnqueueJob(j)
    \/ \E j \in Jobs : "supersede" \in Incidents /\ SupersedeManifest(j)
    \/ \E j \in Jobs, kind \in ArmingKinds : ArmCanary(j, kind)
    \/ \E c \in CanaryIds : ("revoke" \in Incidents \/ Autonomous # {}) /\ RevokeCanary(c)
    \/ SetKillSwitch(FALSE)
    \/ "engage" \in Incidents /\ SetKillSwitch(TRUE)
    \/ RecoverLeases
=============================================================================
