---------------------------- MODULE DispatchRail ----------------------------
(***************************************************************************)
(* The whole first-contact rail: the live runs of LiveWorker beside the    *)
(* processes that share its queue without ever sending anything - the      *)
(* DRY-RUN worker (lib/instagram/worker.ts), the operator's retirement     *)
(* (manifestRetirement.ts) and the policy's invalidation                   *)
(* (queueInvalidation.ts).                                                 *)
(***************************************************************************)
EXTENDS LiveWorker

CONSTANTS
    DryWorkers,  \* processes that run runInstagramDryRun
    Closers      \* operators closing an intent: retirement or invalidation

ASSUME RailAssumption ==
    /\ DryWorkers \subseteq Workers
    /\ Closers \subseteq Workers
    /\ DryWorkers \cap LiveWorkers = {}

VARIABLES
    dry,      \* the local state of each dry run
    closing,  \* the local state of each closer
    retired   \* manifests with a row in ig_manifest_retirements

railVars == <<jobs, canaries, live, locked, killSwitch, recent, cooling, browser, journal,
              streak, sent, contacted, clicks, dry, closing, retired>>

\* A dry run: `seen` is the jobs it already took, `event` and `status` what
\* finish() chose, `stop` its hardStop.
DryRun == [ pc     : {"idle", "looping", "claimed", "gated", "visiting",
                      "recording", "finalizing", "ending"},
            job    : Jobs \cup {NoManifest},
            token  : 0..MaxClaims,
            seen   : SUBSET Jobs,
            event  : {"none", "DRY_RUN_COMPLETED", "SKIPPED", "BLOCKED", "FAILED"},
            skip   : {"none", "TEMPORARY", "TERMINAL"},
            stop   : BOOLEAN ]

NoDryRun == [ pc |-> "idle", job |-> NoManifest, token |-> 0, seen |-> {},
              event |-> "none", skip |-> "none", stop |-> FALSE ]

Closing == [ pc    : {"idle", "read", "held", "parking"},
             job   : Jobs \cup {NoManifest},
             token : 0..MaxClaims ]

NoClosing == [ pc |-> "idle", job |-> NoManifest, token |-> 0 ]

RailInit ==
    /\ LiveInit
    /\ dry = [d \in DryWorkers |-> NoDryRun]
    /\ closing = [o \in Closers |-> NoClosing]
    /\ retired = {}

-----------------------------------------------------------------------------
(* The dry run *)

DryAt(d, step) == dry[d].pc = step

DryStart(d) ==
    /\ DryAt(d, "idle")
    /\ RecoverExpiredLeases
    /\ dry' = [dry EXCEPT ![d].pc = "looping"]
    /\ UNCHANGED <<canaries, live, worldVars, logVars, paceVars, browser, clicks, closing, retired>>

\* claimNextInstagramJob with the jobs of this run excluded.
DryClaim(d) ==
    /\ DryAt(d, "looping")
    /\ \/ \E j \in Jobs \ dry[d].seen :
            /\ Claim(j, d, FALSE)
            /\ dry' = [dry EXCEPT ![d].pc = "claimed", ![d].job = j,
                                  ![d].token = jobs'[j].token, ![d].seen = @ \cup {j}]
       \/ /\ \A j \in Jobs \ dry[d].seen : ~CanClaim(j, FALSE)
          /\ dry' = [dry EXCEPT ![d].pc = "ending"]
          /\ UNCHANGED jobs
    /\ UNCHANGED <<canaries, live, worldVars, logVars, paceVars, browser, clicks, closing, retired>>

\* return finish(event, ..., { skipReason, hardStop })
DryFinish(d, event, skip, stop) ==
    dry' = [dry EXCEPT ![d].pc = "recording", ![d].event = event,
                       ![d].skip = skip, ![d].stop = stop]

\* Everything before the browser: the workload caps refuse as BLOCKED, the
\* schedule defers as SKIPPED, a manifest that is no longer dispatchable is
\* BLOCKED, for good when the refusal is about the person.
DryGates(d) ==
    /\ DryAt(d, "claimed")
    /\ IF streak >= MaxFailures
       THEN DryFinish(d, "BLOCKED", "TEMPORARY", FALSE)
       ELSE \/ DryFinish(d, "SKIPPED", "TEMPORARY", FALSE)
            \/ DryFinish(d, "BLOCKED", "TERMINAL", FALSE)
            \/ DryFinish(d, "BLOCKED", "TEMPORARY", FALSE)
            \/ locked[dry[d].job] /\ dry' = [dry EXCEPT ![d].pc = "gated"]
    /\ UNCHANGED <<queueVars, live, worldVars, logVars, paceVars, browser, clicks, closing, retired>>

\* session.ensure(): opened once per run and kept until its end.
DryOpen(d) ==
    /\ DryAt(d, "gated")
    /\ \/ /\ browser \in {Nobody, d}
          /\ browser' = d
          /\ dry' = [dry EXCEPT ![d].pc = "visiting"]
       \/ /\ browser \notin {Nobody, d}
          /\ DryFinish(d, "BLOCKED", "none", FALSE)
          /\ UNCHANGED browser
       \/ /\ DryFinish(d, "FAILED", "TEMPORARY", TRUE)
          /\ UNCHANGED browser
    /\ UNCHANGED <<queueVars, live, worldVars, logVars, paceVars, clicks, closing, retired>>

\* Session state, profile page and identity: a wrong identity is final.
DryVisit(d) ==
    /\ DryAt(d, "visiting")
    /\ \/ DryFinish(d, "DRY_RUN_COMPLETED", "none", FALSE)
       \/ \E skip \in {"TEMPORARY", "TERMINAL"} : DryFinish(d, "BLOCKED", skip, FALSE)
       \/ DryFinish(d, "BLOCKED", "TEMPORARY", TRUE)
       \/ DryFinish(d, "FAILED", "TEMPORARY", FALSE)
    /\ UNCHANGED <<queueVars, live, worldVars, logVars, paceVars, browser, clicks, closing, retired>>

\* The outcome event.  SKIPPED is not one of the outcomes the failure series
\* reads.
DryRecord(d) ==
    /\ DryAt(d, "recording")
    /\ streak' = IF dry[d].event = "SKIPPED" THEN streak ELSE StreakAfter(dry[d].event)
    /\ dry' = [dry EXCEPT ![d].pc = "finalizing"]
    /\ UNCHANGED <<queueVars, live, worldVars, journal, sent, contacted, paceVars, browser,
                   clicks, closing, retired>>

DryStatus(d) ==
    CASE dry[d].event = "DRY_RUN_COMPLETED" -> "DRY_RUN_VALIDATED"
      [] dry[d].event = "FAILED"            -> "FAILED"
      [] dry[d].skip = "TERMINAL"           -> "INELIGIBLE"
      [] OTHER                              -> "SKIPPED"

\* finalizeInstagramJob, then the next job or the end of the run; a CHECK
\* that refuses the row throws out of the loop and leaves the job claimed.
DryFinalize(d) ==
    LET j == dry[d].job
        due == dry[d].skip # "TEMPORARY"
    IN  /\ DryAt(d, "finalizing")
        /\ \/ /\ Finalize(j, dry[d].token, DryStatus(d), dry[d].skip, due)
              /\ dry' = [dry EXCEPT ![d] =
                           [NoDryRun EXCEPT !.pc = IF dry[d].stop THEN "ending" ELSE "looping",
                                            !.seen = dry[d].seen]]
           \/ /\ FinalizeRaises(j, dry[d].token, DryStatus(d), dry[d].skip, due)
              /\ dry' = [dry EXCEPT ![d].pc = "ending"]
              /\ UNCHANGED jobs
        /\ UNCHANGED <<canaries, live, worldVars, logVars, paceVars, browser, clicks, closing, retired>>

\* The `finally` closes the session, and a killed process loses it.
DryEnd(d) ==
    /\ ~DryAt(d, "idle")
    /\ dry' = [dry EXCEPT ![d] = NoDryRun]
    /\ browser' = IF browser = d THEN Nobody ELSE browser
    /\ UNCHANGED <<queueVars, live, worldVars, logVars, paceVars, clicks, closing, retired>>

-----------------------------------------------------------------------------
(* Closing an intent *)

Retirable(j) ==
    /\ locked[j]
    /\ j \notin retired
    /\ ~jobs[j].effect
    /\ jobs[j].status \notin {"CLAIMED", "SENT", "REVIEW_REQUIRED", "DELIVERY_FAILED"}

\* readSubject and assessManifestRetirement.
RetireRead(o, j) ==
    /\ closing[o].pc = "idle"
    /\ Retirable(j)
    /\ closing' = [closing EXCEPT ![o] =
                     [ pc    |-> IF jobs[j].status \in ClaimableStatuses THEN "read" ELSE "held",
                       job   |-> j,
                       token |-> 0 ]]
    /\ UNCHANGED <<queueVars, live, worldVars, logVars, paceVars, browser, clicks, dry, retired>>

\* The lease that makes the write legitimate, due or not; or CLAIM_LOST.
RetireClaim(o) ==
    LET j == closing[o].job
    IN  /\ closing[o].pc = "read"
        /\ \/ /\ Claim(j, o, TRUE)
              /\ closing' = [closing EXCEPT ![o].pc = "held", ![o].token = jobs'[j].token]
           \/ /\ ~CanClaim(j, TRUE)
              /\ closing' = [closing EXCEPT ![o] = NoClosing]
              /\ UNCHANGED jobs
        /\ UNCHANGED <<canaries, live, worldVars, logVars, paceVars, browser, clicks, dry, retired>>

\* The transaction: manifest, job and journal together, or nothing at all.
RetireCommit(o) ==
    LET j  == closing[o].job
        tk == closing[o].token
        writable == /\ locked[j]
                    /\ tk # 0 => /\ HoldsLease(j, tk)
                                 /\ RowAccepted(Finalized(j, "INELIGIBLE", "TERMINAL", TRUE))
    IN  /\ closing[o].pc = "held"
        /\ closing' = [closing EXCEPT ![o] = NoClosing]
        /\ \/ /\ writable
              /\ locked' = [locked EXCEPT ![j] = FALSE]
              /\ Finalize(j, tk, "INELIGIBLE", "TERMINAL", TRUE)
              /\ retired' = retired \cup {j}
           \/ /\ ~writable
              /\ UNCHANGED <<locked, jobs, retired>>
        /\ UNCHANGED <<canaries, live, killSwitch, logVars, paceVars, browser, clicks, dry>>

\* invalidateQueueUnderCurrentPolicy on one open job the policy refuses for
\* good, and parkJob of the autonomous worker: claim, then finalize.
ParkClaim(o, j) ==
    /\ closing[o].pc = "idle"
    /\ Claim(j, o, FALSE)
    /\ closing' = [closing EXCEPT ![o] =
                     [pc |-> "parking", job |-> j, token |-> jobs'[j].token]]
    /\ UNCHANGED <<canaries, live, worldVars, logVars, paceVars, browser, clicks, dry, retired>>

\* A refusal for good closes the job; only parkJob also knows refusals that
\* wait their turn.
ParkStatus(forGood) == IF forGood THEN "INELIGIBLE" ELSE "SKIPPED"
ParkSkip(forGood)   == IF forGood THEN "TERMINAL" ELSE "TEMPORARY"

ParkRaises(o, forGood) ==
    FinalizeRaises(closing[o].job, closing[o].token, ParkStatus(forGood), ParkSkip(forGood), forGood)

ParkFinalize(o, forGood) ==
    /\ closing[o].pc = "parking"
    /\ forGood \/ o \in Autonomous
    /\ closing' = [closing EXCEPT ![o] = NoClosing]
    /\ \/ Finalize(closing[o].job, closing[o].token, ParkStatus(forGood), ParkSkip(forGood), forGood)
       \/ ParkRaises(o, forGood) /\ UNCHANGED jobs
    /\ UNCHANGED <<canaries, live, worldVars, logVars, paceVars, browser, clicks, dry, retired>>

CloserCrash(o) ==
    /\ closing[o].pc # "idle"
    /\ closing' = [closing EXCEPT ![o] = NoClosing]
    /\ UNCHANGED <<queueVars, live, worldVars, logVars, paceVars, browser, clicks, dry, retired>>

-----------------------------------------------------------------------------
DryStep(d) ==
    \/ DryStart(d) \/ DryClaim(d) \/ DryGates(d) \/ DryOpen(d) \/ DryVisit(d)
    \/ DryRecord(d) \/ DryFinalize(d) \/ DryEnd(d)

CloserStep(o) ==
    \/ \E j \in Jobs : RetireRead(o, j) \/ ParkClaim(o, j)
    \/ \E forGood \in BOOLEAN : ParkFinalize(o, forGood)
    \/ RetireClaim(o) \/ RetireCommit(o) \/ CloserCrash(o)

LeaseRunsOut(j) ==
    /\ LeaseExpires(j)
    /\ UNCHANGED <<canaries, live, worldVars, paceVars, logVars, browser, clicks, dry, closing, retired>>

RailNext ==
    \/ /\ \/ \E w \in LiveWorkers : LiveStep(w)
          \/ OperatorStep
          \/ JobClock \/ CanaryClock \/ PaceClock
       /\ UNCHANGED <<dry, closing, retired>>
    \/ \E d \in DryWorkers : DryStep(d)
    \/ \E o \in Closers : CloserStep(o)

RailSpec == RailInit /\ [][RailNext]_railVars

\* Time passes, and somebody keeps running the dry rail; nothing is assumed of
\* the live processes, which may be dead.
FairRailSpec ==
    /\ RailSpec
    /\ \A j \in Jobs : WF_railVars(LeaseRunsOut(j))
    /\ \A d \in DryWorkers : WF_railVars(DryStep(d))

-----------------------------------------------------------------------------
(* Properties *)

\* Types of every variable of the rail.
TypeOK ==
    /\ QueueTypeOK
    /\ CanaryTypeOK
    /\ live \in [LiveWorkers -> Run]
    /\ locked \in [Jobs -> BOOLEAN]
    /\ killSwitch \in BOOLEAN
    /\ recent \subseteq Jobs
    /\ cooling \in BOOLEAN
    /\ browser \in Workers \cup {Nobody}
    /\ journal \in [Jobs -> SUBSET EffectOutcomes]
    /\ streak \in 0..MaxFailures
    /\ sent \subseteq Jobs
    /\ contacted \subseteq Jobs
    /\ clicks \in [Jobs -> Nat]
    /\ dry \in [DryWorkers -> DryRun]
    /\ closing \in [Closers -> Closing]
    /\ retired \subseteq Jobs

\* An attempted effect is never replayed: whatever leases expire, whichever
\* processes die or stall, "send" is clicked at most once for a manifest.
ClickedAtMostOnce == \A j \in Jobs : clicks[j] <= 1

\* Every click was announced and authorized before it happened: the durable
\* mark is on the row, and the mark names a permission for this very
\* manifest that is already spent.
ClickIsAuthorized ==
    \A j \in Jobs : clicks[j] > 0 =>
        /\ jobs[j].effect
        /\ \E c \in CanaryIds : /\ jobs[j].canary = c
                                /\ canaries[c].state = "CONSUMED"
                                /\ canaries[c].manifest = j

\* reserveExternalEffectSlot's promise: two workers that both read "one slot
\* left" before either reserved it cannot both pass the cap.
CapNeverExceeded == Cardinality(recent) <= EffectCap

\* The five records of one sending - the job, its journal, the prospect's
\* state, the outreach ledger, and the click itself - are written by four
\* statements of a process that may die or lose its lease between any two;
\* none of them ever says more than the ones written before it.
LedgersAgree ==
    \A j \in Jobs :
        /\ jobs[j].status = "SENT" => "SENT" \in journal[j]
        /\ "SENT" \in journal[j] => j \in contacted
        /\ j \in contacted => j \in sent
        /\ j \in sent => clicks[j] = 1

\* A permission that is over stays over: no late release by a run that lost
\* it to the sweep gives it back.
PermissionIsOneShot ==
    [][\A c \in CanaryIds :
          canaries[c].state \in {"CONSUMED", "EXPIRED", "REVOKED"} =>
              canaries'[c] = canaries[c]]_railVars

\* Where no process is killed, a run that is over keeps neither the browser
\* nor a reservation, whichever of its many exits it took.
NothingIsLeftHeld ==
    \A w \in LiveWorkers : At(w, "idle") =>
        /\ browser # w
        /\ \A c \in CanaryIds : ~(canaries[c].state = "RESERVED" /\ canaries[c].by = w)

\* The rail keeps the promise SendOnce states.
StoryOf(j) == [ announced |-> jobs[j].effect,
                contacts  |-> clicks[j],
                outcome   |-> IF jobs[j].status \in TerminalStatuses
                              THEN jobs[j].status
                              ELSE "none" ]

Promise == INSTANCE SendOnce WITH Intents <- Jobs, story <- [j \in Jobs |-> StoryOf(j)]

KeepsItsPromise == Promise!Spec

\* A claim is never for ever: whoever took it and died, its lease runs out
\* and the next run, dry or live, puts the job back or settles it.
EveryClaimEnds == \A j \in Jobs : jobs[j].status = "CLAIMED" ~> jobs[j].status # "CLAIMED"

-----------------------------------------------------------------------------
(* What the source's comments say, and the code does not do *)

\* queue.ts on the mark: a lease recovery reads it, "REVIEW_REQUIRED,
\* terminal, jamais rejoue" - so an attempted job is never open for a claim.
AttemptedIsNeverClaimable ==
    \A j \in Jobs : jobs[j].effect => jobs[j].status \notin ClaimableStatuses

\* manifestRetirement.ts: superseding the manifest would be enough alone, the
\* worker resolves it before any gesture - so nothing is clicked for a
\* manifest an operator has retired.
RetiredIsNeverClicked == \A j \in retired : clicks[j] = 0

\* safety.ts: "un rail qui echoue en boucle s'arrete, il n'insiste pas" - so
\* a tripped breaker is not reset by a process that has not even opened the
\* browser.
BreakerResetNeedsTheBrowser ==
    [][streak = MaxFailures /\ streak' = 0 =>
          browser # Nobody]_railVars
=============================================================================
