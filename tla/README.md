# Verification of the Hermes outreach rails

Hermes finds prospects, writes a first message, has it approved, and sends it
through the operator's own Instagram account or mailbox; it then reads what
comes back, answers, and books appointments. It is a single-operator program
(TypeScript, one PGlite or Postgres database) in which several *processes* -
CLI commands, worker loops and the web server - share tables, one browser
profile and one sending account. What makes it hard is not any one function:
it is that a message cannot be unsent, that a process may be killed between
any two statements, and that everything a process has read may have changed
when it acts on it.

This directory holds TLA+ models of the parts of the program that act on
the outside world or decide on what comes back from it, the TLC configurations
that check them, and proofs that TLAPS checks. Paths are relative to the root
of the repository (`src/` there).

## 1. Inventory

### The system's parts

| component | code | state it keeps | operations |
|---|---|---|---|
| dispatch queue | `lib/instagram/queue.ts`, migrations 0029, 0031, 0039 | `ig_dispatch_jobs`: status, claim token and lease, due time, skip class, effect mark | enqueue, claim, finalize, reserve the effect slot, recover expired leases |
| canary authorizations | `lib/instagram/canary.ts`, migrations 0031, 0034 | `ig_live_canary_authorizations` | arm, sweep, load, check, reserve, consume, release, revoke |
| live worker | `lib/instagram/liveWorker.ts` | local variables of one run; `ig_job_events`, `outreach_events`, prospect state | one sending, from the safety gates to the verdict |
| dry-run worker | `lib/instagram/worker.ts` | local variables of one run; `ig_job_events` | the same visit without a message |
| retirement, invalidation | `manifestRetirement.ts`, `queueInvalidation.ts` | `ig_manifest_retirements`, manifest status | close an intent for good |
| safety | `lib/instagram/safety.ts` | `ig_kill_switch`; everything else recomputed from the tables | snapshot, evaluate, set the switch |
| autonomous worker | `autonomousLiveWorker.ts` | the effects of the turn, in memory | turns: gate, pick, judge, park or arm and run; stop |
| first-touch activation | `firstTouchActivation.ts`, migration 0060 | `hermes_firsttouch_activations` | activate, revoke, count, assess the budget |
| browser lease | `browserProfileLease.ts`, `lib/fs/exclusiveFileLock.ts` | a lock file; a table of what the process holds | acquire, re-enter, reclaim, release |
| manifests | `lib/pipeline/r6bDispatch.ts` | `r6b_dispatch_manifests` | lock, supersede |
| scheduler, send control | `scheduler.ts`, `sendControl.ts` | none | windows, caps, next attempt |
| autonomous policy | `autonomousPolicy.ts`, `autonomousCandidate.ts` | the policy version | verdict on a prospect |
| browser rails | `playwright*.ts`, `deliveryProof.ts` | the page | navigate, type, click, prove |
| adjudication, controlled tests | `adjudication.ts`, `controlledTest.ts` | their own permissions and attempts | an operator-driven second rail |
| conversation plans | `lib/conversation/plan.ts`, migration 0049 | `hermes_conversation_plans` | record, claim, reserve the effect, finalize, recover expired leases |
| auto-reply | `lib/autoreply`, `lib/conversation/replyExecution.ts`, `preEffect.ts` | the activation; the effects' trace; local variables of one execution | select, assess, record, execute one plan, restart |
| conversation | the rest of `lib/conversation` | none | understanding, decision and wording |
| booking | `lib/booking`, migration 0062 | `hermes_appointments`, `hermes_booking_proposals` | one turn: read, decide, then offer, reserve, move or cancel |
| email | `lib/pipeline/r6bLiveDispatch.ts`, `r6bLiveEmail.ts`, migrations 0023, 0024 | `r6b_live_send_attempts` | claim, mark, post, file; reconcile, read back, replay |
| mail intake | `lib/inbound/intake.ts`, `gmailProvider.ts` | `r6b_inbound_checkpoints`, `r6b_inbound_messages` | one poll: cursor, list, store, advance |
| Instagram intake | `lib/inbound/instagramCollector.ts`, `instagramRuntime.ts` | the threads' frontier | read the threads of a page |
| replies | `lib/replies`, `lib/conversation/burst.ts` | analyses, reply state, watermark, exclusion list | one pass: absorb, analyse, exclude, decide; audit and repair |
| local CRM and synchronisation | `lib/crm` | a projection | project, push |
| database | `lib/db` | the write chain; the data-directory lock | serialise writes, migrate |
| discovery, enrichment, qualification, message | `lib/discovery`, `lib/enrichment`, `lib/pipeline`, `services/webintel` | their results | sequential pipelines |
| models, retries | `lib/models`, `lib/util/retry.ts` | none | external calls with back-off |
| user interface, command line | `src/app`, `src/cli` | none | shells over the functions above |

### How they interact

Everything meets in the tables. A live run (one call of
`runInstagramLiveCanary`) *claims* a job in the queue, *loads and reserves* a
canary authorization, takes the *browser lease*, walks to the composer, and in the
hook the rail calls just before the click it *consumes* the authorization and
*reserves the effect slot* - the durable mark that an effect is about to be
attempted. Then it clicks, judges what the page shows and writes five records
one after another: `outreach_events`, the prospect's state, `ig_job_events`,
and the job's final row (the click being the fifth, in the world). A dry run
shares the queue, the browser and the failure series. Retirement and
invalidation claim a job in order to close it. The autonomous worker arms its
own authorizations and calls the live worker.

The *email* path has the same shape with other means: one row per attempt, a mark
before the one request, and a provider that remembers an idempotency key for a
while. What comes back is stored by the *intake*, whose cursor decides what is ever
asked for; *replies* turn the stored messages into analyses, a state and an
exclusion; the *auto-reply* takes the active analysis of the last message, records
a *plan*, and executes it through the same browser, mark, click and trace as a first
contact; a turn of *booking* writes the agenda before the plan that tells of it.
These meet in the tables only, and each runs in processes of its own: what one has
read, another may be changing.

The database gives atomicity of a
statement and of a transaction, and its CHECK and UNIQUE constraints are part of
the protocol: some refusals exist nowhere else.

### What is hard

* *interleaving*: a lease may expire while its process is merely slow; the
  process goes on, on a job another has taken, finished or closed;
* *stale state*: what the gates read (budget, manifest, permission, safety) is
  used one browser session later;
* *crash and partial failure*: a run has some twenty exits, an exception may
  come from any statement, a process may die between any two;
* *liveness*: a job claimed by a dead process must come back;
* *bounds*: the caps are a count that several processes read and add to;
* *order*: messages are numbered by the hour they were received, not by the one they were
  read at; an answer of the provider, a late message and a repair arrive when they will;
* *a moving boundary*: what is older than a cursor is never looked at again.

`PROJECT.json` lists each of these at its line, with the properties that watch it.

### What correct means, per component

* queue: a job is held by one token at a time; a verdict is written only under the
  token it belongs to; an attempted job is settled once and never as ineligible;
* authorizations: one live at a time, spent once, never given back once over;
* live worker: at most one click per manifest, never before the mark and a spent
  permission; records that never say more than what happened; nothing left held;
* caps: never exceeded, by any number of processes;
* dry run, retirement, invalidation: never disturb the story of an attempted job;
* autonomous driver: no step the rail does not have; the budget is a total;
* lease: one holder; a dead holder is replaced;
* email: one email per manifest while the key is remembered; an unknown outcome frees nothing;
  SENT and the recorded contact go together;
* plans and auto-reply: one answer per message, and only to the last one; a plan that
  is over stays over; the register says what the trace says;
* booking: no slot given twice, nobody loses an appointment without asking;
* replies: the latest reply decides; a stop is final, and reaches the exclusion list;
* mail intake: no reply to a recorded sending falls behind the cursor.

## 2. Modules

```
RailParameters          identities
  DispatchQueue         ig_dispatch_jobs, one operator per statement
  CanaryAuthorization   ig_live_canary_authorizations, likewise
    LiveWorker          runInstagramLiveCanary, one action per statement
      DispatchRail      + dry runs, retirement, invalidation: the whole rail
        AutonomousRail  + the autonomous driver and the activation budget
BrowserLease            the lock file under the browser profile
EmailDispatch           the email path, its register and its provider
ConversationPlans       hermes_conversation_plans, one operator per statement
  AutoReply             the reply runtime and an operator on those plans
Booking                 the agenda and the turns that write it
Replies                 passes over the messages, the state, the exclusion
MailIntake              the polling of the reply mailbox

SendOnce                what a rail promises, for one intent: abstract;
                        implemented by DispatchRail, EmailDispatch and AutoReply

MC...                   instances for TLC, one per checked module

DispatchRail_proofs           types, Honest, the rail's safety, its promise
  AutonomousRail_proofs       the driver's steps are the rail's; its budget
BrowserLease_proofs  EmailDispatch_proofs  AutoReply_proofs
Booking_proofs       Replies_proofs        MailIntake_proofs
```

**SendOnce.** The abstract specification: per intent, announced, contacts 0 or
1, outcome. A contact is announced before it is made, made at most once, and what is
said of it is said once and is true.

### First contact

**DispatchQueue.** A job is named by its manifest: the UNIQUE constraint on
(manifest, action) and the one action `first_touch_dm` make them one identity.
`jobs[j]` is the row. `Claim`, `Finalize`, `MarkEffect`,
`RecoverExpiredLeases`, `Enqueue` are `claimNextInstagramJob`,
`finalizeInstagramJob`, the update of `reserveExternalEffectSlot`,
`recoverExpiredLeases`, `enqueueInstagramJob`. `RowAccepted` is the CHECK
constraints that relate two columns; a statement that would break one *raises*, and
the model has that branch. Note what `MarkEffect` does not read: neither the
token nor the status. Time is abstract: a lease is running or expired, a job due or not.

**CanaryAuthorization.** `canaries[c]`, numbered in arming order. `Arm` sweeps,
then inserts unless an effect was already attempted or the partial unique index
refuses. `Consume` is the last statement able to say no to a lapsed permission.

**LiveWorker.** `live[w]` holds the local variables of a run: `pc`, the job, the
claim token, the authorization, whether a reservation is held, whether the effect was
attempted, the verdict. One action per database statement, page visit or file
operation, in the order of the code:
`Begin`, `ResolveTarget`, `TakeLease`, `CheckCanary`, `OpenBrowser`, `PageRefuses`,
`ReservePermission`, `ComposerRefuses`, `EnterHook`, `SpendPermission`,
`ReserveSlot`, `Click`, `Judge`, `RecordSent`, `EnsureContacted`,
`RecordOutcome`, `FinalizeRun`, `CloseRun`; `Raise` is an exception (the `finally`
still runs), `Crash` the death of the process (it does not). Runs on the same job,
runs whose lease expired and runs that hold a permission swept in between are all
ordinary states.

**DispatchRail.** Dry runs (`DryStart` ... `DryEnd`), retirement
(`RetireRead`, `RetireClaim`, `RetireCommit`) and invalidation
(`ParkClaim`, `ParkFinalize`, also `parkJob` of the autonomous worker) beside
any number of live runs. The rail's properties are here; it implements `SendOnce` under
`StoryOf` (`KeepsItsPromise`).

**AutonomousRail.** The driver's loop around live runs: `TurnStarts`, `Gate`,
`Pick`, `JudgeJob`, `Park`, `ArmOwn`, `Start`, `Hook`, `Continue`, `Returns`,
`Stop`, `Throw`, `Killed`; the activation and its budget; the policy version as
"which approvals are of the current version".

**BrowserLease.** `acquireExclusiveFileLock` system call by system call. The rail
takes the lease as one atomic step; this module says what that is worth.

### Email

**EmailDispatch.** One manifest. `rows` is its attempts in `r6b_live_send_attempts`, with
the constraints of 0023 and 0024; `proc[p]` the variables of one command. A dispatcher goes
`Claim`, `MarkNetwork`, `Send`, `Receive`, `File`; a reconciliation `Reconcile`, then
`Retrieve` (read back by receipt) or a replay of the identical request under the same
key (`Send`, `Receive`, `JudgeReplay`), then `Confirm`. The provider is environment: a
request on its way may `Arrive`, be accepted, rejected or lost, and the key may be
forgotten (`Forget`). `WindowCloses`, `WriteReceipt`, `Supersede` and `Crash` happen at any
time. `EmailStory` maps it to `SendOnce`. The incident "stall", a request that outlives the
window it was decided in, is named apart. Nothing in `reconcileLiveAttempt` keeps a
reconciliation off an attempt its dispatcher is still at work on, and nothing in `Reconcile`
does: such a crossing may happen in every behaviour. The code does not keep all it says
through one (section 6), so the history variable `crossed`, which no step reads, records that one
has begun, and the properties that need none say so.

### Conversation

**ConversationPlans.** The plans of one prospect, named by the idempotency key: the message
and the analysis it was understood under. `RecordPlan` is `recordConversationPlan` with
what it supersedes; `RecordRaises` the case in which its INSERT meets
`hermes_plan_one_live_per_prospect_kind`; `ClaimPlan`, `ReserveEffect`, `FinalizePlan`,
`RecoverExpiredLeases` the other statements. `PlanAccepted` is the CHECKs of 0049.

**AutoReply.** `Select`, `Assess`, `RecordIntention` are the runtime's cycle, `Restart` the
supervisor's answer to an exception that left it; `Recover` the recovery of expired leases
that begins an execution, `Take` the claim; `Approach`, `Gate`, `Replay`, `Reserve`, `Click`,
`Judge`, `RecordEffect`, `Finish` are `executeConversationReply`, which the operator's
command runs too. `Gate` is the hook of `preEffect.ts`, the last look at the inbox;
between it and the click only the mark is written. The world: messages `Arrive` (with
"tie", at the hour of an earlier one), are analysed and re-analysed (`Analyse`,
`RetireAnalysis`), the prospect is closed, the activation revoked and armed again
(`Reactivate`), leases run out, processes die.

**Booking.** A turn of `processReply`: `Begin`, `Read` (`loadBookingSnapshot`), `Decide`
(`decideBookingTurn`), then `Offer`, `Cancel`, or `LookUp` and `Reserve` or `Reschedule`;
`AskAgain` is the second reading by key after a refusal, `Settle` the analysis that ends the
turn. `appts` is indexed by idempotency key - kind, message and slot -, so that a
replayed turn finds the row it wrote. `Refusals` is the constraints of 0062: no overlap among
confirmed rows, one confirmed per prospect. A message whose turn did not end is taken again.

**Replies.** One prospect, messages numbered by `received_at`. A pass (`StartPass`, or
`HandOver` by hand) takes messages one by one: `Take` (absorbed into a burst, or taken up),
`Persist` or `PersistRaises` or `ReadingFails`, `Suppress`, `Acknowledge`, `Intend`, `Write`,
`Note`. `AuditOrder`, `RepairOrder`, `NoteRepair` are `stateAudit.ts`, which folds the
replies anew.

**MailIntake.** `LoadCheckpoint`, `LoadSends`, `Probe`, `List`, `Invalidate`, `Store`,
`Advance`, `Touch`: one poll, over its own copy of the cursor, the addresses and the
mailbox's marker. `Reply` puts a letter in the mailbox before or after the SENT event of what
it answers (`Record`); `Tick` is midnight, the unit of the provider's `after:`.

### What the models abstract

Digests, handles and texts are functions of the manifest or the message and disappear into
it. What a page shows, what a model understands, what a policy or the schedule answers, are
free choices. Advisory locks and transactions are atomic steps. Read-only gates that may
refuse are merged with the gate beside them when no other process can tell the difference.
Uuids are fresh numbers. Pids are not given twice.

## 3. What the runs check

Run one with `tlc -config <cfg> <module>`. `PROJECT.json` lists, for every property
of a run, a mutation of one definition (the operators named
`X_Something`, each beside the definition `X` it would replace) under which TLC
finds that property violated.

| run | instance | question |
|---|---|---|
| `RailTwoLive` | 2 live runs, 1 job, 2 claims, 2 permissions, exceptions, deaths, re-locks, revocations | Types, lease coherence, at most one click, an authorized one, ledgers that agree, one-shot permissions, and the promise |
| `RailBeside` | 1 live run, 1 dry run, 1 closer, 1 job, previews, crashes, fair | The promise beside processes that never send; every claim ends |
| `RailLimits` | 2 live runs, 2 jobs, cap 1, exceptions, no death | The cap; nothing held when a run is over |
| `AutonomousBudget` | 1 runtime, 2 jobs, budgets up to 2, ceiling 1, crashes | The budget is a total; nothing armed behind a runtime that stopped |
| `AutonomousOnRail` | 1 runtime, 1 closer, 1 job, every incident | The driver's steps are the rail's |
| `LeaseReclaim` | 4 processes, 2 of them mortal, fair | One holder until a death; a dead holder is replaced |
| `EmailDispatch` | 2 dispatchers, 2 reconciliations, 2 attempts, 3 requests, crashes, crossings | SENT is true whatever crosses; up to a crossing: the promise, and FAILED frees only what was never emailed |
| `ReplyRail` | 1 runtime, 1 operator, 2 messages, 2 readings each, crashes, exceptions, closing | The promise; the trace; plans over stay over; a reply answers the last message |
| `ReplyClaims` | the same, 1 reading, withdrawn analyses, revocations, fair | Every claimed plan is let go |
| `Booking` | 2 processes, 2 prospects, 3 messages, 3 overlapping slots, 3 turns | No slot twice; nobody loses one; a replay is not refused by itself |
| `Replies` | 1 runtime, 1 operator, 2 messages, late arrivals, faults, a repair, fair | The latest reply decides; a stop is final, and is heard unless the reading that heard it was put out by one made on less |
| `MailIntake` | 2 prospects, 1 poll, 3 letters, 3 days, cap 1, failures | No reply to a recorded sending is lost; the marker hides none |

### Bounds, and why they are enough

* `MaxClaims` bounds `attempts`, hence claim tokens. Two claims of one job
  are what every hazard of a lease needs: a holder that outlived its lease and
  the process that came after it. With one live run and one dry run the second
  claim belongs to either.
* `MaxCanaries` bounds the permissions ever armed. Two give "the one it
  had and the one armed since" for one manifest; one is enough where permissions are
  not in question.
* `EffectCap` is the cap on attempts in the window. At 1 with two jobs,
  two workers meet at the last slot. The code's hourly and daily caps are counts of
  the same shape, so one stands for both; `PaceClock` lets attempts leave the window
  one at a time, which is more than any window allows.
* `MaxFailures` is the length at which the failure series trips; 1 makes
  it trip soonest. The series saturates there, as nothing reads beyond.
* `Incidents` names what may go wrong, in each module. A run leaves out those its question
  does not need: where nothing reads the kill switch after the start of a run, engaging it
  only removes starts, and `RailTwoLive` leaves it out.
* `TurnCeiling` and `MaxBudget` are the ceiling of a turn and the largest budget. A
  budget of 2 over turns of 1 takes two turns to spend, with crashes between.
* `MaxAttempts` of the lease is the code's own bound on acquisition attempts, 3 by default;
  `LeaseReclaim` takes 2 with two deaths, so that the bound is met.
  `MaxDepth` is the nesting of re-entrant leases.
* Email: two attempts, since the second is where a wrong FAILED of the first would show; three
  requests, so that one attempt is posted, replayed and replayed again, or both are posted and one of
  them is replayed, which is what a crossing needs; `MaxReplay` 2 is the code's
  loop met once. Requests beyond are in the proof.
* Replies to messages: two messages are "the one answered and the one that came since"; two
  readings are the plan and what supersedes it. `Budget` 2 lets both be answered.
* Booking: slots 1, 2, 3 of duration 2, so that the middle one overlaps both neighbours and
  the outer two are compatible; three turns are a booking, what another does to it, and the
  replay. `MaxOffered` 1 makes an offer unambiguous.
* Replies: two messages received one after the other, collected in either order; one fault and one
  intervention by hand, anywhere. `Gap` and the hours of `Clocks` make them one burst.
* Mail: three letters from two prospects under a cap of 1 - one stored, one cut, one that moves
  the mailbox; three days with an overlap of 1, so that the cursor leaves the first day behind.
  Two polls at once were checked on smaller stories (2 prospects and 2 letters, 9.5 million
  states; 1 prospect and 3 letters, 0.8 million) and are in the proof.

Processes, jobs, prospects and messages that nothing orders are interchangeable: the runs that
check safety alone use symmetry over them; those with liveness use none.

The runs say `CHECK_DEADLOCK FALSE`, `LeaseReclaim` excepted: once every claim, permission,
letter or turn of the bounds is used and all is settled nothing is left to do, and in the
code an empty queue is a normal end.

### Fairness

`FairRailSpec` assumes two things only. Time passes: a running lease expires
(`WF` on `LeaseRunsOut`). Somebody keeps running the dry rail: `runInstagramDryRun`
is what the operator's loop calls, and its processes take a next step when they
have one (`WF` on `DryStep`). Of live runs, closers and the operator nothing is
assumed: they may be dead, or never come. That is the point of `EveryClaimEnds`: the
recovery must be somebody else's work.

`FairLeaseSpec` assumes that the operating system runs every living process
(`WF` on `Progress`), and that every holder lets go in the end (`SF` on the last
`Release`): each layer that takes the lease gives it back in a `finally`. It is
strong fairness because a holder may re-enter and leave for as long as it likes.
Nobody has to die, and nobody has to ask.

`FairReplySpec` assumes that leases run out and that the processes, the operator's command
among them, are run and run again (`WF` on `WorkerStep`): expired leases are recovered at the
start of an execution only, which a runtime reaches when it has a plan to execute and the
command whenever it is run; without the command a plan claimed by a dead runtime may stay claimed.

`FairRepliesSpec` assumes that the inbound runtime goes on (`WF` on `Process` of each
runtime): its loop runs a pass at every tick. Messages need not come, the model's reading may
fail while the fault bound lasts, and operators need not do anything.

`FairMailSpec` is used for one refutation only (section 6).

## 4. What is proved

TLAPS checks every step, for any number of jobs, messages, permissions and
processes and any value of the bounds.

| module | theorem | states |
|---|---|---|
| `DispatchRail_proofs` | `RailTypes`, `LeaseCoherentTheorem` | `TypeOK`; the lease columns are set together, while the job is claimed |
| | `PermissionIsOneShotTheorem`, `CapNeverExceededTheorem` | a permission that is over stays over; the cap |
| | `HonestTheorem` | the inductive invariant `Honest` |
| | `ClickedAtMostOnceTheorem`, `ClickIsAuthorizedTheorem`, `LedgersAgreeTheorem` | its consequences |
| | `NothingIsLeftHeldTheorem` | without "crash": a run that is over holds nothing |
| | `KeepsItsPromiseTheorem` | the rail implements `SendOnce` |
| `AutonomousRail_proofs` | `DriverStaysOnTheRailTheorem`, `AutonomousClicksOnceTheorem` | `AutonomousSpec => RailSpec`, hence the rail's guarantees |
| | `AutonomousTypeCorrect` | `AutonomousTypeOK`, for any number of runtimes |
| | `BudgetOverrun` | N runtimes exceed a budget by at most N - 1 |
| | `BudgetKept` | one runtime never exceeds it (`BudgetIsATotal`) |
| | `NothingArmed` | without "raise": one runtime that stopped leaves none of its permissions armed |
| `BrowserLease_proofs` | `LeaseTypes`, `OneHolderTheorem`, `FileNamesItsHolderTheorem` | types; one holder, named by the file, until a death |
| `EmailDispatch_proofs` | `EmailTypeCorrect`, `FreedIsSafe`, `SentIsTrue`, `OneEmail`, `EmailPromise` | the first three for every behaviour, the rest without "stall"; of `AtMostOneEmail`, what holds up to a crossing |
| `AutoReply_proofs` | `ReplyTypeCorrect`, `TraceBearsOut`, `ClosedStays`, `ReplyPromise` | types and one live plan; register and trace; terminal is terminal; `SendOnce` |
| | `NothingLater`, `AnswersTheLast` | nothing later than the message answered is in the inbox; without "tie", it is the last |
| `Booking_proofs` | `BookingTypeCorrect` | no overlap, one confirmed appointment per prospect |
| | `ReportMoves`, `NobodyLoses`, `NotRefusedItself` | the run's three action properties |
| `Replies_proofs` | `RepliesTypeCorrect`, `ExclusionFirst`, `LaterDecides`, `StopStays` | the run's safety properties |
| `MailIntake_proofs` | `MailTypeCorrect`, `NothingLost`, `MarkerIsSafe` | types; the run's two invariants |

**Assumptions.** Those the modules declare, all about constants: who belongs to which set
of processes, that bounds and caps are naturals, that `Nobody` names nobody.
TLC evaluates them on every run. `CapNeverExceeded` does not need
`Jobs` to be finite: a set of attempts that starts empty and grows by one is.
Where a theorem needs more, it is a hypothesis of its own and written in the table: that
an incident does not happen, or - for the activation - which live runs there are. Each
such hypothesis is needed: what breaks without it is said below or in section 6.

### The rail

`TypeOK` alone is not inductive: a run at the statement after its claim
writes into the row of *its job*, and only `RunsKnow` says that a run past its start
has one, and a permission in hand from the check on. `Typed` is the two together.
The proof first sorts every action into what it does to the queue (`QueueStep`) and to
the permissions (`CanaryStep`), so that each kind of step is examined once
and not once per action.

That nothing is clicked twice rests on what a run may still
conclude from its own history while every row it has read may have been rewritten.
`Honest` has four parts:

* `RowIsHonest`: the CHECK constraints hold of every row; an attempted row
  names a permission that is spent and was its own manifest's; a click implies
  the mark; a row filed for review was attempted, and one filed as a failed delivery
  was clicked;
* `RunIsHonest`: for each statement a run may be at, what it established before
  and nobody can undo - after `SpendPermission`, that its permission is consumed and its
  manifest's; after `ReserveSlot`, that the mark is on the row and no click has
  happened; after `Click`, that exactly one has; and, at the verdict, the ledgers it
  has already written;
* `OneAtTheButton`: of all the runs on a job, at most one is between the mark
  and the click;
* the `LedgersAgree` conjuncts.

The lemma that carries it is `RowStep`: whatever step is taken, a row changes in one
of a few ways, and none of them takes back a mark or rewrites a settled attempt. So
what a run learnt stays true - although neither the lease nor the permission it read
is still its own. Each conjunct is then kept action by action.

*Nothing left held.* `NothingForgotten` relates what the tables and the browser say of a run
to what the run remembers: who holds the browser is not idle; a reservation in a run's name is
the one in its variables, for its job, and it remembers it (`Remembers`) at every
statement from which an exit leads - the exits then release exactly that one. A death
forgets, so the theorem is about deployments without "crash".

*The promise.* Each step maps under `StoryOf` to `Announce`
(`ReserveSlot`), `Contact` (`Click`), `Settle` (a terminal status is written) or to nothing. A
settled row is never rewritten because the one statement that could, the final write
of a run that lost its lease, is guarded by a token no settled row has.

### The driver

`AutonomousRail` adds variables and restricts when its workers
start; every action is shown to be an `OperatorStep`, a `CloserStep`, a `LiveStep` or a
stutter of the rail. What needs an invariant is only that a driver between pick and run
has a job in hand (`DriverTyped`). The interesting case is `Hook`: the gates the driver
re-reads in the last second only add a way to fail, which the rail has anyway.

*The budget.* A runtime reads the count at the head of its turn and spends one browser session
later; nothing is re-counted in between. `DriverInv` says where a runtime is in its loop
(`AutoKnows`), and `Engaged` when it has passed the reading and not yet attempted or given up.
`WithinBudget` is then inductive: the attempts since the activation, plus the engaged runtimes,
stay below the budget plus the number of runtimes. A runtime becomes engaged only when the
attempts are below the budget and ceases to be when it attempts. So N runtimes
pass the budget by N - 1 at most, and one never does. The hypothesis `LiveWorkers = Autonomous`
is needed because a live run an operator starts counts too and reads no budget.

*What stays armed.* `LeavesNothing`: a runtime that is off has left no `ARMED` permission but a
human's; it parks a job nobody attempted, so that its parking never raises (`ParksWell`), which
is where another runtime would break it. With "raise" it is false (section 6).

### Email

The invariant has three layers, each with what it needs and no more.

`Always` holds in every behaviour, whatever crosses and stalls: the types, attempts inserted in
order (`RowsInOrder`), what the local variables of a process vouch for (`ProcessesOK`: an answer
in hand, a receipt read back, come with an email that exists), what the provider knows (`KeyOK`), and
`SentOnce`: SENT on one attempt at most, never without the one event. `SentIsTrue` and
`EmailTypeCorrect` have no hypothesis.

`Uncrossed` holds until a reconciliation is begun on an attended attempt (`crossed \/ Uncrossed`): who may
be at work (`DispatchersOK`: one dispatcher at a time, on the live attempt, marked before it posts;
`ReconcilersOK`: on a marked attempt nobody attends), `FirstRequest` (before the first answer
nothing was made), `NothingLive` and `Recorded` (a FAILED row leaves no email and no request; an event
has its SENT). From it, `FreedIsSafe` and the last part of `SentIsTrue`, also with "stall".

`Windowed` holds as long, and under `NoStall`, that "stall" does not happen: a replay is made
inside its window (`ReplaysOpen`), and an open window means the key is not forgotten once an
email exists (`WindowOK`). `OneEmail` follows: a second email needs a forgotten key, hence closed
windows, hence no request under way, and a row that is not FAILED keeps the next dispatcher out.
`EmailPromise` is its refinement: `EmailKeepsItsPromise` lets go of `SendOnce` at the first crossing, for
what follows may be the second email of section 6.

### Replies and agenda

*AutoReply.* One plan is live at a time (a unique index), and once a plan of a message bears the
mark, no other plan of that message is live or will be (`MarkedAlone`): recording refuses,
because the idempotent replay of `recordConversationPlan` reads the marks. So the worker that sets
the mark is alone in answering that message, from there to the verdict - even after
its lease ran out and its plan was closed by another - and what it goes by stays true. The
register is written after the trace and says the same. `LiveIsFresh` (a live plan's watermark is its own
message's hour) gives `NothingLater` at the gate; that the answered message is *the* last one
needs hours to differ.

*Booking.* A turn knows only an aged snapshot, and the theorems do not rest on it. `TurnOK`: a turn
writes for the prospect of its message and for no other, so every row it cancels is that
prospect's. `AgendaOK`: the row inserted is confronted with all confirmed ones in the step that
inserts it, by the exclusion constraint. So what the snapshot missed costs a refusal, never a slot.

*Replies.* `WorkerOK` keeps, for each statement of a pass, what stands: from the exclusion on, an
unsubscription has the address excluded; a target of SUPPRESSED is written only after it. The
watermark only grows, and the statement that moves the state compares with it in the
same transaction. `AuditOK` is the same for the repair, which never targets SUPPRESSED.

*MailIntake.* The cursor moves to the newest letter of a *whole* list. A letter missing from the
database at that moment was received since the poll was born, or the list would have had it;
and a poll ends within the overlap of its birth, so such a letter is not behind the cursor less
the overlap, from which the next poll lists. `PollOK` says what a poll under way has still to answer for, `CursorOK`
what the cursor says. That a poll fits in the overlap (`QUERY_OVERLAP_MS`, one day; a poll takes minutes)
is an assumption on time, in the guard of `Tick`. `MarkerIsSafe` needs that a stored marker was read
after the sendings' letters it covers, for letters whose sending was recorded when they came.

Each inductive invariant was checked by TLC, as an invariant of the corresponding runs,
before it was proved.

## 5. What is only model-checked

* `EveryClaimEnds`, `DeadHolderIsReplaced`, `EveryPlanIsLetGo`, `StopIsHeardUnlessPutBack`: liveness under
  fairness is out of the prover's reach.
* Everything else the runs check is proved, at the hypotheses of section 4. No proof
  rests on induction over data; the only least element used (of the dates of sendings) comes from
  the well-foundedness of the naturals.

## 6. Where the code and its comments disagree

`PROJECT.json` quotes both sides of each. The modules define the refuted properties after
the others; TLC refutes each on the instance named, which is a configuration of section 3
with that property in the place of its own.

| property | instance | what happens |
|---|---|---|
| `AttemptedIsNeverClaimable` | `RailBeside`, `RailSpec` | `reserveExternalEffectSlot` marks a row by its id and the absence of the mark; a run that outlived its lease marks a job that is back in the queue. It is never sent twice (proved), but a dry run claims it again, and it is not filed for review as the comment says |
| `RetiredIsNeverClicked` | `RailBeside`, `RailSpec` | a manifest retired while a run that resolved it before is on its way is contacted all the same |
| `BreakerResetNeedsTheBrowser` | `RailBeside`, `RailSpec` | the breaker of the failure series is reset by the refusal it causes |
| `NothingArmedAfterTheRuntime` | `AutonomousBudget`, `Incidents = {"raise"}` | the revocation of what the machine left armed is after the `finally`, not in it |
| `OneHolder` | `LeaseReclaim`, `LeaseSpec` | two processes that judge the same dead holder's file both unlink; the second removes the first one's lock |
| `AtMostOneEmail` | `EmailDispatch`; also by "stall" | a reconciliation makes the email while the dispatcher it did not wait for files FAILED; or a replay is posted after the key was forgotten |
| `RecordedMeansSent` | `EmailDispatch` | the same crossing: the dispatcher files FAILED, `confirmSent` updates no row and inserts the sent event all the same: a contact recorded, no attempt SENT, and the manifest free again (which is why `FreedMeansNoEmail` is up to a crossing) |
| `CycleEndsInAResult` | `ReplyRail` | a plan left CLAIMED with its mark by a dead process makes every cycle raise once the prospect writes again |
| `AttemptedNeverWaits` | `ReplyRail` | an exception after the click puts an attempted plan back among the claimable |
| `AnswersTheLastMessage` | `ReplyRail`, `Incidents = {"tie"}` | of two messages at one hour, the one whose hour is compared with itself passes |
| `BookedIsBooked` | `Booking`, one process, one prospect, two messages | a replayed turn says BOOKED of an appointment cancelled meanwhile |
| `ReportNeverRefusedItsOwn` | `Booking`, one prospect, two messages | the second of two replays of one report is refused because the first was done |
| `EveryStopIsHeard` | `Replies` | a stop is lost for good: a pass that opened the burst before the stop came supersedes the UNSUBSCRIBE whose pass died before the exclusion, and every later pass raises `AnalysisHistoryConflict`. `StopIsHeardUnlessPutBack` shows it is the only way |
| `StateCatchesUp` | `Replies` | a stop processed after a later reply no longer moves the state (the exclusion stands) |
| `WaitingReplacesNothing` | `Replies` | REPLIED is written over a conclusion another pass has just drawn |
| `NoReplyIsEverLost` | `MailIntake` | a reply received before its SENT event was written falls behind a cursor others have moved |
| `UnchangedMeansRead` | `MailIntake` | the marker is read after the sendings; what comes between is taken for read |
| `RelaunchReadsTheRest` | `MailIntake`, `FairMailSpec`, `MayFail = FALSE` | every relaunch lists from the same date under the same cap |

Seen while modelling, and not stated as properties:

* a human's permission armed between the driver's look and the run's load is spent by the
  machine; an activation's policy version is stored and never compared; a permission may be
  spent and the slot then refused, which costs the permission and nothing else;
* two autonomous runtimes, or one and an operator, can pass the budget together: nothing in
  `ig-autonomous-worker.ts` refuses a second one (`BudgetOverrun` bounds what runtimes do);
* when two messages tie, the one the identifier does not designate is never answered
  (`preEffect.ts:401-402`);
* the reply runtimes alone may never recover an expired plan lease;
* a pass over more than `downstreamLimit` unread messages starts from the same ones each time;
* a repair of the order writes over the state a pass wrote between its audit and its write.

## 7. What is not modelled

* What is inside a text, a page, a model's answer or a policy's verdict: free choices of
  the environment.
* Other sources of the caps: controlled tests and automatic replies count in the
  same window as first contacts. The rail's model has first contacts only; in `AutoReply` a cap is
  one of the refusals `Reserve` may meet.
* The wall clock: leases, schedules and permissions expire at any moment after they
  begin, which is more than the clock allows; a bound on delays cannot be concluded. The
  exceptions are the windows of section 4: a request inside its key's, a poll inside its overlap.
* Pid reuse and a lock file on a file system shared between hosts.
* Reading Instagram threads through a page (`instagramCollector.ts`): what it skips is decided by
  the hour of our last outreach event, which is the hour it was recorded, and its two
  fingerprints of one message may make two rows. It is the next component to model.
* Drafts, alerts and the CRM projection a reply pass writes at its end; the journal of
  booking events.
* The scheduler's arithmetic, the policy behind a verdict, adjudication and controlled tests (a
  second rail with the canary's life cycle), the CRM, drivers and migrations, discovery,
  qualification, models and the user interface, each with its reason in `PROJECT.json`.

## 8. Plan

1. *Instagram intake.* Threads, frontier, what the collector skips, fingerprints; its own
   "no reply is lost".
2. *Adjudication and controlled tests* on the permission life cycle, sharing the effect slot with
   first contacts and replies: one cap over three sources.
3. *Pure algorithms.* The scheduler's windows and caps, the retry delays,
   against reference definitions.
4. *Theorems.* What is left of the email promise after a crossing, short of a forgotten
   key; a bound on what operators and runtimes spend together; the reply rail's live
   plans with a cap shared between sources; the composition of `BrowserLease` with the rail, whose
   lease is one atomic step today.
