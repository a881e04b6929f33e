--------------------------- MODULE EmailDispatch ---------------------------
(***************************************************************************)
(* The one path of a real email (lib/pipeline/r6bLiveDispatch.ts,          *)
(* r6bLiveEmail.ts, migrations 0023 and 0024), for the one manifest that   *)
(* is armed: a dispatcher claims, marks the network, posts once and files  *)
(* the answer; a reconciliation reads back or replays the same request     *)
(* under the same key.  Any number of both run as processes of their own,  *)
(* one step per statement or call; the provider answers in its own time.   *)
(* Nothing keeps a reconciliation off an attempt a dispatcher is still at  *)
(* work on: what such a crossing costs is said under Properties.           *)
(***************************************************************************)
EXTENDS Naturals

CONSTANTS
    Dispatchers, Reconcilers,  \* processes running one command or the other
    MaxRows,                   \* bound: attempts of the manifest
    MaxPosts,                  \* bound: requests made of the provider
    MaxReplay,                 \* maxReplayAttempts
    Incidents                  \* which of "crash", "stall" happen

ASSUME EmailAssumption ==
    /\ Dispatchers \cap Reconcilers = {}
    /\ MaxRows \in Nat /\ MaxPosts \in Nat /\ MaxReplay \in Nat \ {0}

VARIABLES
    locked,     \* the manifest is LOCKED
    rows,       \* r6b_live_send_attempts
    sentEvents, \* outreach_events of kind 'sent' of this manifest
    proc,       \* the local state of each process
    posts,      \* the requests made of the provider, in order
    emails,     \* emails the provider has created
    key,        \* what the provider remembers of the idempotency key
    crossed     \* history: a reconciliation was begun on an attempt whose
                \* dispatcher was still at work; no step reads it

tableVars    == <<locked, rows, sentEvents>>
providerVars == <<posts, emails, key>>
emailVars    == <<locked, rows, sentEvents, proc, posts, emails, key, crossed>>

Procs   == Dispatchers \cup Reconcilers
RowIds  == 1..MaxRows
PostIds == 1..MaxPosts

\* `status` is "NONE" before the row is inserted; `open` is the provider's
\* idempotency window as the row dates it; `receipt` is provider_message_id.
Row == [ status  : {"NONE", "CLAIMED", "SENT", "AMBIGUOUS", "FAILED"},
         network : BOOLEAN, receipt : BOOLEAN, open : BOOLEAN ]

NoRow == [status |-> "NONE", network |-> FALSE, receipt |-> FALSE, open |-> FALSE]

\* The CHECK constraints of 0023: what each status says of the row.
RowAccepted(r) ==
    /\ r.status = "CLAIMED"   => ~r.receipt
    /\ r.status = "SENT"      => r.network /\ r.receipt
    /\ r.status = "AMBIGUOUS" => r.network
    /\ r.status = "FAILED"    => r.network /\ ~r.receipt

\* A request: on its way, being processed, or answered.  "same" is the
\* original answer given again, "concurrent" the 409 of a key being processed.
Post == {"unmade", "flying", "processing", "created", "same", "concurrent", "rejected", "lost"}

Answered == {"created", "same", "concurrent", "rejected", "lost"}

Outcome == {"none", "SENT", "AMBIGUOUS", "CONCURRENT", "FAILED"}

Process == [ pc      : {"idle", "claimed", "marked", "waiting", "answered",
                        "retrieving", "replaying", "confirming"},
             row     : 0..MaxRows,  \* the attempt it made, or found open
             post    : 0..MaxPosts, \* its request
             tries   : 0..MaxReplay,
             outcome : Outcome ]

Idle == [pc |-> "idle", row |-> 0, post |-> 0, tries |-> 0, outcome |-> "none"]

EmailInit ==
    /\ locked = TRUE
    /\ rows = [a \in RowIds |-> NoRow]
    /\ sentEvents = 0
    /\ proc = [p \in Procs |-> Idle]
    /\ posts = [n \in PostIds |-> "unmade"]
    /\ emails = 0
    /\ key = "free"
    /\ crossed = FALSE

In(p, step) == proc[p].pc = step
Stops(p) == proc' = [proc EXCEPT ![p] = Idle]

Has(status) == \E a \in RowIds : rows[a].status = status
Unsettled == {a \in RowIds : rows[a].status \in {"CLAIMED", "AMBIGUOUS"}}

-----------------------------------------------------------------------------
(* dispatchManifestLive *)

\* Row a is the next one, and no row of the manifest is other than FAILED:
\* the reads of claimLiveAttempt, and the partial unique index beneath them.
Available(a) ==
    /\ rows[a].status = "NONE"
    /\ \A b \in RowIds : b < a => rows[b].status = "FAILED"

\* claimLiveAttempt, behind the gate and the validations of the manifest,
\* which it repeats under a lock.
Claim(p, a) ==
    /\ In(p, "idle")
    /\ locked
    /\ Available(a)
    /\ rows' = [rows EXCEPT ![a] = [NoRow EXCEPT !.status = "CLAIMED", !.open = TRUE]]
    /\ proc' = [proc EXCEPT ![p] = [Idle EXCEPT !.pc = "claimed", !.row = a]]
    /\ UNCHANGED <<locked, sentEvents, providerVars, crossed>>

\* markNetworkAttempted.
MarkNetwork(p) ==
    /\ In(p, "claimed")
    /\ rows' = [rows EXCEPT ![proc[p].row].network =
                    @ \/ rows[proc[p].row].status = "CLAIMED"]
    /\ proc' = [proc EXCEPT ![p].pc = "marked"]
    /\ UNCHANGED <<locked, sentEvents, providerVars, crossed>>

\* ResendProvider.send: one POST, never retried, always under the same key.
\* A replay is a POST like any other.
Send(p) ==
    /\ In(p, "marked") \/ In(p, "replaying")
    /\ \E n \in PostIds :
         /\ posts[n] = "unmade"
         /\ \A m \in 1..(n - 1) : posts[m] # "unmade"
         /\ posts' = [posts EXCEPT ![n] = "flying"]
         /\ proc' = [proc EXCEPT ![p].pc = "waiting", ![p].post = n,
                                 ![p].tries = IF In(p, "replaying") THEN @ + 1 ELSE @]
    /\ UNCHANGED <<tableVars, emails, key, crossed>>

\* Mutated: an answer that never came is filed as a refusal.
Classified_SilenceIsFailed(answer) ==
    CASE answer \in {"created", "same"} -> {"SENT", "AMBIGUOUS"}
      [] answer = "concurrent"          -> {"CONCURRENT"}
      [] OTHER                          -> {"FAILED"}

\* classifySendResult.  A 2xx may come without an id; no answer, a 5xx and an
\* unknown status are ambiguous whatever became of the request.
Classified(answer) ==
    CASE answer \in {"created", "same"} -> {"SENT", "AMBIGUOUS"}
      [] answer = "rejected"            -> {"FAILED"}
      [] answer = "concurrent"          -> {"CONCURRENT"}
      [] OTHER                          -> {"AMBIGUOUS"}

\* The answer arrives, or the client gives up on a request that may still be
\* on its way, or be processed already.
Receive(p) ==
    /\ In(p, "waiting")
    /\ \E answer \in {posts[proc[p].post], "lost"} \cap Answered :
         \E outcome \in Classified(answer) :
           proc' = [proc EXCEPT ![p].outcome = outcome, ![p].pc = "answered"]
    /\ UNCHANGED <<tableVars, providerVars, crossed>>

Status(outcome) == IF outcome = "CONCURRENT" THEN "AMBIGUOUS" ELSE outcome

\* Mutated: the receipt is left to a human.
Filed_NoReceipt(row, outcome) == [row EXCEPT !.status = Status(outcome)]

\* The row once `outcome` is written to it.
Filed(row, outcome) ==
    [row EXCEPT !.status = Status(outcome), !.receipt = (outcome = "SENT")]

\* finalizeOutcome, one transaction: the row if it is still CLAIMED, and on
\* success the event, which the unique index allows once.  A refusal of either
\* rolls everything back and ends the command.
File(p) ==
    /\ p \in Dispatchers /\ In(p, "answered")
    /\ LET a == proc[p].row
           new == IF rows[a].status = "CLAIMED" THEN Filed(rows[a], proc[p].outcome) ELSE rows[a]
           event == IF proc[p].outcome = "SENT" THEN 1 ELSE 0
       IN  IF RowAccepted(new) /\ sentEvents + event <= 1
           THEN rows' = [rows EXCEPT ![a] = new] /\ sentEvents' = sentEvents + event
           ELSE UNCHANGED <<rows, sentEvents>>
    /\ Stops(p)
    /\ UNCHANGED <<locked, providerVars, crossed>>

-----------------------------------------------------------------------------
(* reconcileLiveAttempt *)

\* A process still at work on the attempt it made.
Attended(a) ==
    \E p \in Dispatchers : proc[p].row = a /\ proc[p].pc \in {"claimed", "marked", "waiting", "answered"}

\* Mutated: the window of the key is not looked at.
MayReplay_Always(a) == ~rows[a].receipt

MayReplay(a) == ~rows[a].receipt /\ rows[a].open

\* The attempts are read; what is found open and marked is read back by its
\* identifier if it has one, and replayed within the window if the operator
\* asks for it.  Every other outcome is a sentence for a human.
Reconcile(p) ==
    /\ In(p, "idle")
    /\ locked
    /\ ~Has("SENT")
    /\ \E a \in Unsettled :
         /\ rows[a].network
         /\ crossed' = (crossed \/ Attended(a))
         /\ \/ rows[a].receipt
               /\ proc' = [proc EXCEPT ![p] = [Idle EXCEPT !.pc = "retrieving", !.row = a]]
            \/ MayReplay(a)
               /\ proc' = [proc EXCEPT ![p] = [Idle EXCEPT !.pc = "replaying", !.row = a]]
    /\ UNCHANGED <<tableVars, providerVars>>

\* GET /emails/{id}: known and addressed to the recipient, or not.
Retrieve(p) ==
    /\ In(p, "retrieving")
    /\ \/ emails > 0 /\ proc' = [proc EXCEPT ![p].pc = "confirming"]
       \/ Stops(p)
    /\ UNCHANGED <<tableVars, providerVars, crossed>>

\* The end of one turn of replayIdenticalRequest: only a request still being
\* processed is waited for and asked again.
JudgeReplay(p) ==
    /\ p \in Reconcilers /\ In(p, "answered")
    /\ \/ /\ proc[p].outcome = "SENT"
          /\ proc' = [proc EXCEPT ![p].pc = "confirming"]
       \/ /\ proc[p].outcome = "CONCURRENT" /\ proc[p].tries < MaxReplay
          /\ proc' = [proc EXCEPT ![p].pc = "replaying", ![p].outcome = "none"]
       \/ /\ \/ proc[p].outcome \in {"AMBIGUOUS", "FAILED"}
             \/ proc[p].outcome = "CONCURRENT" /\ proc[p].tries = MaxReplay
          /\ Stops(p)
    /\ UNCHANGED <<tableVars, providerVars, crossed>>

\* Mutated: a confirmation writes the event whether or not there is one.
EventAllowed_Always == TRUE

EventAllowed == sentEvents = 0

\* confirmSent, one transaction, on the row as it is by then.
Confirm(p) ==
    /\ In(p, "confirming")
    /\ IF EventAllowed
       THEN /\ sentEvents' = sentEvents + 1
            /\ rows' = [rows EXCEPT ![proc[p].row] =
                   IF @.status \in {"CLAIMED", "AMBIGUOUS"} THEN Filed(@, "SENT") ELSE @]
       ELSE UNCHANGED <<rows, sentEvents>>
    /\ Stops(p)
    /\ UNCHANGED <<locked, providerVars, crossed>>

-----------------------------------------------------------------------------
(* The provider, external *)

InProgress(n) == posts[n] \in {"flying", "processing"}

\* A request arrives: a known key gets its first answer again, a key being
\* processed a conflict, an unknown one is processed.
Arrive(n) ==
    /\ posts[n] = "flying"
    /\ posts' = [posts EXCEPT ![n] = CASE key = "kept" -> "same"
                                       [] key = "busy" -> "concurrent"
                                       [] OTHER        -> "processing"]
    /\ key' = IF key = "free" THEN "busy" ELSE key
    /\ UNCHANGED <<tableVars, proc, emails, crossed>>

Accept(n) ==
    /\ posts[n] = "processing"
    /\ posts' = [posts EXCEPT ![n] = "created"]
    /\ emails' = emails + 1
    /\ key' = "kept"
    /\ UNCHANGED <<tableVars, proc, crossed>>

Reject(n) ==
    /\ posts[n] = "processing"
    /\ posts' = [posts EXCEPT ![n] = "rejected"]
    /\ key' = "free"
    /\ UNCHANGED <<tableVars, proc, emails, crossed>>

Lose(n) ==
    /\ posts[n] = "flying"
    /\ posts' = [posts EXCEPT ![n] = "lost"]
    /\ UNCHANGED <<tableVars, proc, emails, key, crossed>>

\* The provider's 24 hours start at a request made under an attempt, after
\* the attempt's own: they end after the windows of all attempts made.
Forget ==
    /\ key = "kept"
    /\ \A a \in RowIds : ~rows[a].open
    /\ key' = "free"
    /\ UNCHANGED <<tableVars, proc, posts, emails, crossed>>

-----------------------------------------------------------------------------
(* Time, operators and crashes *)

\* Nothing is between a reading of the window and the end of what follows.
Quiet ==
    /\ \A n \in PostIds : ~InProgress(n)
    /\ \A p \in Dispatchers : ~In(p, "marked")
    /\ \A p \in Reconcilers : proc[p].pc \notin {"replaying", "waiting", "answered"}

\* The window of an attempt ends.  Requests take less than the window has
\* left, unless one stalls.
WindowCloses(a) ==
    /\ rows[a].open
    /\ Quiet \/ "stall" \in Incidents
    /\ rows' = [rows EXCEPT ![a].open = FALSE]
    /\ UNCHANGED <<locked, sentEvents, proc, providerVars, crossed>>

\* A human has found the email and written its identifier on the attempt;
\* a CLAIMED row refuses it.
WriteReceipt(a) ==
    /\ rows[a].status = "AMBIGUOUS"
    /\ emails > 0
    /\ rows' = [rows EXCEPT ![a].receipt = TRUE]
    /\ UNCHANGED <<locked, sentEvents, proc, providerVars, crossed>>

Supersede ==
    /\ locked
    /\ locked' = FALSE
    /\ UNCHANGED <<rows, sentEvents, proc, providerVars, crossed>>

\* The process dies; its request goes on without it.
Crash(p) ==
    /\ "crash" \in Incidents
    /\ ~In(p, "idle")
    /\ Stops(p)
    /\ UNCHANGED <<tableVars, providerVars, crossed>>

-----------------------------------------------------------------------------
DispatcherStep(p) ==
    \/ \E a \in RowIds : Claim(p, a)
    \/ MarkNetwork(p) \/ Send(p) \/ Receive(p) \/ File(p)

ReconcilerStep(p) ==
    \/ Reconcile(p) \/ Retrieve(p) \/ Send(p) \/ Receive(p) \/ JudgeReplay(p) \/ Confirm(p)

ProviderStep ==
    \/ \E n \in PostIds : Arrive(n) \/ Accept(n) \/ Reject(n) \/ Lose(n)
    \/ Forget

WorldStep ==
    \/ \E a \in RowIds : WindowCloses(a) \/ WriteReceipt(a)
    \/ Supersede
    \/ \E p \in Procs : Crash(p)

EmailNext ==
    \/ \E p \in Dispatchers : DispatcherStep(p)
    \/ \E p \in Reconcilers : ReconcilerStep(p)
    \/ ProviderStep
    \/ WorldStep

EmailSpec == EmailInit /\ [][EmailNext]_emailVars

-----------------------------------------------------------------------------
(* Properties *)

\* Every variable has its type, every row passes the constraints of the table.
EmailTypeOK ==
    /\ locked \in BOOLEAN
    /\ rows \in [RowIds -> Row] /\ \A a \in RowIds : RowAccepted(rows[a])
    /\ sentEvents \in Nat
    /\ proc \in [Procs -> Process]
    /\ posts \in [PostIds -> Post]
    /\ emails \in Nat
    /\ key \in {"free", "busy", "kept"}
    /\ crossed \in BOOLEAN

\* While every attempt made is FAILED - so that the register lets another one
\* be made - no email exists, and no request is left that could create one: an
\* unknown outcome never frees the manifest.  Up to a crossing: a dispatcher
\* that was refused files FAILED while the replay begun beside it is accepted.
FreedMeansNoEmail ==
    ~crossed /\ (\A a \in RowIds : rows[a].status \in {"NONE", "FAILED"}) =>
        emails = 0 /\ \A n \in PostIds : ~InProgress(n)

\* SENT and the event that says the prospect contacted.  Whatever crosses,
\* stalls or dies, SENT is on one attempt at most and never without its event,
\* and the event is written once, of an email that exists.  The event is never
\* without SENT either, up to a crossing (RecordedMeansSent).
SentIsTheTruth ==
    /\ \A a, b \in RowIds : rows[a].status = "SENT" /\ rows[b].status = "SENT" => a = b
    /\ Has("SENT") => sentEvents = 1
    /\ sentEvents <= 1 /\ sentEvents <= emails
    /\ ~crossed /\ sentEvents = 1 => Has("SENT")

\* SendOnce for this manifest: announced with the first network mark; a row
\* FAILED says nothing of the manifest, which another attempt may take up.
Announced == \E a \in RowIds : rows[a].network

EmailStory == [ announced |-> Announced,
                contacts  |-> emails,
                outcome   |-> IF sentEvents = 0 THEN "none" ELSE "SENT" ]

Promise == INSTANCE SendOnce WITH Intents <- {"manifest"}, story <- [i \in {"manifest"} |-> EmailStory]

\* The email path implements the abstract rail: announced before the provider
\* is called, contacted at most once, settled once.  Up to a crossing, after
\* which the register may free a manifest whose email is made or on its way.
EmailKeepsItsPromise == Promise!Init /\ [][crossed' \/ Promise!Next]_EmailStory

-----------------------------------------------------------------------------
(* What the comments say of it.                                            *)
(* The code does not keep these: nothing separates a reconciliation from   *)
(* the dispatcher of the same attempt, nor a request from the end of the   *)
(* window it was made in.                                                  *)

\* One manifest, one email, through timeouts, deaths, concurrent replays and a
\* key the provider forgets ("exactement un email").  Refuted by a crossing,
\* and by a request that stalls.
AtMostOneEmail == emails <= 1

\* "SENT" and "un humain a ete contacte" do not exist one without the other.
\* Refuted by a crossing: the dispatcher files its refusal as FAILED, and
\* confirmSent of the replay finds no row to update and writes the event.
RecordedMeansSent == sentEvents = 1 => Has("SENT")
=============================================================================
