----------------------------- MODULE MailIntake -----------------------------
(***************************************************************************)
(* The reading of the reply mailbox: pollInboundReplies and the Gmail      *)
(* provider it lists with.  Several polls may run at once, each over its   *)
(* own copy of the cursor and of the addresses written to.                 *)
(*                                                                         *)
(* Time is in days, as the `after:` of a query is.  A poll asks for the    *)
(* letters of the counterparties - those whose sending is RECORDED - since *)
(* the cursor less an overlap, unless the mailbox's marker is the one it   *)
(* already has.  The contents, the correlation and the headers of a letter *)
(* are left out.                                                           *)
(***************************************************************************)
EXTENDS Integers, FiniteSets, FiniteSetsExt

CONSTANTS
    Prospects,   \* the addresses that may be written to
    Pollers,     \* the processes that may poll the mailbox
    Nobody,      \* who wrote a letter not yet received
    Cap,         \* maxMessages of a poll
    Overlap,     \* QUERY_OVERLAP_MS, in days
    MaxMail,     \* bound: how many letters prospects write
    MaxDay,      \* bound: the last day
    MayFail      \* whether calls fail and processes die

ASSUME MailAssumption ==
    /\ Nobody \notin Prospects
    /\ Cap \in Nat \ {0} /\ Overlap \in Nat
    /\ MaxMail \in Nat /\ MaxDay \in Nat \ {0} /\ MayFail \in BOOLEAN

Letters == 1..MaxMail
Days    == 0..MaxDay     \* 0 stands for none
Markers == Nat           \* 0 stands for null

VARIABLES
    day,         \* today
    mail,        \* each letter; its day is 0 until it is received
    history,     \* the mailbox's historyId
    recorded,    \* the day of their SENT event, 0 without one
    rows,        \* r6b_inbound_messages
    checkpoint,  \* r6b_inbound_checkpoints: last_internal_date_ms and history_id
    polls        \* what each process holds

world    == <<day, mail, history, recorded>>
mailVars == <<world, rows, checkpoint, polls>>

\* When a letter comes: before the sending it answers is recorded; after that,
\* but while a poll that read the sendings too early has its marker still to
\* read; or after that.
Whens == {"unrecorded", "meanwhile", "recorded"}

Letter == [from : Prospects \cup {Nobody}, day : Days, when : Whens]

Unwritten == [from |-> Nobody, day |-> 0, when |-> "unrecorded"]

Steps == {"idle", "loaded", "scoped", "listing", "listed", "storing"}

\* `whole`: nothing failed and nothing was cut.
Poll == [ pc : Steps, born : Days, since : Int, marker : Markers, whom : SUBSET Prospects,
          latest : Markers, invalid : BOOLEAN, whole : BOOLEAN, todo : SUBSET Letters, top : Days ]

Idle == [ pc |-> "idle", born |-> 0, since |-> 0, marker |-> 0, whom |-> {},
          latest |-> 0, invalid |-> FALSE, whole |-> TRUE, todo |-> {}, top |-> 0 ]

At(p, step) == polls[p].pc = step

Received(i) == mail[i].day # 0

\* A mailbox keeps its order of arrival.
NextLetter(i) == ~Received(i) /\ \A k \in Letters : k < i => Received(k)

\* loadOutboundSends: the addresses a sending to which is recorded.
Counterparties == {x \in Prospects : recorded[x] # 0}

\* Mutated: the cursor is taken up where it is.
Since_NoOverlap(date) ==
    IF date # 0 THEN date
    ELSE IF Counterparties # {} THEN Min({recorded[x] : x \in Counterparties}) - Overlap ELSE 0

\* resolveSince, with its three cases; without a sending nobody is asked for.
Since(date) ==
    IF date # 0 THEN date - Overlap
    ELSE IF Counterparties # {} THEN Min({recorded[x] : x \in Counterparties}) - Overlap ELSE 0

\* buildInboxQuery, for one chunk of the counterparties.
Answers(chunk, since) ==
    {i \in Letters : Received(i) /\ mail[i].from \in chunk /\ mail[i].day >= since}

MailInit ==
    /\ day = 1 /\ history = 1
    /\ mail = [i \in Letters |-> Unwritten]
    /\ recorded = [x \in Prospects |-> 0]
    /\ rows = {}
    /\ checkpoint = [date |-> 0, marker |-> 0]
    /\ polls = [p \in Pollers |-> Idle]

-----------------------------------------------------------------------------
(* The world *)

\* A message has reached every prospect; its SENT event comes later, with the
\* dispatcher's confirmation or a reconciliation, and bears the day it is written.
Record(x) ==
    /\ recorded[x] = 0
    /\ recorded' = [recorded EXCEPT ![x] = day]
    /\ UNCHANGED <<day, mail, history, rows, checkpoint, polls>>

WhenFrom(x) ==
    IF recorded[x] = 0 THEN "unrecorded"
    ELSE IF \E p \in Pollers : At(p, "scoped") /\ x \notin polls[p].whom THEN "meanwhile"
    ELSE "recorded"

\* A prospect answers, or a machine on his behalf.
Reply(x, i) ==
    /\ NextLetter(i)
    /\ mail' = [mail EXCEPT ![i] = [from |-> x, day |-> day, when |-> WhenFrom(x)]]
    /\ history' = history + 1
    /\ UNCHANGED <<day, recorded, rows, checkpoint, polls>>

\* A poll ends within the overlap of the day it began.
Tick ==
    /\ day < MaxDay
    /\ \A p \in Pollers : ~At(p, "idle") => day < polls[p].born + Overlap
    /\ day' = day + 1
    /\ UNCHANGED <<mail, history, recorded, rows, checkpoint, polls>>

WorldStep ==
    \/ \E x \in Prospects : Record(x) \/ \E i \in Letters : Reply(x, i)
    \/ Tick

-----------------------------------------------------------------------------
(* One poll.  It forgets what it needs no more. *)

Write(p, r) == polls' = [polls EXCEPT ![p] = r]

LoadCheckpoint(p) ==
    /\ At(p, "idle")
    /\ Write(p, [Idle EXCEPT !.pc = "loaded", !.born = day,
                   !.marker = checkpoint.marker, !.top = checkpoint.date])
    /\ UNCHANGED <<world, rows, checkpoint>>

\* The sendings are read next; without any the provider is not called.
LoadSends(p) ==
    /\ At(p, "loaded")
    /\ Write(p, IF Counterparties = {} THEN [polls[p] EXCEPT !.pc = "storing"]
                ELSE [polls[p] EXCEPT !.pc = "scoped", !.whom = Counterparties,
                                      !.since = Since(polls[p].top)])
    /\ UNCHANGED <<world, rows, checkpoint>>

\* What getProfile answers: the mailbox's marker, or else nothing, or one
\* below the marker the cursor had.
Profile(marker) == {history} \cup IF MayFail THEN {0} \cup 1..marker - 1 ELSE {}

\* The marker is read before the list, and nothing is listed when it is the
\* one of the last whole poll.
Probe(p) ==
    LET marker == polls[p].marker
        Asked(latest) ==
            [polls[p] EXCEPT !.latest = latest, !.marker = 0,
                             !.invalid = marker # 0 /\ latest # 0 /\ latest < marker]
    IN  /\ At(p, "scoped")
        /\ \E latest \in Profile(marker) :
            Write(p, IF marker # 0 /\ latest = marker
                     THEN [Asked(latest) EXCEPT !.pc = "storing", !.whom = {}, !.since = 0]
                     ELSE [Asked(latest) EXCEPT !.pc = "listing"])
        /\ UNCHANGED <<world, rows, checkpoint>>

\* A poll in which something failed or was cut moves no cursor.
Spoilt(poll) == [poll EXCEPT !.whole = FALSE, !.latest = 0, !.top = 0]

\* One chunk of the counterparties: of more answers than there is room for, as
\* many as there is room for, in an order Gmail chooses, and the rest is cut.
List(p) ==
    LET todo == polls[p].todo
        whom == polls[p].whom
        room == Cap - Cardinality(todo)
        Listed(poll, ids, left) ==
            IF left # {} THEN [poll EXCEPT !.todo = @ \cup ids, !.whom = left]
            ELSE [poll EXCEPT !.todo = @ \cup ids, !.whom = {}, !.since = 0, !.invalid = FALSE,
                              !.pc = IF poll.invalid THEN "listed" ELSE "storing"]
    IN  /\ At(p, "listing")
        /\ \E chunk \in SUBSET whom \ {{}} :
            LET found == Answers(chunk, polls[p].since)
            IN  \/ /\ room > 0 /\ Cardinality(found) <= room
                   /\ Write(p, Listed(polls[p], found, whom \ chunk))
                \/ /\ room = 0 \/ Cardinality(found) > room
                   /\ \E ids \in kSubset(room, found) :
                        Write(p, Listed(Spoilt(polls[p]), ids, {}))
        /\ UNCHANGED <<world, rows, checkpoint>>

\* recordCheckpointInvalidation: the marker is dropped and the date is kept.
Invalidate(p) ==
    /\ At(p, "listed")
    /\ checkpoint' = [checkpoint EXCEPT !.marker = 0]
    /\ Write(p, [polls[p] EXCEPT !.pc = "storing"])
    /\ UNCHANGED <<world, rows>>

\* Every letter of the list is fetched, normalised and - in the order of receipt -
\* written by persistInboundMessage.  One that cannot be is set aside wherever
\* that fails, remembered, and the others are written all the same.
Store(p) ==
    /\ At(p, "storing")
    /\ \E i \in polls[p].todo :
        /\ \A k \in polls[p].todo : mail[i].day <= mail[k].day
        /\ \/ /\ rows' = rows \cup {i}
              /\ Write(p, [polls[p] EXCEPT !.todo = @ \ {i},
                             !.top = IF polls[p].whole THEN Max({@, mail[i].day}) ELSE @])
           \/ /\ MayFail
              /\ Write(p, [Spoilt(polls[p]) EXCEPT !.todo = @ \ {i}])
              /\ UNCHANGED rows
    /\ UNCHANGED <<world, checkpoint>>

Over(p) == At(p, "storing") /\ polls[p].todo = {}

\* Mutated: the marker stored is the one of the mailbox when the poll ends.
Advance_LateMarker(p) ==
    /\ Over(p) /\ polls[p].whole
    /\ checkpoint' = [ marker |-> history, date |-> Max({polls[p].top, checkpoint.date}) ]
    /\ Write(p, Idle)
    /\ UNCHANGED <<world, rows>>

\* advanceCheckpoint: coalesce on the marker, greatest on the date.
Advance(p) ==
    /\ Over(p) /\ polls[p].whole
    /\ checkpoint' = [ marker |-> IF polls[p].latest # 0 THEN polls[p].latest ELSE checkpoint.marker,
                       date   |-> Max({polls[p].top, checkpoint.date}) ]
    /\ Write(p, Idle)
    /\ UNCHANGED <<world, rows>>

\* touchCheckpoint: the poll took place, and nothing moves.
Touch(p) ==
    /\ Over(p) /\ ~polls[p].whole
    /\ Write(p, Idle)
    /\ UNCHANGED <<world, rows, checkpoint>>

PollStep(p) ==
    \/ LoadCheckpoint(p) \/ LoadSends(p) \/ Probe(p) \/ List(p) \/ Invalidate(p)
    \/ Store(p) \/ Advance(p) \/ Touch(p)

\* A list that cannot be had raises out of the poll; or the process is killed.
Dies(p) ==
    /\ MayFail /\ ~At(p, "idle")
    /\ Write(p, Idle)
    /\ UNCHANGED <<world, rows, checkpoint>>

MailNext ==
    \/ WorldStep
    \/ \E p \in Pollers : PollStep(p) \/ Dies(p)

MailSpec == MailInit /\ [][MailNext]_mailVars

\* One turn and out: the operator launches the command again, as its messages
\* ask, and a process that is launched goes on.
FairMailSpec == MailSpec /\ \A p \in Pollers : WF_mailVars(PollStep(p))

-----------------------------------------------------------------------------
(* Properties *)

MailTypeOK ==
    /\ day \in Days \ {0} /\ history \in Nat
    /\ mail \in [Letters -> Letter]
    /\ recorded \in [Prospects -> Days]
    /\ rows \in SUBSET Letters
    /\ checkpoint \in [date : Days, marker : Markers]
    /\ polls \in [Pollers -> Poll]

\* No silent loss: a reply to a sending that was recorded is in the database,
\* or is not older than what the next poll asks for - whatever failed, was cut
\* or died, and however many polls move the one cursor (pollInboundReplies,
\* "aucune perte silencieuse").
NoReplyIsLost ==
    \A i \in Letters :
        Received(i) /\ mail[i].when # "unrecorded" /\ i \notin rows =>
            mail[i].day >= Since(checkpoint.date)

\* When the mailbox's marker is the one of the cursor, which is when a poll
\* lists nothing, every reply is in the database that came after its sending
\* was recorded and between no two statements of a poll.
MarkerHidesNothing ==
    checkpoint.marker = history =>
        \A i \in Letters : Received(i) /\ mail[i].when = "recorded" => i \in rows

-----------------------------------------------------------------------------
(* What is said of the program and is not so *)

\* No reply to a message that was delivered is behind the cursor.  One received
\* before its sending is recorded is, once another reply has moved it.
NoReplyIsEverLost ==
    \A i \in Letters : Received(i) /\ i \notin rows => mail[i].day >= Since(checkpoint.date)

\* Nothing is to be read while the marker has not moved since the last poll.
\* A poll reads the sendings before the marker, and a reply may come between.
UnchangedMeansRead ==
    checkpoint.marker = history =>
        \A i \in Letters : Received(i) /\ mail[i].when # "unrecorded" => i \in rows

\* A cut poll is completed by the next ones.  Every list starts from the same
\* date, under the same cap.
RelaunchReadsTheRest ==
    \A i \in Letters : (Received(i) /\ mail[i].when = "recorded") ~> (i \in rows)
=============================================================================
