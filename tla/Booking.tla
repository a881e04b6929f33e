------------------------------ MODULE Booking ------------------------------
(***************************************************************************)
(* The agenda as conversations write it: one turn reads the agenda         *)
(* (loadBookingSnapshot), decides (decideBookingTurn) and writes           *)
(* (commitBookingTurn), over the tables and constraints of migration 0062. *)
(* Several processes take turns, on one message or on several; a message   *)
(* whose turn did not reach its end is taken again.  One step per          *)
(* statement or transaction.                                               *)
(*                                                                         *)
(* A slot is its start, in steps of the grid.  The slots of the model are  *)
(* those the policy opens, at a time when notice and horizon allow them;   *)
(* the others are refused before anything is written.                      *)
(***************************************************************************)
EXTENDS Integers, FiniteSets

CONSTANTS
    Processes,   \* those that run processReply
    Prospects,
    Messages,
    LastSlot,    \* bound: the slots are 1..LastSlot
    Duration,    \* appointmentDurationMinutes, in steps of the grid
    MaxOffered,  \* maxProposedSlots
    MaxTurns,    \* bound: turns taken
    Intents,     \* within BOOKING_INTENTS
    Wordings     \* what a text may say of time

Slots == 1..LastSlot

\* readTemporal: a date and an hour, one of the two, neither, or a doubt.
Wording == [clarity : {"full", "half", "absent", "doubtful"}, slots : SUBSET Slots]

ASSUME BookingAssumption ==
    /\ LastSlot \in Nat /\ Duration \in Nat \ {0} /\ MaxOffered \in Nat /\ MaxTurns \in Nat
    /\ Intents \subseteq {"NONE", "ASK_AVAILABILITY", "ACCEPT_PROPOSAL", "PROPOSE_TIME", "RESCHEDULE", "CANCEL"}
    /\ Wordings \subseteq Wording
    /\ IsFiniteSet(Messages)
    /\ \A words \in Wordings : words.clarity = "full" => Cardinality(words.slots) = 1

VARIABLES
    inbox,     \* the messages of the story, received or to come: from whom, in which words
    settled,   \* the messages an analysis answers
    turns,     \* how many turns were taken, for the bound
    appts,     \* hermes_appointments, by idempotency key
    offers,    \* hermes_booking_proposals, by the message that led to them
    turn       \* the turn of each process

bookingVars == <<inbox, settled, turns, appts, offers, turn>>

\* bookingIdempotencyKey: what it hashes, the prospect being the message's.
Keys == [kind : {"BOOK", "RESCHEDULE"}, msg : Messages, slot : Slots]

NoAppt == [status |-> "NONE", supersedes |-> {}]

Steps == {"idle", "reading", "read", "offering", "cancelling", "looking", "writing", "doubting", "told"}

Outcomes == {"none", "NO_BOOKING", "PROPOSED", "BOOKED", "RESCHEDULED", "CANCELLED", "ALREADY_BOOKED",
             "CLARIFICATION_REQUIRED", "SLOT_UNAVAILABLE", "WRITE_REFUSED"}

\* `live`, `busy` and `offer` are the snapshot, `unread` what it still lacks;
\* `key` what the turn is to write, `outcome` what it is to say.
Turn == [ pc : Steps, msg : SUBSET Messages, unread : SUBSET {"own", "busy"},
          live : SUBSET Keys, busy : SUBSET Slots, offer : SUBSET Slots, key : SUBSET Keys, outcome : Outcomes ]

NoTurn == [ pc |-> "idle", msg |-> {}, unread |-> {},
            live |-> {}, busy |-> {}, offer |-> {}, key |-> {}, outcome |-> "none" ]

BookingInit ==
    /\ inbox \in [Messages -> [from : Prospects, words : Wordings]]
    /\ settled = {}
    /\ turns = 0
    /\ appts = [k \in Keys |-> NoAppt]
    /\ offers = [m \in Messages |-> [rank |-> 0, slots |-> {}]]
    /\ turn = [w \in Processes |-> NoTurn]

At(w, step) == turn[w].pc = step
The(set) == CHOOSE x \in set : TRUE
MessageOf(w) == The(turn[w].msg)
KeyOf(w) == The(turn[w].key)

From(m) == inbox[m].from
Confirmed == {k \in Keys : appts[k].status = "CONFIRMED"}
LiveOf(p) == {k \in Confirmed : From(k.msg) = p}

-----------------------------------------------------------------------------
(* availability.ts *)

\* overlaps, on intervals closed to the left and open to the right.
Overlaps(a, b) == a < b + Duration /\ b < a + Duration

\* checkAvailability, past the gates on the slot alone.
Available(slot, busy) == \A b \in busy : ~Overlaps(slot, b)

\* nextAvailableSlots: the first ones.
NextAvailable(busy) ==
    {s \in Slots : /\ Available(s, busy)
                   /\ Cardinality({t \in 1..(s - 1) : Available(t, busy)}) < MaxOffered}

-----------------------------------------------------------------------------
(* intent.ts *)

\* resolveRequestedInterval: half a date is completed by an offer, if one only
\* fits; a doubt never is.
Requested(words, offer) ==
    CASE words.clarity = "full" -> words.slots
      [] words.clarity = "half" /\ Cardinality(words.slots \cap offer) = 1 -> words.slots \cap offer
      [] OTHER -> {}

Decided(kind, slots) == [kind |-> kind, slots |-> slots]

\* Without a date or an hour, yes is yes to the only slot offered.
BookOrRefuse(t, intent, words) ==
    LET slots == IF words.clarity = "absent" /\ intent = "ACCEPT_PROPOSAL" /\ Cardinality(t.offer) = 1
                 THEN t.offer
                 ELSE Requested(words, t.offer)
    IN  IF slots = {} THEN Decided("CLARIFY", {})
        ELSE IF Available(The(slots), t.busy) THEN Decided("BOOK", slots)
        ELSE Decided("UNAVAILABLE", NextAvailable(t.busy))

\* The new slot is judged as if the old one were free.
MoveOrRefuse(t, words) ==
    LET slots == Requested(words, t.offer)
        others == t.busy \ {k.slot : k \in t.live}
    IN  IF slots = {} THEN Decided("CLARIFY", {})
        ELSE IF slots = {k.slot : k \in t.live} THEN Decided("ALREADY_BOOKED", {})
        ELSE IF Available(The(slots), others) THEN Decided("RESCHEDULE", slots)
        ELSE Decided("UNAVAILABLE", NextAvailable(others))

\* decideBookingTurn.
Decision(t, intent, words, mayPropose) ==
    CASE intent = "CANCEL"     -> Decided(IF t.live = {} THEN "CLARIFY" ELSE "CANCEL", {})
      [] intent = "RESCHEDULE" -> IF t.live = {} THEN Decided("CLARIFY", {}) ELSE MoveOrRefuse(t, words)
      [] intent \in {"ACCEPT_PROPOSAL", "PROPOSE_TIME"} ->
            IF t.live = {} THEN BookOrRefuse(t, intent, words) ELSE MoveOrRefuse(t, words)
      [] /\ intent \in {"NONE", "ASK_AVAILABILITY"}
         /\ t.live = {} /\ mayPropose
         /\ intent = "ASK_AVAILABILITY" \/ t.offer = {} -> Decided("PROPOSE_SLOTS", NextAvailable(t.busy))
      [] OTHER -> Decided("NO_BOOKING", {})

-----------------------------------------------------------------------------
(* A turn *)

\* The turn of a message that no analysis answers yet.  One that is never taken has
\* not come.
Begin(w, m) ==
    /\ At(w, "idle") /\ m \notin settled
    /\ turns < MaxTurns
    /\ turns' = turns + 1
    /\ turn' = [turn EXCEPT ![w] = [NoTurn EXCEPT !.pc = "reading", !.msg = {m}, !.unread = {"own", "busy"}]]
    /\ UNCHANGED <<inbox, settled, appts, offers>>

\* loadLatestProposal: the first proposal of a message dates it for ever.
LatestOffer(p) ==
    LET own == {m \in Messages : From(m) = p /\ offers[m].rank > 0}
    IN  {m \in own : \A n \in own : offers[n].rank <= offers[m].rank}

\* loadBookingSnapshot: the prospect's appointment with the latest proposal made
\* to him, and everybody's appointments, in either order.
Read(w, what) ==
    /\ At(w, "reading") /\ what \in turn[w].unread
    /\ LET p == From(MessageOf(w))
           t == [turn[w] EXCEPT !.unread = @ \ {what},
                                !.pc = IF turn[w].unread = {what} THEN "read" ELSE @]
       IN  turn' = [turn EXCEPT ![w] =
               IF what = "own"
               THEN [t EXCEPT !.live = LiveOf(p), !.offer = UNION {offers[m].slots : m \in LatestOffer(p)}]
               ELSE [t EXCEPT !.busy = {k.slot : k \in Confirmed}]]
    /\ UNCHANGED <<inbox, settled, turns, appts, offers>>

Tells(w, outcome) ==
    turn' = [turn EXCEPT ![w].pc = "told", ![w].outcome = outcome, ![w].live = {}, ![w].busy = {}, ![w].offer = {}]

\* The model has said what the message wants; the code decides the rest.  Of the
\* snapshot, what the next step needs is kept.
Decide(w) ==
    /\ At(w, "read")
    /\ \E intent \in Intents, mayPropose \in BOOLEAN :
         LET d == Decision(turn[w], intent, inbox[MessageOf(w)].words, mayPropose)
             toWrite == [kind |-> d.kind, msg |-> MessageOf(w), slot |-> The(d.slots)]
         IN  CASE d.kind \in {"BOOK", "RESCHEDULE"} ->
                    turn' = [turn EXCEPT ![w].pc = "looking", ![w].key = {toWrite}, ![w].offer = {}]
               [] d.kind = "CANCEL" -> turn' = [turn EXCEPT ![w].pc = "cancelling", ![w].busy = {}, ![w].offer = {}]
               [] d.kind = "UNAVAILABLE" \/ (d.kind = "PROPOSE_SLOTS" /\ d.slots # {}) ->
                    turn' = [turn EXCEPT ![w].pc = "offering", ![w].offer = d.slots, ![w].live = {}, ![w].busy = {},
                                         ![w].outcome = IF d.kind = "UNAVAILABLE" THEN "SLOT_UNAVAILABLE" ELSE "PROPOSED"]
               [] d.kind = "CLARIFY" -> Tells(w, "CLARIFICATION_REQUIRED")
               [] d.kind = "ALREADY_BOOKED" -> Tells(w, "ALREADY_BOOKED")
               [] OTHER -> Tells(w, "NO_BOOKING")
    /\ UNCHANGED <<inbox, settled, turns, appts, offers>>

\* recordProposal, when there is something to propose.
RecordProposal(w) ==
    LET m == MessageOf(w)
        rank == Cardinality({n \in Messages : offers[n].rank > 0}) + 1
    IN  offers' = IF turn[w].offer = {} THEN offers
                  ELSE [offers EXCEPT ![m] = [rank |-> IF @.rank = 0 THEN rank ELSE @.rank, slots |-> turn[w].offer]]

Offer(w) ==
    /\ At(w, "offering")
    /\ RecordProposal(w)
    /\ Tells(w, turn[w].outcome)
    /\ UNCHANGED <<inbox, settled, turns, appts>>

\* Mutated: the row is cancelled whatever it has become.
CancelledRows_Unchecked(keys) == keys

\* The rows `where status = 'CONFIRMED'` leaves to a cancellation.
CancelledRows(keys) == {k \in keys : appts[k].status = "CONFIRMED"}

\* cancelAppointment: a row cancelled already is returned as it is.
Cancel(w) ==
    /\ At(w, "cancelling")
    /\ appts' = [k \in Keys |-> IF k \in CancelledRows(turn[w].live) THEN [appts[k] EXCEPT !.status = "CANCELLED"] ELSE appts[k]]
    /\ Tells(w, "CANCELLED")
    /\ UNCHANGED <<inbox, settled, turns, offers>>

Written(kind) == IF kind = "BOOK" THEN "BOOKED" ELSE "RESCHEDULED"

KeyExists(k) == appts[k].status # "NONE"

\* loadByIdempotencyKey, before.
LookUp(w) ==
    /\ At(w, "looking")
    /\ IF KeyExists(KeyOf(w)) THEN Tells(w, Written(KeyOf(w).kind))
       ELSE turn' = [turn EXCEPT ![w].pc = "writing"]
    /\ UNCHANGED <<inbox, settled, turns, appts, offers>>

\* Mutated: two appointments are the same slot when they start together.
Refusals_SameStart(k, kept) ==
    (IF KeyExists(k) THEN {"idempotency"} ELSE {})
    \cup (IF \E j \in kept : j.slot = k.slot THEN {"SLOT_TAKEN"} ELSE {})
    \cup (IF \E j \in kept : From(j.msg) = From(k.msg) THEN {"PROSPECT_ALREADY_BOOKED"} ELSE {})

\* The constraints an insertion of k meets beside the rows of `kept`.
Refusals(k, kept) ==
    (IF KeyExists(k) THEN {"idempotency"} ELSE {})
    \cup (IF \E j \in kept : Overlaps(j.slot, k.slot) THEN {"SLOT_TAKEN"} ELSE {})
    \cup (IF \E j \in kept : From(j.msg) = From(k.msg) THEN {"PROSPECT_ALREADY_BOOKED"} ELSE {})

Refused(code) == IF code = "SLOT_TAKEN" THEN "SLOT_UNAVAILABLE" ELSE "WRITE_REFUSED"

\* The base refused: which constraint answered is not ours to say.
Doubts(w, codes) ==
    \E code \in codes :
        turn' = [turn EXCEPT ![w].pc = "doubting", ![w].outcome = Refused(code)]

\* reserveAppointment.
Reserve(w) ==
    /\ At(w, "writing") /\ KeyOf(w).kind = "BOOK"
    /\ LET k == KeyOf(w)
           codes == Refusals(k, Confirmed)
       IN  IF codes = {}
           THEN /\ appts' = [appts EXCEPT ![k].status = "CONFIRMED"]
                /\ Tells(w, "BOOKED")
           ELSE Doubts(w, codes) /\ UNCHANGED appts
    /\ UNCHANGED <<inbox, settled, turns, offers>>

\* Mutated: the cancellation is its own transaction.
RolledBack_Kept(previous) ==
    appts' = [k \in Keys |-> IF k \in previous THEN [appts[k] EXCEPT !.status = "CANCELLED"] ELSE appts[k]]

\* The insertion refused, the transaction gives the old appointment back.
RolledBack(previous) == UNCHANGED appts

Refuse(w, outcome) ==
    turn' = [turn EXCEPT ![w].pc = "offering", ![w].outcome = outcome, ![w].key = {}, ![w].live = {}, ![w].busy = {},
                         ![w].offer = NextAvailable(turn[w].busy) \ {KeyOf(w).slot}]

\* rescheduleAppointment: one transaction.
Reschedule(w) ==
    /\ At(w, "writing") /\ KeyOf(w).kind = "RESCHEDULE"
    /\ LET k == KeyOf(w)
           previous == CancelledRows(turn[w].live)
           codes == Refusals(k, Confirmed \ previous)
       IN  \/ /\ previous = {}                     \* APPOINTMENT_NOT_LIVE, thrown as it is
              /\ Refuse(w, "WRITE_REFUSED")
              /\ UNCHANGED appts
           \/ /\ previous # {} /\ codes = {}
              /\ appts' = [j \in Keys |->
                     CASE j \in previous -> [appts[j] EXCEPT !.status = "CANCELLED"]
                       [] j = k -> [status |-> "CONFIRMED", supersedes |-> previous]
                       [] OTHER -> appts[j]]
              /\ Tells(w, "RESCHEDULED")
           \/ /\ previous # {} /\ codes # {}
              /\ RolledBack(previous)
              /\ Doubts(w, codes)
    /\ UNCHANGED <<inbox, settled, turns, offers>>

\* Mutated: the refusal is believed without asking whose row it met.
IsOurs_NotAsked(k) == FALSE

\* loadByIdempotencyKey, after.
IsOurs(k) == KeyExists(k)

\* The first question is whether it was us; then failedWrite.
AskAgain(w) ==
    /\ At(w, "doubting")
    /\ IF IsOurs(KeyOf(w)) THEN Tells(w, Written(KeyOf(w).kind)) ELSE Refuse(w, turn[w].outcome)
    /\ UNCHANGED <<inbox, settled, turns, appts, offers>>

\* persistAnalysis: the message has its answer.
Settle(w) ==
    /\ At(w, "told")
    /\ settled' = settled \cup turn[w].msg
    /\ turn' = [turn EXCEPT ![w] = NoTurn]
    /\ UNCHANGED <<inbox, turns, appts, offers>>

-----------------------------------------------------------------------------
\* The process dies or its turn raises: a lost connection, a deadlock of two
\* exchanges, an answer of the model that cannot be read.  For the agenda, a turn
\* that ended and is taken again with `--resume` or `--message` is one that died
\* when all was written.
Crash(w) ==
    /\ ~At(w, "idle")
    /\ turn' = [turn EXCEPT ![w] = NoTurn]
    /\ UNCHANGED <<inbox, settled, turns, appts, offers>>

-----------------------------------------------------------------------------
TurnStep(w) ==
    \/ \E m \in Messages : Begin(w, m)
    \/ \E what \in {"own", "busy"} : Read(w, what)
    \/ Decide(w) \/ Offer(w) \/ Cancel(w)
    \/ LookUp(w) \/ Reserve(w) \/ Reschedule(w) \/ AskAgain(w)
    \/ Settle(w)

BookingNext == \E w \in Processes : TurnStep(w) \/ Crash(w)

BookingSpec == BookingInit /\ [][BookingNext]_bookingVars

-----------------------------------------------------------------------------
(* Properties *)

\* Every variable has its type, two confirmed appointments never overlap, and a
\* prospect has one at most.
BookingTypeOK ==
    /\ inbox \in [Messages -> [from : Prospects, words : Wordings]]
    /\ settled \subseteq Messages
    /\ turns \in 0..MaxTurns
    /\ appts \in [Keys -> [status : {"NONE", "CONFIRMED", "CANCELLED"}, supersedes : SUBSET Keys]]
    /\ offers \in [Messages -> [rank : 0..Cardinality(Messages), slots : SUBSET Slots]]
    /\ turn \in [Processes -> Turn]
    /\ \A j, k \in Confirmed : j # k => ~Overlaps(j.slot, k.slot) /\ From(j.msg) # From(k.msg)

\* A report moves an appointment its prospect still had: what it replaces is
\* confirmed up to that step, and cancelled in it.
ReportMovesALiveOne ==
    [][\A k \in Keys : \A j \in appts'[k].supersedes :
          appts[k].status = "NONE" =>
              appts[j].status = "CONFIRMED" /\ appts'[j].status = "CANCELLED" /\ From(j.msg) = From(k.msg)]_bookingVars

\* Nobody loses an appointment without asking for it: one that ceases to be
\* confirmed was moved in the same step, or cancelled by a turn of its prospect.
NobodyLosesASlot ==
    [][\A p \in Prospects :
          LiveOf(p) # {} /\ LiveOf(p)' = {} =>
              \E w \in Processes : At(w, "cancelling") /\ turn'[w].pc = "told" /\ From(MessageOf(w)) = p]_bookingVars

\* A reservation is never refused because of itself: when a process is told that
\* the slot is taken, the appointment it wanted to write does not exist.
NeverRefusedItsOwn ==
    [][\A w \in Processes :
          /\ turn[w].key # {} /\ turn'[w].pc = "offering"
          /\ KeyOf(w).kind = "BOOK"
          => appts[KeyOf(w)].status = "NONE"]_bookingVars

\* The same of a report.
ReportNeverRefusedItsOwn ==
    [][\A w \in Processes :
          /\ turn[w].key # {} /\ turn'[w].pc = "offering"
          /\ KeyOf(w).kind = "RESCHEDULE"
          => appts[KeyOf(w)].status = "NONE"]_bookingVars

\* What a turn calls booked is in the agenda when it says so.
BookedIsBooked ==
    [][\A w \in Processes :
          turn[w].key # {} /\ ~At(w, "told") /\ turn'[w].pc = "told" => appts'[KeyOf(w)].status = "CONFIRMED"]_bookingVars
=============================================================================
