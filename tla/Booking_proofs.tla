--------------------------- MODULE Booking_proofs ---------------------------
(***************************************************************************)
(* The agenda, for any number of processes, prospects and messages, and    *)
(* whatever each of them read before it writes.                            *)
(*                                                                         *)
(* The argument: a turn writes for the prospect of its message and for no  *)
(* other (TurnOK), so every row it cancels is that prospect's; and the row *)
(* it inserts was confronted with all the confirmed ones in the step that  *)
(* inserts it (AgendaOK), so what its snapshot missed does no harm.        *)
(***************************************************************************)
EXTENDS Booking, FiniteSetTheorems, TLAPS

Before == {"reading", "read", "offering", "cancelling"}
Writing == {"looking", "writing", "doubting"}

\* A turn, when `box` tells whose each message is.
TurnOK(t, box) ==
    /\ t \in Turn
    /\ t.pc # "idle" =>
          \E m \in Messages : t.msg = {m} /\ \A k \in t.live : box[k.msg].from = box[m].from
    /\ t.pc \in Before => t.key = {}
    /\ t.pc \in Writing => \E k \in Keys : t.key = {k} /\ t.msg = {k.msg}

TurnsOK ==
    /\ turn \in [Processes -> Turn]
    /\ \A w \in Processes : TurnOK(turn[w], inbox)

\* The table, and its three constraints.
AgendaOK ==
    /\ appts \in [Keys -> [status : {"NONE", "CONFIRMED", "CANCELLED"}, supersedes : SUBSET Keys]]
    /\ \A k \in Keys : appts[k].status = "NONE" => appts[k].supersedes = {}
    /\ \A j, k \in Confirmed : j # k => ~Overlaps(j.slot, k.slot) /\ From(j.msg) # From(k.msg)

\* The rest of the base.
StoryOK ==
    /\ inbox \in [Messages -> [from : Prospects, words : Wordings]]
    /\ settled \subseteq Messages
    /\ turns \in 0..MaxTurns
    /\ offers \in [Messages -> [rank : 0..Cardinality(Messages), slots : SUBSET Slots]]

BookingInv == StoryOK /\ AgendaOK /\ TurnsOK

-----------------------------------------------------------------------------
(* What a turn knows *)

LEMMA TheOne == \A x : The({x}) = x
  BY DEF The

LEMMA TheMember == ASSUME NEW S, S # {} PROVE The(S) \in S
  BY DEF The

\* The message of a turn is its prospect's word.
LEMMA KnowsItsMessage ==
  ASSUME TurnsOK, NEW w \in Processes, ~At(w, "idle")
  PROVE  /\ MessageOf(w) \in Messages
         /\ turn[w].msg = {MessageOf(w)}
         /\ \A k \in turn[w].live : k \in Keys /\ From(k.msg) = From(MessageOf(w))
<1>1. TurnOK(turn[w], inbox)
  BY DEF TurnsOK
<1>2. PICK m \in Messages : turn[w].msg = {m} /\ \A k \in turn[w].live : inbox[k.msg].from = inbox[m].from
  BY <1>1 DEF TurnOK, At
<1>3. MessageOf(w) = m
  BY <1>2, TheOne DEF MessageOf
<1>4. turn[w].live \subseteq Keys
  BY <1>1 DEF TurnOK, Turn
<1> QED
  BY <1>2, <1>3, <1>4 DEF From

\* What it writes is for that prospect.
LEMMA KnowsItsKey ==
  ASSUME TurnsOK, NEW w \in Processes, turn[w].pc \in Writing
  PROVE  /\ KeyOf(w) \in Keys
         /\ turn[w].key = {KeyOf(w)}
         /\ KeyOf(w).msg = MessageOf(w)
<1>1. TurnOK(turn[w], inbox)
  BY DEF TurnsOK
<1>2. PICK k \in Keys : turn[w].key = {k} /\ turn[w].msg = {k.msg}
  BY <1>1 DEF TurnOK
<1> QED
  BY <1>2, TheOne DEF KeyOf, MessageOf

\* One process moves.
LEMMA TurnReplaced ==
  ASSUME TurnsOK, NEW w \in Processes, NEW t, turn' = [turn EXCEPT ![w] = t],
         TurnOK(t, inbox), UNCHANGED inbox
  PROVE  TurnsOK'
<1>1. ASSUME NEW v \in Processes PROVE TurnOK(turn'[v], inbox')
  BY DEF TurnsOK
<1>2. t \in Turn
  BY DEF TurnOK
<1> QED
  BY <1>1, <1>2 DEF TurnsOK

LEMMA NoTurnOK == TurnOK(NoTurn, inbox)
  BY DEF TurnOK, NoTurn, Turn, Steps, Outcomes, Before, Writing

\* A turn that has said what it says.
LEMMA TellsOK ==
  ASSUME TurnsOK, NEW w \in Processes, NEW outcome \in Outcomes, ~At(w, "idle"),
         Tells(w, outcome), UNCHANGED inbox
  PROVE  TurnsOK'
<1> DEFINE t == [turn[w] EXCEPT !.pc = "told", !.outcome = outcome, !.live = {}, !.busy = {}, !.offer = {}]
<1>1. turn[w] \in Turn /\ turn \in [Processes -> Turn]
  BY DEF TurnsOK
<1>2. turn' = [turn EXCEPT ![w] = t]
  BY <1>1 DEF Tells
<1>3. t \in Turn /\ t.pc = "told" /\ t.live = {} /\ t.msg = turn[w].msg
  BY <1>1 DEF Turn, Steps
<1>4. TurnOK(t, inbox)
  BY <1>3, KnowsItsMessage DEF TurnOK, Before, Writing
<1> QED
  BY <1>2, <1>4, TurnReplaced

-----------------------------------------------------------------------------
(* What availability.ts and intent.ts decide *)

LEMMA NextAvailableTypes == \A busy : NextAvailable(busy) \subseteq Slots
  BY DEF NextAvailable

LEMMA RequestedTypes ==
  ASSUME NEW words \in Wordings, NEW offer \in SUBSET Slots PROVE Requested(words, offer) \subseteq Slots
  BY BookingAssumption DEF Requested, Wording

\* What a decision to write asks for.
DecisionOK(d) ==
    /\ d.slots \subseteq Slots
    /\ d.kind \in {"BOOK", "RESCHEDULE"} => d.slots # {}

LEMMA BookTypes ==
  ASSUME NEW t \in Turn, NEW intent, NEW words \in Wordings PROVE DecisionOK(BookOrRefuse(t, intent, words))
<1>1. Requested(words, t.offer) \subseteq Slots /\ t.offer \subseteq Slots
  BY RequestedTypes DEF Turn
<1> QED
  BY <1>1, NextAvailableTypes DEF BookOrRefuse, DecisionOK, Decided

LEMMA MoveTypes ==
  ASSUME NEW t \in Turn, NEW words \in Wordings PROVE DecisionOK(MoveOrRefuse(t, words))
<1>1. Requested(words, t.offer) \subseteq Slots
  BY RequestedTypes DEF Turn
<1> QED
  BY <1>1, NextAvailableTypes DEF MoveOrRefuse, DecisionOK, Decided

LEMMA DecisionTypes ==
  ASSUME NEW t \in Turn, NEW intent \in Intents, NEW words \in Wordings, NEW may \in BOOLEAN
  PROVE  DecisionOK(Decision(t, intent, words, may))
<1>1. DecisionOK(BookOrRefuse(t, intent, words)) /\ DecisionOK(MoveOrRefuse(t, words))
  BY BookTypes, MoveTypes
<1>2. \A kind \in {"CLARIFY", "CANCEL", "NO_BOOKING"} : DecisionOK(Decided(kind, {}))
  BY DEF DecisionOK, Decided
<1>3. DecisionOK(Decided("PROPOSE_SLOTS", NextAvailable(t.busy)))
  BY NextAvailableTypes DEF DecisionOK, Decided
<1> HIDE DEF DecisionOK
<1> QED
  BY <1>1, <1>2, <1>3 DEF Decision

-----------------------------------------------------------------------------
(* The statements on the agenda *)

LEMMA OverlapsBothWays == \A a, b : Overlaps(a, b) <=> Overlaps(b, a)
  BY DEF Overlaps

\* What the constraints let in beside the rows of `kept`.
LEMMA NotRefused ==
  ASSUME NEW k, NEW kept, Refusals(k, kept) = {}
  PROVE  /\ appts[k].status = "NONE"
         /\ \A j \in kept : ~Overlaps(j.slot, k.slot) /\ From(j.msg) # From(k.msg)
  BY DEF Refusals, KeyExists

\* A row more, beside those that were kept.
LEMMA RowEnters ==
  ASSUME AgendaOK, UNCHANGED inbox, NEW k \in Keys, NEW kept \in SUBSET Confirmed, Refusals(k, kept) = {},
         Confirmed' = kept \cup {k}
  PROVE  (\A i, j \in Confirmed : i # j => ~Overlaps(i.slot, j.slot) /\ From(i.msg) # From(j.msg))'
<1>1. \A m : From(m)' = From(m)
  BY DEF From
<1>2. \A j \in kept : ~Overlaps(j.slot, k.slot) /\ ~Overlaps(k.slot, j.slot) /\ From(j.msg) # From(k.msg)
  BY NotRefused, OverlapsBothWays
<1>3. \A i, j \in kept : i # j => ~Overlaps(i.slot, j.slot) /\ From(i.msg) # From(j.msg)
  BY DEF AgendaOK
<1> QED
  BY <1>1, <1>2, <1>3

\* Rows less.
LEMMA RowsLeave ==
  ASSUME AgendaOK, UNCHANGED inbox, Confirmed' \subseteq Confirmed
  PROVE  (\A i, j \in Confirmed : i # j => ~Overlaps(i.slot, j.slot) /\ From(i.msg) # From(j.msg))'
  BY DEF AgendaOK, From

Row == [status : {"NONE", "CONFIRMED", "CANCELLED"}, supersedes : SUBSET Keys]

LEMMA AgendaUntouched == ASSUME AgendaOK, UNCHANGED <<appts, inbox>> PROVE AgendaOK'
  BY DEF AgendaOK, Confirmed, From

\* reserveAppointment's insertion.
LEMMA ReserveKeeps ==
  ASSUME AgendaOK, UNCHANGED inbox, NEW k \in Keys, Refusals(k, Confirmed) = {},
         appts' = [appts EXCEPT ![k].status = "CONFIRMED"]
  PROVE  AgendaOK' /\ Confirmed' = Confirmed \cup {k}
<1>1. appts \in [Keys -> Row]
  BY DEF AgendaOK, Row
<1>2. /\ appts'[k].status = "CONFIRMED" /\ appts'[k].supersedes = appts[k].supersedes
      /\ \A j \in Keys \ {k} : appts'[j] = appts[j]
  BY <1>1 DEF Row
<1>3. appts' \in [Keys -> Row]
  BY <1>1 DEF Row
<1>4. Confirmed' = Confirmed \cup {k}
  BY <1>2 DEF Confirmed
<1>5. \A j \in Keys : appts'[j].status = "NONE" => appts'[j].supersedes = {}
  BY <1>2 DEF AgendaOK
<1> QED
  BY <1>3, <1>4, <1>5, RowEnters DEF AgendaOK, Row

\* cancelAppointment's update.
LEMMA CancelKeeps ==
  ASSUME AgendaOK, UNCHANGED inbox, NEW gone \in SUBSET Confirmed,
         appts' = [k \in Keys |-> IF k \in gone THEN [appts[k] EXCEPT !.status = "CANCELLED"] ELSE appts[k]]
  PROVE  AgendaOK' /\ Confirmed' = Confirmed \ gone
<1>1. appts \in [Keys -> Row]
  BY DEF AgendaOK, Row
<1>2. \A k \in Keys : IF k \in gone THEN appts'[k].status = "CANCELLED" /\ appts'[k] \in Row
                                    ELSE appts'[k] = appts[k]
  BY <1>1 DEF Row
<1>3. appts' \in [Keys -> Row]
  BY <1>1, <1>2
<1>4. Confirmed' = Confirmed \ gone
  BY <1>2 DEF Confirmed
<1>5. \A j \in Keys : appts'[j].status = "NONE" => appts'[j].supersedes = {}
  BY <1>2 DEF AgendaOK
<1> QED
  BY <1>3, <1>4, <1>5, RowsLeave DEF AgendaOK, Row

\* rescheduleAppointment's transaction.
Moves(k, previous) ==
    appts' = [j \in Keys |->
        CASE j \in previous -> [appts[j] EXCEPT !.status = "CANCELLED"]
          [] j = k -> [status |-> "CONFIRMED", supersedes |-> previous]
          [] OTHER -> appts[j]]

LEMMA MoveKeeps ==
  ASSUME AgendaOK, UNCHANGED inbox, NEW k \in Keys, NEW previous \in SUBSET Confirmed,
         Refusals(k, Confirmed \ previous) = {}, Moves(k, previous)
  PROVE  /\ AgendaOK'
         /\ Confirmed' = (Confirmed \ previous) \cup {k}
         /\ k \notin Confirmed
         /\ \A j \in previous : appts'[j].status = "CANCELLED"
         /\ \A j \in Keys : appts'[j].supersedes = IF j = k THEN previous ELSE appts[j].supersedes
<1>1. appts \in [Keys -> Row] /\ previous \subseteq Keys
  BY DEF AgendaOK, Row, Confirmed
<1>2. appts[k].status = "NONE"
  BY NotRefused
<1>3. k \notin Confirmed /\ k \notin previous
  BY <1>2 DEF Confirmed
<1>4. appts'[k] = [status |-> "CONFIRMED", supersedes |-> previous]
  BY <1>3 DEF Moves
<1>5. \A j \in previous : appts'[j] = [appts[j] EXCEPT !.status = "CANCELLED"]
  BY <1>1, <1>3 DEF Moves
<1>6. \A j \in Keys : j \notin previous /\ j # k => appts'[j] = appts[j]
  BY DEF Moves
<1>7. \A j \in previous : /\ appts'[j] \in Row /\ appts'[j].status = "CANCELLED"
                          /\ appts'[j].supersedes = appts[j].supersedes
  BY <1>1, <1>5 DEF Row
<1>8. appts' \in [Keys -> Row]
  <2>1. appts'[k] \in Row
    BY <1>1, <1>4 DEF Row
  <2>2. \A j \in Keys : appts'[j] \in Row
    BY <1>1, <1>6, <1>7, <2>1
  <2>3. DOMAIN appts' = Keys /\ appts' = [j \in Keys |-> appts'[j]]
    BY DEF Moves
  <2> QED
    BY <2>2, <2>3
<1>9. Confirmed' = (Confirmed \ previous) \cup {k}
  BY <1>3, <1>4, <1>6, <1>7 DEF Confirmed
<1>10. \A j \in Keys : appts'[j].status = "NONE" => appts'[j].supersedes = {}
  BY <1>4, <1>6, <1>7 DEF AgendaOK
<1>11. (\A i, j \in Confirmed : i # j => ~Overlaps(i.slot, j.slot) /\ From(i.msg) # From(j.msg))'
  <2>1. PICK kept \in SUBSET Confirmed : kept = Confirmed \ previous
    OBVIOUS
  <2>2. Refusals(k, kept) = {} /\ Confirmed' = kept \cup {k}
    BY <1>9, <2>1
  <2> QED
    BY <2>2, RowEnters
<1>12. AgendaOK'
  BY <1>8, <1>10, <1>11 DEF AgendaOK, Row
<1> QED
  BY <1>3, <1>4, <1>6, <1>7, <1>9, <1>12

\* The rows a cancellation reaches are the prospect's.
LEMMA CancelsHisOwn ==
  ASSUME TurnsOK, NEW w \in Processes, ~At(w, "idle")
  PROVE  /\ CancelledRows(turn[w].live) \subseteq Confirmed
         /\ \A k \in CancelledRows(turn[w].live) : From(k.msg) = From(MessageOf(w))
  BY KnowsItsMessage DEF CancelledRows, Confirmed

-----------------------------------------------------------------------------
(* The offers *)

\* The first proposal of a message takes the next rank, and there are ranks enough.
LEMMA OfferTypes ==
  ASSUME StoryOK, TurnsOK, NEW w \in Processes, ~At(w, "idle"), RecordProposal(w)
  PROVE  offers' \in [Messages -> [rank : 0..Cardinality(Messages), slots : SUBSET Slots]]
<1> DEFINE m == MessageOf(w)
           ranked == {n \in Messages : offers[n].rank > 0}
           rank == IF offers[m].rank = 0 THEN Cardinality(ranked) + 1 ELSE offers[m].rank
<1>1. m \in Messages /\ turn[w].offer \subseteq Slots
  BY KnowsItsMessage DEF TurnsOK, Turn
<1>2. rank \in 0..Cardinality(Messages)
  <2>1. CASE offers[m].rank = 0
    <3>1. IsFiniteSet(Messages) /\ Cardinality(Messages) \in Nat
      BY BookingAssumption, FS_CardinalityType
    <3>2. IsFiniteSet(Messages \ {m}) /\ Cardinality(Messages \ {m}) = Cardinality(Messages) - 1
      BY <1>1, <3>1, FS_RemoveElement
    <3>3. ranked \subseteq Messages \ {m}
      BY <2>1
    <3>4. Cardinality(ranked) <= Cardinality(Messages) - 1 /\ IsFiniteSet(ranked)
      BY <3>2, <3>3, FS_Subset
    <3>5. Cardinality(ranked) \in Nat
      BY <3>4, FS_CardinalityType
    <3> QED
      BY <2>1, <3>1, <3>4, <3>5
  <2>2. CASE offers[m].rank # 0
    BY <1>1, <2>2 DEF StoryOK
  <2> QED
    BY <2>1, <2>2
<1>3. CASE turn[w].offer = {}
  BY <1>3 DEF RecordProposal, StoryOK
<1>4. CASE turn[w].offer # {}
  <2>1. offers' = [offers EXCEPT ![m] = [rank |-> rank, slots |-> turn[w].offer]]
    BY <1>1, <1>4 DEF RecordProposal, StoryOK
  <2> HIDE DEF rank
  <2> QED
    BY <1>1, <1>2, <2>1 DEF StoryOK
<1> QED
  BY <1>3, <1>4

-----------------------------------------------------------------------------
(* The steps of a turn *)

LEMMA BookingInit_Inv == BookingInit => BookingInv
<1> SUFFICES ASSUME BookingInit PROVE BookingInv
  OBVIOUS
<1>1. 0 \in 0..Cardinality(Messages) /\ 0 \in 0..MaxTurns
  BY BookingAssumption, FS_CardinalityType
<1>2. StoryOK
  BY <1>1 DEF BookingInit, StoryOK
<1>3. Confirmed = {}
  BY DEF BookingInit, Confirmed, NoAppt
<1>4. AgendaOK
  BY <1>3 DEF BookingInit, AgendaOK, NoAppt
<1>5. \A w \in Processes : turn[w] = NoTurn
  BY DEF BookingInit
<1>6. NoTurn \in Turn
  BY DEF NoTurn, Turn, Steps, Outcomes
<1>7. TurnsOK
  BY <1>5, <1>6, NoTurnOK DEF BookingInit, TurnsOK
<1> QED
  BY <1>2, <1>4, <1>7 DEF BookingInv

LEMMA BeginOK ==
  ASSUME BookingInv, NEW w \in Processes, NEW m \in Messages, Begin(w, m) PROVE BookingInv'
<1> DEFINE t == [NoTurn EXCEPT !.pc = "reading", !.msg = {m}, !.unread = {"own", "busy"}]
<1>1. TurnOK(t, inbox)
  BY DEF TurnOK, NoTurn, Turn, Steps, Outcomes, Before, Writing
<1>2. TurnsOK'
  BY <1>1, TurnReplaced DEF Begin, BookingInv
<1>3. turns + 1 \in 0..MaxTurns
  BY BookingAssumption DEF BookingInv, StoryOK, Begin
<1> QED
  BY <1>2, <1>3, AgendaUntouched DEF Begin, BookingInv, StoryOK

LEMMA ReadOK ==
  ASSUME BookingInv, NEW w \in Processes, NEW what \in {"own", "busy"}, Read(w, what) PROVE BookingInv'
<1> DEFINE p == From(MessageOf(w))
           t == [turn[w] EXCEPT !.unread = @ \ {what},
                                !.pc = IF turn[w].unread = {what} THEN "read" ELSE @]
           seen == IF what = "own"
                   THEN [t EXCEPT !.live = LiveOf(p), !.offer = UNION {offers[m].slots : m \in LatestOffer(p)}]
                   ELSE [t EXCEPT !.busy = {k.slot : k \in Confirmed}]
<1>1. TurnsOK /\ turn[w] \in Turn /\ turn[w].pc = "reading" /\ TurnOK(turn[w], inbox)
  BY DEF BookingInv, TurnsOK, Read, At
<1>2. /\ MessageOf(w) \in Messages /\ turn[w].msg = {MessageOf(w)}
      /\ \A k \in turn[w].live : From(k.msg) = From(MessageOf(w))
  BY <1>1, KnowsItsMessage DEF At
<1>3. t \in Turn /\ t.pc \in {"reading", "read"} /\ t.msg = turn[w].msg /\ t.key = turn[w].key /\ t.live = turn[w].live
  BY <1>1 DEF Turn, Steps
<1>4. LiveOf(p) \subseteq Keys /\ \A k \in LiveOf(p) : From(k.msg) = p
  BY DEF LiveOf, Confirmed
<1>5. UNION {offers[m].slots : m \in LatestOffer(p)} \subseteq Slots
  BY DEF LatestOffer, BookingInv, StoryOK
<1>6. {k.slot : k \in Confirmed} \subseteq Slots
  BY DEF Confirmed, Keys
<1> HIDE DEF t, p
<1>7. /\ seen \in Turn /\ seen.pc = t.pc /\ seen.msg = t.msg /\ seen.key = t.key
      /\ seen.live = IF what = "own" THEN LiveOf(p) ELSE t.live
  BY <1>3, <1>4, <1>5, <1>6 DEF Turn
<1>8. \A k \in seen.live : From(k.msg) = From(MessageOf(w))
  BY <1>2, <1>3, <1>4, <1>7 DEF p
<1>9. seen.key = {}
  BY <1>1, <1>3, <1>7 DEF TurnOK, Before
<1> HIDE DEF seen
<1>10. TurnOK(seen, inbox)
  BY <1>2, <1>3, <1>7, <1>8, <1>9 DEF TurnOK, Before, Writing, From
<1>11. turn' = [turn EXCEPT ![w] = seen]
  BY DEF Read, seen, t, p
<1>12. TurnsOK'
  BY <1>1, <1>10, <1>11, TurnReplaced DEF Read
<1> QED
  BY <1>12, AgendaUntouched DEF Read, BookingInv, StoryOK

\* Where a decision leads.
DecidesTo(w, d) ==
    LET toWrite == [kind |-> d.kind, msg |-> MessageOf(w), slot |-> The(d.slots)]
    IN  \/ /\ d.kind \in {"BOOK", "RESCHEDULE"}
           /\ turn' = [turn EXCEPT ![w].pc = "looking", ![w].key = {toWrite}, ![w].offer = {}]
        \/ turn' = [turn EXCEPT ![w].pc = "cancelling", ![w].busy = {}, ![w].offer = {}]
        \/ \E outcome \in Outcomes :
              turn' = [turn EXCEPT ![w].pc = "offering", ![w].offer = d.slots, ![w].live = {}, ![w].busy = {},
                                   ![w].outcome = outcome]
        \/ \E outcome \in Outcomes : Tells(w, outcome)

LEMMA DecideLeads ==
  ASSUME BookingInv, NEW w \in Processes, Decide(w)
  PROVE  \E d : DecisionOK(d) /\ DecidesTo(w, d)
<1>1. TurnsOK /\ turn[w] \in Turn /\ turn[w].pc = "read"
  BY DEF BookingInv, TurnsOK, Decide, At
<1>2. MessageOf(w) \in Messages
  BY <1>1, KnowsItsMessage DEF At
<1>3. inbox[MessageOf(w)].words \in Wordings
  BY <1>2 DEF BookingInv, StoryOK
<1>4. PICK intent \in Intents, may \in BOOLEAN :
        LET d == Decision(turn[w], intent, inbox[MessageOf(w)].words, may)
            toWrite == [kind |-> d.kind, msg |-> MessageOf(w), slot |-> The(d.slots)]
        IN  CASE d.kind \in {"BOOK", "RESCHEDULE"} ->
                   turn' = [turn EXCEPT ![w].pc = "looking", ![w].key = {toWrite}, ![w].offer = {}]
              [] d.kind = "CANCEL" -> turn' = [turn EXCEPT ![w].pc = "cancelling", ![w].busy = {}, ![w].offer = {}]
              [] d.kind = "UNAVAILABLE" \/ (d.kind = "PROPOSE_SLOTS" /\ d.slots # {}) ->
                   turn' = [turn EXCEPT ![w].pc = "offering", ![w].offer = d.slots, ![w].live = {}, ![w].busy = {},
                                        ![w].outcome = IF d.kind = "UNAVAILABLE" THEN "SLOT_UNAVAILABLE" ELSE "PROPOSED"]
              [] d.kind = "CLARIFY" -> Tells(w, "CLARIFICATION_REQUIRED")
              [] d.kind = "ALREADY_BOOKED" -> Tells(w, "ALREADY_BOOKED")
              [] OTHER -> Tells(w, "NO_BOOKING")
  BY DEF Decide
<1>5. PICK d : d = Decision(turn[w], intent, inbox[MessageOf(w)].words, may)
  OBVIOUS
<1>6. DecisionOK(d)
  BY <1>1, <1>3, <1>5, DecisionTypes
<1>7. DecidesTo(w, d)
  <2> HIDE DEF Tells, Decision
  <2> QED
    BY <1>4, <1>5 DEF DecidesTo, Outcomes
<1> QED
  BY <1>6, <1>7

LEMMA DecideOK == ASSUME BookingInv, NEW w \in Processes, Decide(w) PROVE BookingInv'
<1>1. TurnsOK /\ turn \in [Processes -> Turn] /\ turn[w] \in Turn /\ turn[w].pc = "read" /\ TurnOK(turn[w], inbox)
  BY DEF BookingInv, TurnsOK, Decide, At
<1>2. /\ MessageOf(w) \in Messages /\ turn[w].msg = {MessageOf(w)}
      /\ \A k \in turn[w].live : k \in Keys /\ From(k.msg) = From(MessageOf(w))
  BY <1>1, KnowsItsMessage DEF At
<1>3. turn[w].key = {}
  BY <1>1 DEF TurnOK, Before
<1>4. UNCHANGED <<inbox, settled, turns, appts, offers>>
  BY DEF Decide
<1>5. PICK d : DecisionOK(d) /\ DecidesTo(w, d)
  BY DecideLeads
<1> DEFINE toWrite == [kind |-> d.kind, msg |-> MessageOf(w), slot |-> The(d.slots)]
<1>6. ASSUME d.kind \in {"BOOK", "RESCHEDULE"},
             turn' = [turn EXCEPT ![w].pc = "looking", ![w].key = {toWrite}, ![w].offer = {}]
      PROVE  TurnsOK'
  <2> DEFINE t == [turn[w] EXCEPT !.pc = "looking", !.key = {toWrite}, !.offer = {}]
  <2>1. The(d.slots) \in Slots
    BY <1>5, <1>6, TheMember DEF DecisionOK
  <2>2. toWrite \in Keys /\ toWrite.msg = MessageOf(w)
    BY <1>2, <1>6, <2>1 DEF Keys
  <2> HIDE DEF toWrite
  <2>3. /\ t \in Turn /\ t.pc = "looking" /\ t.key = {toWrite} /\ t.msg = {MessageOf(w)} /\ t.live = turn[w].live
    BY <1>1, <1>2, <2>2 DEF Turn, Steps
  <2>4. turn' = [turn EXCEPT ![w] = t]
    BY <1>1, <1>6 DEF toWrite
  <2> HIDE DEF t
  <2>5. TurnOK(t, inbox)
    BY <1>2, <2>2, <2>3 DEF TurnOK, Before, Writing, From
  <2> QED
    BY <1>1, <1>4, <2>4, <2>5, TurnReplaced
<1>7. ASSUME turn' = [turn EXCEPT ![w].pc = "cancelling", ![w].busy = {}, ![w].offer = {}]
      PROVE  TurnsOK'
  <2> DEFINE t == [turn[w] EXCEPT !.pc = "cancelling", !.busy = {}, !.offer = {}]
  <2>1. t \in Turn /\ t.pc = "cancelling" /\ t.key = {} /\ t.msg = {MessageOf(w)} /\ t.live = turn[w].live
    BY <1>1, <1>2, <1>3 DEF Turn, Steps
  <2>2. turn' = [turn EXCEPT ![w] = t]
    BY <1>1, <1>7
  <2> HIDE DEF t
  <2>3. TurnOK(t, inbox)
    BY <1>2, <2>1 DEF TurnOK, Before, Writing, From
  <2> QED
    BY <1>1, <1>4, <2>2, <2>3, TurnReplaced
<1>8. ASSUME NEW outcome \in Outcomes,
             turn' = [turn EXCEPT ![w].pc = "offering", ![w].offer = d.slots, ![w].live = {}, ![w].busy = {},
                                  ![w].outcome = outcome]
      PROVE  TurnsOK'
  <2> DEFINE t == [turn[w] EXCEPT !.pc = "offering", !.offer = d.slots, !.live = {}, !.busy = {}, !.outcome = outcome]
  <2>1. t \in Turn /\ t.pc = "offering" /\ t.key = {} /\ t.msg = {MessageOf(w)} /\ t.live = {}
    BY <1>1, <1>2, <1>3, <1>5 DEF Turn, Steps, DecisionOK
  <2>2. turn' = [turn EXCEPT ![w] = t]
    BY <1>1, <1>8
  <2> HIDE DEF t
  <2>3. TurnOK(t, inbox)
    BY <1>2, <2>1 DEF TurnOK, Before, Writing
  <2> QED
    BY <1>1, <1>4, <2>2, <2>3, TurnReplaced
<1>9. ASSUME NEW outcome \in Outcomes, Tells(w, outcome) PROVE TurnsOK'
  BY <1>1, <1>4, <1>9, TellsOK DEF At
<1>10. TurnsOK'
  BY <1>5, <1>6, <1>7, <1>8, <1>9 DEF DecidesTo
<1> QED
  BY <1>4, <1>10, AgendaUntouched DEF BookingInv, StoryOK

LEMMA OfferOK == ASSUME BookingInv, NEW w \in Processes, Offer(w) PROVE BookingInv'
<1>1. TurnsOK /\ StoryOK /\ turn[w] \in Turn /\ ~At(w, "idle")
  BY DEF BookingInv, TurnsOK, Offer, At
<1>2. turn[w].outcome \in Outcomes
  BY <1>1 DEF Turn
<1>3. TurnsOK'
  BY <1>1, <1>2, TellsOK DEF Offer
<1>4. offers' \in [Messages -> [rank : 0..Cardinality(Messages), slots : SUBSET Slots]]
  BY <1>1, OfferTypes DEF Offer
<1> QED
  BY <1>3, <1>4, AgendaUntouched DEF Offer, BookingInv, StoryOK

LEMMA CancelOK ==
  ASSUME BookingInv, NEW w \in Processes, Cancel(w)
  PROVE  BookingInv' /\ Confirmed' = Confirmed \ CancelledRows(turn[w].live)
<1>1. TurnsOK /\ AgendaOK /\ ~At(w, "idle")
  BY DEF BookingInv, Cancel, At
<1>2. TurnsOK'
  BY <1>1, TellsOK DEF Cancel, Outcomes
<1>3. PICK gone \in SUBSET Confirmed : gone = CancelledRows(turn[w].live)
  BY <1>1, CancelsHisOwn
<1>4. AgendaOK' /\ Confirmed' = Confirmed \ gone
  BY <1>1, <1>3, CancelKeeps DEF Cancel
<1> QED
  BY <1>2, <1>3, <1>4 DEF Cancel, BookingInv, StoryOK

\* The base refused, and the turn is to ask again.
LEMMA DoubtsOK ==
  ASSUME TurnsOK, NEW w \in Processes, turn[w].pc \in Writing, NEW codes, Doubts(w, codes), UNCHANGED inbox
  PROVE  TurnsOK' /\ turn'[w].pc = "doubting"
<1>1. turn \in [Processes -> Turn] /\ turn[w] \in Turn /\ ~At(w, "idle") /\ TurnOK(turn[w], inbox)
  BY DEF TurnsOK, At, Writing
<1>2. PICK outcome \in Outcomes : turn' = [turn EXCEPT ![w].pc = "doubting", ![w].outcome = outcome]
  BY DEF Doubts, Refused, Outcomes
<1> DEFINE t == [turn[w] EXCEPT !.pc = "doubting", !.outcome = outcome]
<1>3. /\ t \in Turn /\ t.pc = "doubting" /\ t.key = turn[w].key /\ t.msg = turn[w].msg
      /\ t.live = turn[w].live
  BY <1>1 DEF Turn, Steps
<1>4. turn' = [turn EXCEPT ![w] = t]
  BY <1>1, <1>2
<1> HIDE DEF t
<1>5. TurnOK(t, inbox)
  BY <1>1, <1>3 DEF TurnOK, Before, Writing, At
<1> QED
  BY <1>1, <1>3, <1>4, <1>5, TurnReplaced

\* The refusal is told, with other slots.
LEMMA RefuseOK ==
  ASSUME TurnsOK, NEW w \in Processes, ~At(w, "idle"), NEW outcome \in Outcomes, Refuse(w, outcome), UNCHANGED inbox
  PROVE  TurnsOK' /\ turn'[w].pc = "offering"
<1>1. turn \in [Processes -> Turn] /\ turn[w] \in Turn
  BY DEF TurnsOK
<1>2. PICK other \in SUBSET Slots : other = NextAvailable(turn[w].busy) \ {KeyOf(w).slot}
  BY NextAvailableTypes
<1> DEFINE t == [turn[w] EXCEPT !.pc = "offering", !.outcome = outcome, !.key = {}, !.live = {}, !.busy = {}, !.offer = other]
<1>3. t \in Turn /\ t.pc = "offering" /\ t.key = {} /\ t.msg = turn[w].msg /\ t.live = {}
  BY <1>1 DEF Turn, Steps
<1>4. turn' = [turn EXCEPT ![w] = t]
  BY <1>1, <1>2 DEF Refuse
<1> HIDE DEF t
<1>5. TurnOK(t, inbox)
  BY <1>3, KnowsItsMessage DEF TurnOK, Before, Writing
<1> QED
  BY <1>1, <1>3, <1>4, <1>5, TurnReplaced

LEMMA WrittenTypes == \A kind : Written(kind) \in Outcomes
  BY DEF Written, Outcomes

LEMMA LookUpOK == ASSUME BookingInv, NEW w \in Processes, LookUp(w) PROVE BookingInv'
<1>1. /\ TurnsOK /\ turn \in [Processes -> Turn] /\ turn[w] \in Turn /\ turn[w].pc = "looking" /\ ~At(w, "idle")
      /\ TurnOK(turn[w], inbox) /\ UNCHANGED inbox
  BY DEF BookingInv, TurnsOK, LookUp, At
<1>2. ASSUME Tells(w, Written(KeyOf(w).kind)) PROVE TurnsOK'
  <2>1. PICK outcome \in Outcomes : outcome = Written(KeyOf(w).kind)
    BY WrittenTypes
  <2> QED
    BY <1>1, <1>2, <2>1, TellsOK
<1>3. ASSUME turn' = [turn EXCEPT ![w].pc = "writing"] PROVE TurnsOK'
  <2> DEFINE t == [turn[w] EXCEPT !.pc = "writing"]
  <2>1. t \in Turn /\ t.pc = "writing" /\ t.key = turn[w].key /\ t.msg = turn[w].msg /\ t.live = turn[w].live
    BY <1>1 DEF Turn, Steps
  <2>2. turn' = [turn EXCEPT ![w] = t]
    BY <1>1, <1>3
  <2> HIDE DEF t
  <2>3. TurnOK(t, inbox)
    BY <1>1, <2>1 DEF TurnOK, Before, Writing, At
  <2> QED
    BY <1>1, <2>2, <2>3, TurnReplaced
<1>4. TurnsOK'
  BY <1>2, <1>3 DEF LookUp
<1> QED
  BY <1>4, AgendaUntouched DEF LookUp, BookingInv, StoryOK

LEMMA ReserveOK ==
  ASSUME BookingInv, NEW w \in Processes, Reserve(w)
  PROVE  /\ BookingInv'
         /\ Confirmed \subseteq Confirmed'
         /\ turn'[w].pc # "offering"
         /\ \A j \in Keys : appts'[j].supersedes = appts[j].supersedes
<1>1. /\ TurnsOK /\ AgendaOK /\ turn \in [Processes -> Turn] /\ turn[w].pc \in Writing /\ ~At(w, "idle")
      /\ UNCHANGED <<inbox, settled, turns, offers>>
  BY DEF BookingInv, TurnsOK, Reserve, At, Writing
<1>2. PICK k \in Keys : k = KeyOf(w)
  BY <1>1, KnowsItsKey
<1>3. \/ /\ Refusals(k, Confirmed) = {}
         /\ appts' = [appts EXCEPT ![k].status = "CONFIRMED"]
         /\ Tells(w, "BOOKED")
      \/ Doubts(w, Refusals(k, Confirmed)) /\ UNCHANGED appts
  BY <1>2 DEF Reserve
<1>4. CASE /\ Refusals(k, Confirmed) = {}
           /\ appts' = [appts EXCEPT ![k].status = "CONFIRMED"]
           /\ Tells(w, "BOOKED")
  <2>1. AgendaOK' /\ Confirmed' = Confirmed \cup {k}
    BY <1>1, <1>4, ReserveKeeps
  <2>2. TurnsOK' /\ turn'[w].pc = "told"
    <3>1. "BOOKED" \in Outcomes
      BY DEF Outcomes
    <3>2. TurnsOK'
      BY <1>1, <1>4, <3>1, TellsOK
    <3> QED
      BY <1>1, <1>4, <3>2 DEF Tells
  <2>3. \A j \in Keys : appts'[j].supersedes = appts[j].supersedes
    BY <1>1, <1>4 DEF AgendaOK
  <2> QED
    BY <1>1, <2>1, <2>2, <2>3 DEF BookingInv, StoryOK
<1>5. CASE Doubts(w, Refusals(k, Confirmed)) /\ UNCHANGED appts
  <2>1. PICK codes : codes = Refusals(k, Confirmed)
    OBVIOUS
  <2>2. TurnsOK' /\ turn'[w].pc = "doubting"
    BY <1>1, <1>5, <2>1, DoubtsOK
  <2>3. AgendaOK' /\ Confirmed' = Confirmed
    BY <1>1, <1>5, AgendaUntouched DEF Confirmed
  <2> QED
    BY <1>1, <1>5, <2>2, <2>3 DEF BookingInv, StoryOK
<1> QED
  BY <1>3, <1>4, <1>5

\* What an exchange of appointments does, if it does anything to them.
Exchanges(w) ==
    /\ CancelledRows(turn[w].live) # {}
    /\ Refusals(KeyOf(w), Confirmed \ CancelledRows(turn[w].live)) = {}
    /\ Moves(KeyOf(w), CancelledRows(turn[w].live))

LEMMA RescheduleOK ==
  ASSUME BookingInv, NEW w \in Processes, Reschedule(w)
  PROVE  /\ BookingInv'
         /\ Exchanges(w) \/ UNCHANGED appts
<1>1. /\ TurnsOK /\ AgendaOK /\ turn[w].pc \in Writing /\ ~At(w, "idle")
      /\ UNCHANGED <<inbox, settled, turns, offers>>
  BY DEF BookingInv, TurnsOK, Reschedule, At, Writing
<1>2. "WRITE_REFUSED" \in Outcomes /\ "RESCHEDULED" \in Outcomes
  BY DEF Outcomes
<1>3. \/ /\ Refuse(w, "WRITE_REFUSED")
         /\ UNCHANGED appts
      \/ Exchanges(w) /\ Tells(w, "RESCHEDULED")
      \/ /\ Doubts(w, Refusals(KeyOf(w), Confirmed \ CancelledRows(turn[w].live)))
         /\ UNCHANGED appts
  BY DEF Reschedule, Exchanges, Moves, RolledBack
<1>4. CASE Refuse(w, "WRITE_REFUSED") /\ UNCHANGED appts
  <2>1. TurnsOK'
    BY <1>1, <1>2, <1>4, RefuseOK
  <2> QED
    BY <1>1, <1>4, <2>1, AgendaUntouched DEF BookingInv, StoryOK
<1>5. CASE Exchanges(w) /\ Tells(w, "RESCHEDULED")
  <2>1. TurnsOK'
    BY <1>1, <1>2, <1>5, TellsOK
  <2>2. PICK k \in Keys : k = KeyOf(w)
    BY <1>1, KnowsItsKey
  <2>3. PICK previous \in SUBSET Confirmed : previous = CancelledRows(turn[w].live)
    BY <1>1, CancelsHisOwn
  <2>4. AgendaOK'
    BY <1>1, <1>5, <2>2, <2>3, MoveKeeps DEF Exchanges
  <2> QED
    BY <1>1, <1>5, <2>1, <2>4 DEF BookingInv, StoryOK
<1>6. CASE /\ Doubts(w, Refusals(KeyOf(w), Confirmed \ CancelledRows(turn[w].live)))
           /\ UNCHANGED appts
  <2>1. PICK codes : codes = Refusals(KeyOf(w), Confirmed \ CancelledRows(turn[w].live))
    OBVIOUS
  <2>2. TurnsOK'
    BY <1>1, <1>6, <2>1, DoubtsOK
  <2> QED
    BY <1>1, <1>6, <2>2, AgendaUntouched DEF BookingInv, StoryOK
<1> QED
  BY <1>3, <1>4, <1>5, <1>6

LEMMA AskAgainOK == ASSUME BookingInv, NEW w \in Processes, AskAgain(w) PROVE BookingInv'
<1>1. /\ TurnsOK /\ turn[w] \in Turn /\ ~At(w, "idle")
      /\ UNCHANGED <<inbox, settled, turns, appts, offers>>
  BY DEF BookingInv, TurnsOK, AskAgain, At
<1>2. PICK written \in Outcomes, refused \in Outcomes :
        written = Written(KeyOf(w).kind) /\ refused = turn[w].outcome
  BY <1>1, WrittenTypes DEF Turn
<1>3. TurnsOK'
  BY <1>1, <1>2, TellsOK, RefuseOK DEF AskAgain
<1> QED
  BY <1>1, <1>3, AgendaUntouched DEF BookingInv, StoryOK

LEMMA SettleOK == ASSUME BookingInv, NEW w \in Processes, Settle(w) PROVE BookingInv'
<1>1. TurnsOK /\ turn[w] \in Turn /\ turn' = [turn EXCEPT ![w] = NoTurn] /\ UNCHANGED inbox
  BY DEF BookingInv, TurnsOK, Settle
<1>2. TurnsOK'
  BY <1>1, NoTurnOK, TurnReplaced
<1>3. turn[w].msg \subseteq Messages
  BY <1>1 DEF Turn
<1> QED
  BY <1>2, <1>3, AgendaUntouched DEF Settle, BookingInv, StoryOK

LEMMA CrashOK == ASSUME BookingInv, NEW w \in Processes, Crash(w) PROVE BookingInv'
<1>1. TurnsOK'
  BY NoTurnOK, TurnReplaced DEF Crash, BookingInv
<1> QED
  BY <1>1, AgendaUntouched DEF Crash, BookingInv, StoryOK

-----------------------------------------------------------------------------
LEMMA BookingStep_Inv == BookingInv /\ [BookingNext]_bookingVars => BookingInv'
<1> SUFFICES ASSUME BookingInv, [BookingNext]_bookingVars PROVE BookingInv'
  OBVIOUS
<1>1. CASE UNCHANGED bookingVars
  BY <1>1 DEF bookingVars, BookingInv, StoryOK, AgendaOK, TurnsOK, Confirmed, From
<1>2. ASSUME NEW w \in Processes, TurnStep(w) \/ Crash(w) PROVE BookingInv'
  BY <1>2, BeginOK, ReadOK, DecideOK, OfferOK, CancelOK, LookUpOK, ReserveOK, RescheduleOK,
     AskAgainOK, SettleOK, CrashOK DEF TurnStep
<1> QED
  BY <1>1, <1>2 DEF BookingNext

LEMMA BookingInvHolds == BookingSpec => []BookingInv
  BY BookingInit_Inv, BookingStep_Inv, PTL DEF BookingSpec

\* Two confirmed appointments never overlap and a prospect has one at most,
\* whichever turns race, die and are taken again on snapshots that have aged.
THEOREM BookingTypeCorrect == BookingSpec => []BookingTypeOK
<1>1. BookingInv => BookingTypeOK
  BY DEF BookingInv, StoryOK, AgendaOK, TurnsOK, BookingTypeOK
<1> QED
  BY <1>1, BookingInvHolds, PTL

-----------------------------------------------------------------------------
(* What a step may do to the agenda *)

\* Only a reservation, an exchange and a cancellation write the agenda.
LEMMA AgendaStep ==
  ASSUME [BookingNext]_bookingVars
  PROVE  \/ UNCHANGED <<appts, inbox>>
         \/ \E w \in Processes : UNCHANGED inbox /\ (Reserve(w) \/ Reschedule(w) \/ Cancel(w))
<1>1. CASE UNCHANGED bookingVars
  BY <1>1 DEF bookingVars
<1>2. ASSUME NEW w \in Processes, TurnStep(w) \/ Crash(w)
      PROVE  UNCHANGED <<appts, inbox>> \/ (UNCHANGED inbox /\ (Reserve(w) \/ Reschedule(w) \/ Cancel(w)))
  BY <1>2 DEF TurnStep, Begin, Read, Decide, Offer, LookUp, AskAgain, Settle, Crash, Reserve, Reschedule, Cancel
<1> QED
  BY <1>1, <1>2 DEF BookingNext

\* The others' turns are as they were.
LEMMA OneTurnMoves ==
  ASSUME BookingInv, NEW v \in Processes, TurnStep(v) \/ Crash(v), NEW w \in Processes, w # v
  PROVE  turn'[w] = turn[w]
<1>1. turn \in [Processes -> Turn]
  BY DEF BookingInv, TurnsOK
<1>2. ASSUME NEW outcome, Tells(v, outcome) PROVE turn'[w] = turn[w]
  BY <1>1, <1>2 DEF Tells
<1>3. ASSUME NEW codes, Doubts(v, codes) PROVE turn'[w] = turn[w]
  BY <1>1, <1>3 DEF Doubts
<1>4. ASSUME NEW outcome, Refuse(v, outcome) PROVE turn'[w] = turn[w]
  BY <1>1, <1>4 DEF Refuse
<1>5. CASE \E m \in Messages : Begin(v, m)
  BY <1>1, <1>5 DEF Begin
<1>6. CASE \E what \in {"own", "busy"} : Read(v, what)
  <2>1. \E t : turn' = [turn EXCEPT ![v] = t]
    BY <1>6 DEF Read
  <2> QED
    BY <1>1, <2>1
<1>7. CASE Decide(v)
  <2>1. PICK d : DecidesTo(v, d)
    BY <1>7, DecideLeads
  <2> QED
    BY <1>1, <1>2, <2>1 DEF DecidesTo
<1>8. CASE Offer(v) \/ Cancel(v) \/ LookUp(v) \/ AskAgain(v)
  BY <1>1, <1>2, <1>4, <1>8 DEF Offer, Cancel, LookUp, AskAgain
<1>9. CASE Reserve(v) \/ Reschedule(v)
  BY <1>2, <1>3, <1>4, <1>9 DEF Reserve, Reschedule
<1>10. CASE Settle(v) \/ Crash(v)
  BY <1>1, <1>10 DEF Settle, Crash
<1> QED
  BY <1>5, <1>6, <1>7, <1>8, <1>9, <1>10 DEF TurnStep

\* What an exchange moves, and for whom.
LEMMA ExchangeMoves ==
  ASSUME BookingInv, NEW w \in Processes, Reschedule(w), Exchanges(w), UNCHANGED inbox
  PROVE  LET k == KeyOf(w)
             previous == CancelledRows(turn[w].live)
         IN  /\ k \in Keys /\ k \notin Confirmed
             /\ previous \subseteq Confirmed
             /\ \A j \in previous : From(j.msg) = From(k.msg) /\ appts'[j].status = "CANCELLED"
             /\ Confirmed' = (Confirmed \ previous) \cup {k}
             /\ \A j \in Keys : appts'[j].supersedes = IF j = k THEN previous ELSE appts[j].supersedes
<1>1. TurnsOK /\ AgendaOK /\ turn[w].pc \in Writing /\ ~At(w, "idle")
  BY DEF BookingInv, Reschedule, At, Writing
<1>2. PICK k \in Keys : k = KeyOf(w) /\ k.msg = MessageOf(w)
  BY <1>1, KnowsItsKey
<1>3. PICK previous \in SUBSET Confirmed :
        previous = CancelledRows(turn[w].live) /\ \A j \in previous : From(j.msg) = From(k.msg)
  BY <1>1, <1>2, CancelsHisOwn
<1>4. /\ Confirmed' = (Confirmed \ previous) \cup {k} /\ k \notin Confirmed
      /\ \A j \in previous : appts'[j].status = "CANCELLED"
      /\ \A j \in Keys : appts'[j].supersedes = IF j = k THEN previous ELSE appts[j].supersedes
  BY <1>1, <1>2, <1>3, MoveKeeps DEF Exchanges
<1> QED
  BY <1>2, <1>3, <1>4

\* A report moves an appointment its prospect still had: what it replaces is
\* confirmed up to that step, and cancelled in it.
THEOREM ReportMoves == BookingSpec => ReportMovesALiveOne
<1> DEFINE Moved == \A k \in Keys : \A j \in appts'[k].supersedes :
                        appts[k].status = "NONE" =>
                            appts[j].status = "CONFIRMED" /\ appts'[j].status = "CANCELLED" /\ From(j.msg) = From(k.msg)
<1>1. BookingInv /\ [BookingNext]_bookingVars => Moved
  <2> SUFFICES ASSUME BookingInv, [BookingNext]_bookingVars,
                      NEW k \in Keys, NEW j \in appts'[k].supersedes, appts[k].status = "NONE"
               PROVE  appts[j].status = "CONFIRMED" /\ appts'[j].status = "CANCELLED" /\ From(j.msg) = From(k.msg)
    OBVIOUS
  <2>1. appts[k].supersedes = {}
    BY DEF BookingInv, AgendaOK
  <2>2. CASE appts'[k].supersedes = appts[k].supersedes
    BY <2>1, <2>2
  <2>3. ASSUME NEW w \in Processes, UNCHANGED inbox, Reserve(w) PROVE appts'[k].supersedes = appts[k].supersedes
    BY <2>3, ReserveOK
  <2>4. ASSUME NEW w \in Processes, UNCHANGED inbox, Cancel(w) PROVE appts'[k].supersedes = appts[k].supersedes
    BY <2>4 DEF Cancel, BookingInv, AgendaOK
  <2>5. ASSUME NEW w \in Processes, UNCHANGED inbox, Reschedule(w)
        PROVE  \/ appts'[k].supersedes = appts[k].supersedes
               \/ appts[j].status = "CONFIRMED" /\ appts'[j].status = "CANCELLED" /\ From(j.msg) = From(k.msg)
    <3>1. CASE UNCHANGED appts
      BY <3>1
    <3>2. CASE Exchanges(w)
      <4>1. \A i \in Confirmed : appts[i].status = "CONFIRMED"
        BY DEF Confirmed
      <4> QED
        BY <2>5, <3>2, <4>1, ExchangeMoves
    <3> QED
      BY <2>5, <3>1, <3>2, RescheduleOK
  <2> QED
    BY <2>2, <2>3, <2>4, <2>5, AgendaStep
<1> HIDE DEF Moved
<1>2. BookingInv /\ [BookingNext]_bookingVars => [Moved]_bookingVars
  BY <1>1
<1>3. BookingSpec => [][Moved]_bookingVars
  BY <1>2, BookingInvHolds, PTL DEF BookingSpec
<1> QED
  BY <1>3 DEF ReportMovesALiveOne, Moved

\* Nobody loses an appointment without asking for it: one that ceases to be
\* confirmed was moved in the same step, or cancelled by a turn of its prospect.
THEOREM NobodyLoses == BookingSpec => NobodyLosesASlot
<1> DEFINE Asked == \A p \in Prospects :
                        LiveOf(p) # {} /\ LiveOf(p)' = {} =>
                            \E w \in Processes : At(w, "cancelling") /\ turn'[w].pc = "told" /\ From(MessageOf(w)) = p
<1>1. BookingInv /\ [BookingNext]_bookingVars => Asked
  <2> SUFFICES ASSUME BookingInv, [BookingNext]_bookingVars, NEW p \in Prospects, LiveOf(p) # {}, LiveOf(p)' = {}
               PROVE  \E w \in Processes : At(w, "cancelling") /\ turn'[w].pc = "told" /\ From(MessageOf(w)) = p
    OBVIOUS
  <2>1. PICK k \in Confirmed : From(k.msg) = p
    BY DEF LiveOf
  <2>2. ASSUME UNCHANGED inbox PROVE \A i \in Confirmed' : From(i.msg) # p
    BY <2>2 DEF LiveOf, From
  <2>3. ~UNCHANGED <<appts, inbox>>
    BY <2>1, <2>2 DEF Confirmed
  <2>4. ASSUME NEW w \in Processes, UNCHANGED inbox, Reserve(w) PROVE FALSE
    BY <2>1, <2>2, <2>4, ReserveOK
  <2>5. ASSUME NEW w \in Processes, UNCHANGED inbox, Reschedule(w) PROVE FALSE
    <3>1. ~UNCHANGED appts
      BY <2>3, <2>5
    <3>2. Exchanges(w)
      BY <2>5, <3>1, RescheduleOK
    <3> QED
      BY <2>1, <2>2, <2>5, <3>2, ExchangeMoves
  <2>6. ASSUME NEW w \in Processes, UNCHANGED inbox, Cancel(w)
        PROVE  At(w, "cancelling") /\ turn'[w].pc = "told" /\ From(MessageOf(w)) = p
    <3>1. At(w, "cancelling") /\ ~At(w, "idle") /\ TurnsOK
      BY <2>6 DEF Cancel, At, BookingInv
    <3>2. k \in CancelledRows(turn[w].live)
      BY <2>1, <2>2, <2>6, CancelOK
    <3>3. From(MessageOf(w)) = p
      BY <2>1, <3>1, <3>2, CancelsHisOwn
    <3>4. turn'[w].pc = "told"
      BY <2>6 DEF Cancel, Tells, BookingInv, TurnsOK, Turn
    <3> QED
      BY <3>1, <3>3, <3>4
  <2> QED
    BY <2>3, <2>4, <2>5, <2>6, AgendaStep
<1> HIDE DEF Asked
<1>2. BookingInv /\ [BookingNext]_bookingVars => [Asked]_bookingVars
  BY <1>1
<1>3. BookingSpec => [][Asked]_bookingVars
  BY <1>2, BookingInvHolds, PTL DEF BookingSpec
<1> QED
  BY <1>3 DEF NobodyLosesASlot, Asked

\* A reservation is never refused because of itself: only the second look at the
\* base leads from a reservation to a refusal, and it found no row of that key.
THEOREM NotRefusedItself == BookingSpec => NeverRefusedItsOwn
<1> DEFINE Other == \A w \in Processes :
                        /\ turn[w].key # {} /\ turn'[w].pc = "offering"
                        /\ KeyOf(w).kind = "BOOK"
                        => appts[KeyOf(w)].status = "NONE"
<1>1. BookingInv /\ [BookingNext]_bookingVars => Other
  <2> SUFFICES ASSUME BookingInv, [BookingNext]_bookingVars, NEW w \in Processes,
                      turn[w].key # {}, turn'[w].pc = "offering", KeyOf(w).kind = "BOOK"
               PROVE  appts[KeyOf(w)].status = "NONE"
    OBVIOUS
  <2>1. turn \in [Processes -> Turn] /\ turn[w] \in Turn /\ turn[w].pc \notin Before
    BY DEF BookingInv, TurnsOK, TurnOK
  <2>2. turn'[w] # turn[w]
    BY <2>1 DEF Before
  <2>3. ~UNCHANGED turn
    BY <2>2
  <2>4. ASSUME NEW v \in Processes, TurnStep(v) \/ Crash(v) PROVE v = w
    BY <2>2, <2>4, OneTurnMoves
  <2>5. TurnStep(w) \/ Crash(w)
    BY <2>3, <2>4 DEF BookingNext, bookingVars
  <2>6. ASSUME NEW outcome, Tells(w, outcome) PROVE FALSE
    BY <2>1, <2>6 DEF Tells, Turn
  <2>7. ~Crash(w) /\ ~Settle(w)
    BY <2>1 DEF Crash, Settle, NoTurn
  <2>8. /\ ~Offer(w) /\ ~Cancel(w) /\ ~Decide(w)
        /\ \A m \in Messages : ~Begin(w, m)
        /\ \A what \in {"own", "busy"} : ~Read(w, what)
    <3>1. ~At(w, "offering") /\ ~At(w, "cancelling") /\ ~At(w, "read") /\ ~At(w, "reading")
      BY <2>1 DEF At, Before
    <3>2. ASSUME NEW m \in Messages, Begin(w, m) PROVE FALSE
      BY <2>1, <3>2 DEF Begin, NoTurn
    <3> QED
      BY <3>1, <3>2 DEF Offer, Cancel, Decide, Read
  <2>9. ~LookUp(w)
    BY <2>1, <2>6 DEF LookUp, Turn
  <2>10. ~Reserve(w)
    BY ReserveOK
  <2>11. ~Reschedule(w)
    BY DEF Reschedule
  <2>12. AskAgain(w)
    BY <2>5, <2>7, <2>8, <2>9, <2>10, <2>11 DEF TurnStep
  <2> QED
    BY <2>6, <2>12 DEF AskAgain, IsOurs, KeyExists
<1> HIDE DEF Other
<1>2. BookingInv /\ [BookingNext]_bookingVars => [Other]_bookingVars
  BY <1>1
<1>3. BookingSpec => [][Other]_bookingVars
  BY <1>2, BookingInvHolds, PTL DEF BookingSpec
<1> QED
  BY <1>3 DEF NeverRefusedItsOwn, Other

=============================================================================
