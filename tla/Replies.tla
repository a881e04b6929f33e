------------------------------ MODULE Replies ------------------------------
(***************************************************************************)
(* What becomes of a prospect's replies: processReply, run over every      *)
(* message in a pass of processNewReplies by the inbound runtime.  One     *)
(* prospect, whose messages are numbered in the order of received_at.      *)
(* Several passes may run at once, stop anywhere and be run again; one     *)
(* step per statement or transaction.                                      *)
(*                                                                         *)
(* A message's turn: its burst, its reading by the model, the analysis,    *)
(* the exclusion list, the acknowledgement, the intention, the watermark.  *)
(***************************************************************************)
EXTENDS Integers, FiniteSets, FiniteSetsExt, SequencesExt

CONSTANTS
    Runtimes,      \* inbound runtimes, which run pass after pass
    Hands,         \* operators who have one message processed again (`only`)
    LastMessage,   \* bound: the messages are 1..LastMessage
    Clocks,        \* the times at which they may have been received
    Gap,           \* BURST_GAP_MS
    MaxBubbles,    \* BURST_MAX_MESSAGES
    ContextTurns,  \* CLASSIFIER_CONTEXT_TURNS
    Limit,         \* downstreamLimit, for each half of a pass
    Readings,      \* categories the model may give where no stop is written
    MaxHands,      \* bound: how many times an operator does so, or repairs the order
    MaxFaults,     \* bound: readings that fail and processes that die
    Incidents      \* within "late", "spoke", "crash", "fail", "repair"

Messages == 1..LastMessage

Workers == Runtimes \cup Hands

States == {"CONTACTED", "REPLIED", "INTERESTED", "NOT_NOW", "NOT_INTERESTED", "REVIEW_REQUIRED",
           "BOUNCED", "SUPPRESSED"}

Categories == {"INTERESTED", "QUESTION", "INFORMATION_SHARED", "OBJECTION", "NOT_NOW", "NOT_INTERESTED",
               "UNSUBSCRIBE", "AUTO_REPLY", "BOUNCE", "OTHER", "REVIEW_REQUIRED"}

ASSUME RepliesAssumption ==
    /\ LastMessage \in Nat /\ Gap \in Nat /\ ContextTurns \in Nat /\ MaxFaults \in Nat /\ MaxHands \in Nat
    /\ MaxBubbles \in Nat \ {0} /\ Limit \in Nat \ {0}
    /\ Clocks \subseteq [Messages -> Nat]
    /\ \A at \in Clocks : \A m \in Messages, n \in Messages : m < n => at[m] < at[n]
    /\ Readings \subseteq Categories

VARIABLES
    at,         \* received_at
    stops,      \* the messages whose text asks to stop
    arrived,    \* r6b_inbound_messages, correlated
    spoken,     \* m is in it when an exposed turn of ours comes just before m
    analyses,   \* the ACTIVE row of r6b_reply_analyses of each message
    judged,     \* every row there was: of which message, on which input
    absorbed,   \* r6b_inbound_burst_absorptions
    excluded,   \* is the address in do_not_contact?
    state,      \* r6b_prospect_outreach_states.state, NONE without a row
    watermark,  \* last_reply_received_at: the message received then, 0 for null
    journal,    \* r6b_prospect_state_transitions with a cause: the message, 0 for the sending
    audit,      \* the repair of the order between its reading and its writing
    faults,     \* how many readings failed and processes died, for the bound
    handed,     \* how many times an operator asked for a message or a repair, for the bound
    workers

dataVars == <<at, stops, arrived, spoken, analyses, judged, absorbed, excluded, state, watermark, journal>>
repliesVars == <<dataVars, audit, faults, handed, workers>>

---------------------------------------------------------------------------
(* The taxonomy.                                                           *)

\* CATEGORY_POLICY's nextState; NOT_NOW and NOT_INTERESTED are their own.
NextState(cat) ==
    CASE cat \in {"INTERESTED", "QUESTION", "OBJECTION"} -> "INTERESTED"
      [] cat \in {"INFORMATION_SHARED", "REVIEW_REQUIRED"} -> "REPLIED"
      [] cat \in {"NOT_NOW", "NOT_INTERESTED"} -> cat
      [] cat = "UNSUBSCRIBE" -> "SUPPRESSED"
      [] cat = "BOUNCE" -> "BOUNCED"
      [] cat = "OTHER" -> "REVIEW_REQUIRED"
      [] cat = "AUTO_REPLY" -> "NONE"

EvidencesHumanReply(cat) == cat \notin {"AUTO_REPLY", "BOUNCE"}

Suppresses(cat) == cat \in {"UNSUBSCRIBE", "BOUNCE"}

ShouldAcknowledge(cat, current) == EvidencesHumanReply(cat) /\ current = "CONTACTED"

\* intentTransitionTarget: REPLIED is a waiting, it replaces no conclusion.
IntentTarget(cat, before) ==
    IF NextState(cat) = "REPLIED" /\ before \notin {"NONE", "CONTACTED"} THEN "NONE" ELSE NextState(cat)

\* foldReplyOrder, over the analysed messages in the order of their reception.
FoldReplyOrder ==
    LET After(current, m) ==
            LET cat == analyses[m].cat
                intent == IntentTarget(cat, current)
            IN  CASE current = "SUPPRESSED" -> current
                  [] current # "SUPPRESSED" /\ intent # "NONE" -> intent
                  [] OTHER -> IF ShouldAcknowledge(cat, current) THEN "REPLIED" ELSE current
        Analysed == SetToSortSeq({m \in Messages : analyses[m].cat # "NONE"}, <)
    IN  FoldLeft(After, "CONTACTED", Analysed)

---------------------------------------------------------------------------
(* The thread and its bursts.                                              *)

Earlier(m) == {k \in arrived : k < m}

\* groupInboundBursts: how many bubbles the burst of m has once m is in it.  A
\* silence, a turn of ours or the bound closes the burst before.
BubblesUpTo ==
    LET Size[m \in Messages] ==
            IF Earlier(m) = {} THEN 1
            ELSE LET before == Max(Earlier(m))
                 IN  IF \/ at[m] - at[before] >= Gap
                        \/ \E k \in spoken : before < k /\ k <= m
                        \/ Size[before] >= MaxBubbles
                     THEN 1 ELSE Size[before] + 1
    IN  Size

ClosesBurst(m) == \A n \in arrived : n > m /\ Max(Earlier(n)) = m => BubblesUpTo[n] = 1

\* currentUtterance: the bubbles of the burst of m, up to m.
Utterance(m) == {k \in arrived : k <= m /\ \A n \in arrived : k < n /\ n <= m => BubblesUpTo[n] > 1}

\* precedingTurnsDigest: 2m - 1 is a turn of ours just before m, 2m is m, 0 is
\* the first message.
Preceding(m) ==
    LET turns == {0} \cup {2 * k : k \in Earlier(m)} \cup {2 * k - 1 : k \in {n \in spoken : n <= m}}
    IN  {t \in turns : Cardinality({u \in turns : u > t}) < ContextTurns}

---------------------------------------------------------------------------
NoAnalysis == [cat |-> "NONE", input |-> {}]

Idle == [pc |-> "idle", todo |-> {}, resumed |-> {}, msg |-> 0, before |-> "NONE", heard |-> {}, known |-> NoAnalysis,
         input |-> {}, cat |-> "NONE", target |-> "NONE"]

NoAudit == [step |-> "NONE", target |-> "NONE", latest |-> 0]

Steps == {"idle", "taking", "reading", "suppressing", "acknowledging", "acknowledged", "intending",
          "intended", "noting"}

Analysis == [cat : Categories \cup {"NONE"}, input : SUBSET (0..2 * LastMessage)]

Worker == [pc : Steps, todo : SUBSET Messages, resumed : SUBSET Messages, msg : 0..LastMessage, before : States \cup {"NONE"},
           heard : SUBSET Messages, known : Analysis, input : SUBSET (0..2 * LastMessage),
           cat : Categories \cup {"NONE"}, target : States \cup {"NONE"}]

Causes == 0..LastMessage

RepliesInit ==
    /\ at \in Clocks
    /\ stops \in SUBSET Messages
    /\ arrived = {} /\ spoken = {} /\ absorbed = {} /\ judged = {} /\ journal = {}
    /\ analyses = [m \in Messages |-> NoAnalysis]
    /\ excluded = FALSE /\ state = "NONE" /\ watermark = 0
    /\ audit = NoAudit /\ faults = 0 /\ handed = 0
    /\ workers = [w \in Workers |-> Idle]

---------------------------------------------------------------------------
(* The world.                                                              *)

\* A message is collected; out of the order of its reception when "late".
Arrive(m) ==
    /\ m \notin arrived
    /\ "late" \notin Incidents => \A k \in Messages : k < m => k \in arrived
    /\ arrived' = arrived \cup {m}
    /\ UNCHANGED <<at, stops, spoken, analyses, judged, absorbed, excluded, state, watermark, journal,
                   audit, faults, handed, workers>>

\* A turn of ours enters the thread, at the hour it was begun: before a message
\* yet to come, or, when "spoke", before one already collected.
Speak(m) ==
    /\ m \notin spoken
    /\ "spoke" \notin Incidents => m \notin arrived
    /\ spoken' = spoken \cup {m}
    /\ UNCHANGED <<at, stops, arrived, analyses, judged, absorbed, excluded, state, watermark, journal,
                   audit, faults, handed, workers>>

---------------------------------------------------------------------------
(* processNewReplies and processReply.                                     *)

Pending == {m \in arrived : analyses[m].cat = "NONE" /\ m \notin absorbed}
Analysed == {m \in arrived : analyses[m].cat # "NONE"}

\* The `limit` oldest by received_at.
Oldest(S) == {m \in S : Cardinality({k \in S : k < m}) < Limit}

\* A pass that takes nothing up again of what has its analysis.
Resumed_Nothing == {}

\* loadAnalyzedCorrelatedInbound: the second half of a pass, after the messages
\* loadUnprocessedCorrelatedInbound gives.
Resumed == Oldest(Analysed)

\* The messages a pass has left: pending ones, then those resumed.
Onward(todo, resumed) ==
    IF todo \cup resumed = {} THEN Idle
    ELSE [Idle EXCEPT !.pc = "taking", !.todo = todo, !.resumed = resumed]

\* processNewReplies.
StartPass(w) ==
    /\ w \in Runtimes
    /\ workers[w].pc = "idle" /\ Pending \cup Analysed # {}
    /\ workers' = [workers EXCEPT ![w] = Onward(Oldest(Pending), Resumed)]
    /\ UNCHANGED <<dataVars, audit, faults, handed>>

\* An operator has one message processed again.
HandOver(w, m) ==
    /\ w \in Hands /\ handed < MaxHands
    /\ workers[w].pc = "idle" /\ m \in arrived
    /\ workers' = [workers EXCEPT ![w] = Onward({m}, {})]
    /\ handed' = handed + 1
    /\ UNCHANGED <<dataVars, audit, faults>>

\* The message of its turn is done with, or given up.
NextMessage(w) == Onward(workers[w].todo, workers[w].resumed)

\* The context, ensureContacted, the thread of message m.  A bubble another one
\* follows is absorbed; an analysis on the same input is taken up, whatever is
\* read of it.
Open(w, m, todo, resumed) ==
    LET took == [Idle EXCEPT !.todo = todo, !.resumed = resumed, !.msg = m,
                             !.before = IF state = "NONE" THEN "CONTACTED" ELSE state]
    IN  /\ state' = (IF state = "NONE" THEN "CONTACTED" ELSE state)
        /\ journal' = (IF state = "NONE" THEN journal \cup {<<0, "CONTACTED">>} ELSE journal)
        /\ \/ /\ ~ClosesBurst(m)
              /\ absorbed' = absorbed \cup {m}
              /\ workers' = [workers EXCEPT ![w] = Onward(todo, resumed)]
           \/ /\ ClosesBurst(m)
              /\ UNCHANGED absorbed
              /\ workers' = [workers EXCEPT ![w] =
                     IF analyses[m].cat # "NONE" /\ analyses[m].input = Preceding(m)
                     THEN [took EXCEPT !.pc = "suppressing", !.cat = analyses[m].cat]
                     ELSE [took EXCEPT !.pc = "reading", !.input = Preceding(m), !.heard = Utterance(m),
                                       !.known = analyses[m]]]
        /\ UNCHANGED <<at, stops, arrived, spoken, analyses, judged, excluded, watermark, audit, faults, handed>>

First(S) == {m \in S : \A k \in S : m <= k}

\* The loop of a pass, oldest first.
Take(w) ==
    LET me == workers[w]
    IN  /\ me.pc = "taking"
        /\ \/ \E m \in First(me.todo) : Open(w, m, me.todo \ {m}, me.resumed)
           \/ me.todo = {} /\ \E m \in First(me.resumed) : Open(w, m, {}, me.resumed \ {m})

\* decideCategory: a stop written in the utterance is one, whatever the model says.
Read(heard) == IF heard \cap stops # {} THEN {"UNSUBSCRIBE"} ELSE Readings

\* runConversationTurn and persistAnalysis: the live row if it answers the same
\* question, else a new one in its place.
Persist(w) ==
    LET me == workers[w]
        m == me.msg
        Go(cat) == [me EXCEPT !.pc = "suppressing", !.cat = cat, !.heard = {}, !.known = NoAnalysis, !.input = {}]
    IN  /\ me.pc = "reading"
        /\ \/ /\ analyses[m].cat # "NONE" /\ analyses[m].input = me.input
              /\ workers' = [workers EXCEPT ![w] = Go(analyses[m].cat)]
              /\ UNCHANGED <<analyses, judged>>
           \/ /\ <<m, me.input>> \notin judged
              /\ \E cat \in Read(me.heard) :
                     /\ analyses' = [analyses EXCEPT ![m] = [cat |-> cat, input |-> me.input]]
                     /\ judged' = judged \cup {<<m, me.input>>}
                     /\ workers' = [workers EXCEPT ![w] = Go(cat)]
        /\ UNCHANGED <<at, stops, arrived, spoken, absorbed, excluded, state, watermark, journal, audit, faults, handed>>

\* AnalysisHistoryConflict; or the unique index, when another process replaced
\* the row since this one read it.  The pass goes on to its next message.
PersistRaises(w) ==
    LET me == workers[w]
    IN  /\ me.pc = "reading"
        /\ \/ <<me.msg, me.input>> \in judged /\ analyses[me.msg].input # me.input
           \/ analyses[me.msg] # me.known
        /\ workers' = [workers EXCEPT ![w] = NextMessage(w)]
        /\ UNCHANGED <<dataVars, audit, faults, handed>>

\* ClassificationFailure: nothing is written.
ReadingFails(w) ==
    /\ "fail" \in Incidents /\ faults < MaxFaults
    /\ workers[w].pc = "reading"
    /\ workers' = [workers EXCEPT ![w] = NextMessage(w)]
    /\ faults' = faults + 1
    /\ UNCHANGED <<dataVars, audit, handed>>

\* The address is excluded once the state says so, at the next pass.
Suppress_AfterTheState(w) ==
    /\ workers[w].pc = "suppressing"
    /\ excluded' = (excluded \/ state \in {"SUPPRESSED", "BOUNCED"})
    /\ workers' = [workers EXCEPT ![w].pc = "acknowledging"]
    /\ UNCHANGED <<at, stops, arrived, spoken, analyses, judged, absorbed, state, watermark, journal,
                   audit, faults, handed>>

\* suppressOutbound, before anything is said of the state.
Suppress(w) ==
    /\ workers[w].pc = "suppressing"
    /\ excluded' = (excluded \/ Suppresses(workers[w].cat))
    /\ workers' = [workers EXCEPT ![w].pc = "acknowledging"]
    /\ UNCHANGED <<at, stops, arrived, spoken, analyses, judged, absorbed, state, watermark, journal,
                   audit, faults, handed>>

\* The watermark is the hour of the processing, not of the reception.
Considered_Now(m) == LastMessage

\* The watermark is the last message processed, not the last received.
Considered_AsProcessed(m) == m

\* noteReplyConsidered.
Considered(m) == IF watermark < m THEN m ELSE watermark

\* The reading half of applyTransition: what a reply may still decide.
MayDecide(m, target) == watermark <= m /\ state # target /\ state # "SUPPRESSED"

\* acknowledgeReply, up to the transaction.
Acknowledge(w) ==
    LET me == workers[w]
    IN  /\ me.pc = "acknowledging"
        /\ workers' = [workers EXCEPT ![w].pc =
               IF ShouldAcknowledge(me.cat, state) /\ MayDecide(me.msg, "REPLIED") THEN "acknowledged" ELSE "intending"]
        /\ UNCHANGED <<dataVars, audit, faults, handed>>

\* The transition of the intention, up to the transaction.
Intend(w) ==
    LET me == workers[w]
        target == IntentTarget(me.cat, me.before)
    IN  /\ me.pc = "intending"
        /\ IF target # "NONE" /\ MayDecide(me.msg, target)
           THEN /\ workers' = [workers EXCEPT ![w].pc = "intended", ![w].target = target]
                /\ UNCHANGED watermark
           ELSE /\ workers' = [workers EXCEPT ![w].pc = "noting"]
                /\ watermark' = (IF target = state THEN Considered(me.msg) ELSE watermark)
        /\ UNCHANGED <<at, stops, arrived, spoken, analyses, judged, absorbed, excluded, state, journal,
                       audit, faults, handed>>

\* The upsert without its `where`: what was read before the transaction decides.
RowAccepts_AsRead(m) == TRUE

\* The `where` of applyTransition's upsert, on the row as it is at that time.
RowAccepts(m) == state # "SUPPRESSED" /\ watermark <= m

\* The transaction of applyTransition: the unique journal line and the state, or
\* neither.
Write(w) ==
    LET me == workers[w]
        target == IF me.pc = "acknowledged" THEN "REPLIED" ELSE me.target
    IN  /\ me.pc \in {"acknowledged", "intended"}
        /\ workers' = [workers EXCEPT ![w].pc = IF me.pc = "acknowledged" THEN "intending" ELSE "noting",
                                      ![w].target = "NONE"]
        /\ IF <<me.msg, target>> \notin journal /\ RowAccepts(me.msg)
           THEN /\ journal' = journal \cup {<<me.msg, target>>}
                /\ state' = target
                /\ watermark' = Considered(me.msg)
           ELSE UNCHANGED <<journal, state, watermark>>
        /\ UNCHANGED <<at, stops, arrived, spoken, analyses, judged, absorbed, excluded, audit, faults, handed>>

Note(w) ==
    LET me == workers[w]
    IN  /\ me.pc = "noting"
        /\ watermark' = (IF EvidencesHumanReply(me.cat) THEN Considered(me.msg) ELSE watermark)
        /\ workers' = [workers EXCEPT ![w] = NextMessage(w)]
        /\ UNCHANGED <<at, stops, arrived, spoken, analyses, judged, absorbed, excluded, state, journal,
                       audit, faults, handed>>

Crash(w) ==
    /\ "crash" \in Incidents /\ faults < MaxFaults
    /\ workers[w].pc # "idle"
    /\ workers' = [workers EXCEPT ![w] = Idle]
    /\ faults' = faults + 1
    /\ UNCHANGED <<dataVars, audit, handed>>

---------------------------------------------------------------------------
(* repairReplyOrdering, which an operator runs.                            *)

\* judgeOrder: DIVERGENT, with the state expected and the latest reply.
AuditOrder ==
    /\ "repair" \in Incidents /\ audit = NoAudit /\ handed < MaxHands
    /\ Analysed = arrived
    /\ state \notin {"NONE", "SUPPRESSED", FoldReplyOrder}
    /\ \E target \in States \ {"SUPPRESSED"}, m \in Analysed :
           /\ target = FoldReplyOrder
           /\ \A k \in Analysed : k <= m
           /\ audit' = [step |-> "repairing", target |-> target, latest |-> m]
    /\ handed' = handed + 1
    /\ UNCHANGED <<dataVars, faults, workers>>

\* applyTransition as a human: neither the watermark nor SUPPRESSED stops it.
RepairOrder ==
    /\ audit.step = "repairing"
    /\ state' = audit.target
    /\ audit' = (IF state = audit.target THEN NoAudit ELSE [audit EXCEPT !.step = "noting"])
    /\ UNCHANGED <<at, stops, arrived, spoken, analyses, judged, absorbed, excluded, watermark, journal,
                   faults, handed, workers>>

\* The watermark follows the state it protects.
NoteRepair ==
    /\ audit.step = "noting"
    /\ watermark' = Considered(audit.latest)
    /\ audit' = NoAudit
    /\ UNCHANGED <<at, stops, arrived, spoken, analyses, judged, absorbed, excluded, state, journal,
                   faults, handed, workers>>

---------------------------------------------------------------------------
Process(w) ==
    \/ StartPass(w) \/ Take(w) \/ Persist(w) \/ PersistRaises(w) \/ Suppress(w)
    \/ Acknowledge(w) \/ Intend(w) \/ Write(w) \/ Note(w)

RepliesNext ==
    \/ \E m \in Messages : Arrive(m) \/ Speak(m)
    \/ \E w \in Workers : Process(w) \/ ReadingFails(w) \/ Crash(w)
    \/ \E w \in Workers, m \in Messages : HandOver(w, m)
    \/ AuditOrder \/ RepairOrder \/ NoteRepair

RepliesSpec == RepliesInit /\ [][RepliesNext]_repliesVars

(* The inbound runtime runs a pass at every tick and a pass runs to its    *)
(* end; nobody has to write, and nothing has to fail.                      *)
FairRepliesSpec == RepliesSpec /\ \A w \in Runtimes : WF_repliesVars(Process(w))

---------------------------------------------------------------------------
(* The columns have the values their CHECKs list, a conclusion is live only *)
(* if it was drawn, and the watermark is a message there is.               *)
RepliesTypeOK ==
    /\ at \in Clocks /\ stops \in SUBSET Messages
    /\ arrived \in SUBSET Messages /\ spoken \in SUBSET Messages /\ absorbed \in SUBSET arrived
    /\ analyses \in [Messages -> Analysis]
    /\ judged \in SUBSET (arrived \X SUBSET (0..2 * LastMessage))
    /\ \A m \in Messages : analyses[m].cat # "NONE" => <<m, analyses[m].input>> \in judged
    /\ excluded \in BOOLEAN
    /\ state \in States \cup {"NONE"} /\ (state = "NONE" => journal = {})
    /\ watermark \in arrived \cup {0}
    /\ journal \in SUBSET (Causes \X States)
    /\ audit \in [step : {"NONE", "repairing", "noting"}, target : States \cup {"NONE"}, latest : 0..LastMessage]
    /\ faults \in 0..MaxFaults /\ handed \in 0..MaxHands
    /\ workers \in [Workers -> Worker]

(* "La SUPPRESSION précède la transition d'état": no process, wherever it  *)
(* dies, leaves a prospect marked SUPPRESSED whose address is not in the    *)
(* exclusion list.                                                         *)
ExclusionComesFirst == state = "SUPPRESSED" => excluded

(* A reply that is recorded as having moved the state was received no      *)
(* earlier than any reply taken into account before, whatever the order    *)
(* the passes took them in; and the watermark never falls.                 *)
LaterReplyDecides ==
    [][ /\ watermark' >= watermark
        /\ \A row \in journal' \ journal : row[1] # 0 => row[1] >= watermark ]_repliesVars

(* Only a person takes a prospect out of SUPPRESSED.                       *)
StopIsTerminal ==
    [][state = "SUPPRESSED" /\ state' # "SUPPRESSED" => audit.step = "repairing" /\ state' = audit.target]_repliesVars

\* The burst of m has been read as it is now, and a slower process has put back a
\* reading made on less of the conversation.
OlderReadingPutBack(m) ==
    \E c \in arrived :
        /\ m \in Utterance(c) /\ ClosesBurst(c)
        /\ <<c, Preceding(c)>> \in judged /\ analyses[c].input # Preceding(c)

(* A stop that was received is in the exclusion list in the end, in        *)
(* whichever bubble of whichever burst it was written, whatever pass died  *)
(* on it; unless the reading that heard it is superseded for ever by one   *)
(* made on less.  Then it is lost: a pass that opened the burst before the *)
(* stop came writes its analysis over the one that holds the stop, whose   *)
(* pass died before suppressOutbound, and persistAnalysis raises at every  *)
(* later pass.  The property says that this is the only way to lose one.   *)
StopIsHeardUnlessPutBack ==
    \A m \in Messages : (m \in arrived /\ m \in stops) ~> (excluded \/ []OlderReadingPutBack(m))

---------------------------------------------------------------------------
(* What the comments say of it.                                            *)

(* processReply's comment on bursts: the stop in particular cannot be      *)
(* lost.                                                                   *)
EveryStopIsHeard == \A m \in Messages : (m \in arrived /\ m \in stops) ~> excluded

(* process.ts says that when a process dies between the exclusion and the  *)
(* state, the state catches up at the next pass.                           *)
StateCatchesUp ==
    \A m \in Messages : (analyses[m].cat = "UNSUBSCRIBE" /\ excluded) ~> (state = "SUPPRESSED")

(* taxonomy.ts: REPLIED, a waiting, never replaces a conclusion.           *)
WaitingReplacesNothing == [][state \notin {"NONE", "CONTACTED", "REPLIED"} => state' # "REPLIED"]_repliesVars
=============================================================================
