--------------------------- MODULE Replies_proofs ---------------------------
(***************************************************************************)
(* What processReply never does to the state of a prospect, for any number *)
(* of runtimes, operators and messages, whatever is lost on the way.       *)
(***************************************************************************)
EXTENDS Replies, TLAPS

\* The steps at which a message has its conclusion, and those past the exclusion.
Concluded == {"suppressing", "acknowledging", "acknowledged", "intending", "intended", "noting"}
PastExclusion == Concluded \ {"suppressing"}

\* A process, when `known` are the messages collected and `out` says whether the
\* address is excluded.
WorkerOK(r, known, out) ==
    /\ r \in Worker
    /\ r.todo \subseteq known /\ r.resumed \subseteq known
    /\ r.pc \notin {"idle", "taking"} => r.msg \in known
    /\ r.pc \in Concluded => r.cat \in Categories
    /\ r.pc \in PastExclusion /\ r.cat = "UNSUBSCRIBE" => out
    /\ r.pc = "intended" => r.target \in States
    /\ r.pc = "intended" /\ r.target = "SUPPRESSED" => out

WorkersOK ==
    /\ workers \in [Workers -> Worker]
    /\ \A w \in Workers : WorkerOK(workers[w], arrived, excluded)

AuditOK ==
    /\ audit \in [step : {"NONE", "repairing", "noting"}, target : States \cup {"NONE"}, latest : 0..LastMessage]
    /\ audit.step # "NONE" => audit.target \in States \ {"SUPPRESSED"} /\ audit.latest \in arrived

ThreadOK ==
    /\ at \in Clocks /\ stops \in SUBSET Messages
    /\ arrived \in SUBSET Messages /\ spoken \in SUBSET Messages /\ absorbed \in SUBSET arrived

AnalysesOK ==
    /\ analyses \in [Messages -> Analysis]
    /\ judged \in SUBSET (arrived \X SUBSET (0..2 * LastMessage))
    /\ \A m \in Messages : analyses[m].cat # "NONE" => <<m, analyses[m].input>> \in judged

StateOK ==
    /\ excluded \in BOOLEAN
    /\ state \in States \cup {"NONE"} /\ (state = "NONE" => journal = {})
    /\ watermark \in arrived \cup {0}
    /\ journal \in SUBSET (Causes \X States)
    /\ ExclusionComesFirst

BoundsOK == faults \in 0..MaxFaults /\ handed \in 0..MaxHands

RepliesInv == ThreadOK /\ AnalysesOK /\ StateOK /\ AuditOK /\ BoundsOK /\ WorkersOK

---------------------------------------------------------------------------
LEMMA MessagesAreNumbers == Messages \subseteq Nat /\ Messages \subseteq 0..LastMessage
  BY RepliesAssumption DEF Messages

LEMMA PrecedingTyped ==
  ASSUME ThreadOK, NEW m \in Messages PROVE Preceding(m) \in SUBSET (0..2 * LastMessage)
<1> DEFINE turns == {0} \cup {2 * k : k \in Earlier(m)} \cup {2 * k - 1 : k \in {n \in spoken : n <= m}}
<1>1. LastMessage \in Nat
  BY RepliesAssumption
<1>2. \A k \in Messages : 2 * k \in 0..2 * LastMessage /\ 2 * k - 1 \in 0..2 * LastMessage
  BY <1>1 DEF Messages
<1>3. Earlier(m) \subseteq Messages /\ {n \in spoken : n <= m} \subseteq Messages
  BY DEF ThreadOK, Earlier
<1>4. turns \subseteq 0..2 * LastMessage
  BY <1>1, <1>2, <1>3
<1> QED
  BY <1>4 DEF Preceding

LEMMA WorkerReplaced ==
  ASSUME WorkersOK, NEW w \in Workers, NEW r, workers' = [workers EXCEPT ![w] = r],
         WorkerOK(r, arrived', excluded'), arrived \subseteq arrived', excluded => excluded'
  PROVE  WorkersOK'
<1>1. ASSUME NEW v \in Workers PROVE WorkerOK(workers'[v], arrived', excluded')
  <2>1. CASE v = w
    BY <2>1 DEF WorkersOK
  <2>2. CASE v # w
    <3>1. workers'[v] = workers[v] /\ WorkerOK(workers[v], arrived, excluded)
      BY <2>2 DEF WorkersOK
    <3> QED
      BY <3>1 DEF WorkerOK
  <2> QED
    BY <2>1, <2>2
<1>2. r \in Worker
  BY DEF WorkerOK
<1> QED
  BY <1>1, <1>2 DEF WorkersOK

LEMMA WorkersUntouched ==
  ASSUME WorkersOK, UNCHANGED workers, arrived \subseteq arrived', excluded => excluded'
  PROVE  WorkersOK'
  BY DEF WorkersOK, WorkerOK

LEMMA NothingTyped == NoAnalysis \in Analysis /\ {} \in SUBSET (0..2 * LastMessage) /\ 0 \in 0..LastMessage
  BY RepliesAssumption DEF NoAnalysis, Analysis

LEMMA IdleOK == ASSUME NEW known, NEW out PROVE WorkerOK(Idle, known, out)
  BY NothingTyped DEF WorkerOK, Worker, Idle, Steps, Concluded, PastExclusion

LEMMA TakingOK ==
  ASSUME NEW known \in SUBSET Messages, NEW out, NEW todo \in SUBSET known, NEW resumed \in SUBSET known
  PROVE  WorkerOK([Idle EXCEPT !.pc = "taking", !.todo = todo, !.resumed = resumed], known, out)
<1> DEFINE r == [Idle EXCEPT !.pc = "taking", !.todo = todo, !.resumed = resumed]
<1>1. r \in Worker
  BY NothingTyped DEF Worker, Idle, Steps
<1>2. r.pc = "taking" /\ r.todo \subseteq known /\ r.resumed \subseteq known
  BY DEF Idle
<1> QED
  BY <1>1, <1>2 DEF WorkerOK, Concluded, PastExclusion

LEMMA OnwardOK ==
  ASSUME NEW known \in SUBSET Messages, NEW out, NEW todo \in SUBSET known, NEW resumed \in SUBSET known
  PROVE  WorkerOK(Onward(todo, resumed), known, out)
  BY IdleOK, TakingOK DEF Onward

---------------------------------------------------------------------------
LEMMA InitInv == RepliesInit => RepliesInv
<1> SUFFICES ASSUME RepliesInit PROVE RepliesInv
  OBVIOUS
<1>1. ThreadOK /\ AnalysesOK /\ BoundsOK
  BY NothingTyped, RepliesAssumption DEF RepliesInit, ThreadOK, AnalysesOK, BoundsOK, NoAnalysis
<1>2. StateOK /\ AuditOK
  BY NothingTyped DEF RepliesInit, StateOK, AuditOK, ExclusionComesFirst, NoAudit
<1>3. WorkersOK
  BY IdleOK DEF RepliesInit, WorkersOK, WorkerOK
<1> QED
  BY <1>1, <1>2, <1>3 DEF RepliesInv

\* The state and the watermark of a step that touches neither.
LEMMA WorldKept ==
  ASSUME RepliesInv, arrived \subseteq arrived', arrived' \subseteq Messages,
         UNCHANGED <<excluded, state, watermark, journal, audit>>
  PROVE  StateOK' /\ AuditOK'
  BY DEF RepliesInv, StateOK, AuditOK, ExclusionComesFirst

LEMMA StepArrive == ASSUME RepliesInv, NEW m \in Messages, Arrive(m) PROVE RepliesInv'
<1>1. arrived \subseteq arrived' /\ arrived' \subseteq Messages
  BY DEF RepliesInv, ThreadOK, Arrive
<1>2. ThreadOK' /\ AnalysesOK' /\ BoundsOK'
  BY DEF RepliesInv, ThreadOK, AnalysesOK, BoundsOK, Arrive
<1>3. StateOK' /\ AuditOK'
  BY <1>1, WorldKept DEF Arrive
<1>4. WorkersOK'
  BY <1>1, WorkersUntouched DEF RepliesInv, Arrive
<1> QED
  BY <1>2, <1>3, <1>4 DEF RepliesInv

LEMMA StepSpeak == ASSUME RepliesInv, NEW m \in Messages, Speak(m) PROVE RepliesInv'
<1>1. ThreadOK' /\ AnalysesOK' /\ BoundsOK'
  BY DEF RepliesInv, ThreadOK, AnalysesOK, BoundsOK, Speak
<1>2. arrived' \subseteq Messages
  BY DEF RepliesInv, ThreadOK, Speak
<1>3. StateOK' /\ AuditOK'
  BY <1>2, WorldKept DEF Speak
<1>4. WorkersOK'
  BY WorkersUntouched DEF RepliesInv, Speak
<1> QED
  BY <1>1, <1>3, <1>4 DEF RepliesInv

\* A step of a process that writes nothing.
LEMMA OnlyTheWorker ==
  ASSUME RepliesInv, NEW w \in Workers, NEW r, workers' = [workers EXCEPT ![w] = r],
         WorkerOK(r, arrived, excluded), UNCHANGED <<dataVars, audit>>, BoundsOK'
  PROVE  RepliesInv'
<1>1. ThreadOK' /\ AnalysesOK' /\ StateOK' /\ AuditOK'
  BY DEF RepliesInv, dataVars, ThreadOK, AnalysesOK, StateOK, AuditOK, ExclusionComesFirst
<1>2. WorkersOK'
  BY WorkerReplaced DEF RepliesInv, dataVars
<1> QED
  BY <1>1, <1>2 DEF RepliesInv

LEMMA StepStartPass == ASSUME RepliesInv, NEW w \in Workers, StartPass(w) PROVE RepliesInv'
<1>1. Oldest(Pending) \in SUBSET arrived /\ Resumed \in SUBSET arrived /\ arrived \in SUBSET Messages
  BY DEF Oldest, Pending, Resumed, Analysed, RepliesInv, ThreadOK
<1>2. WorkerOK(Onward(Oldest(Pending), Resumed), arrived, excluded)
  BY <1>1, OnwardOK
<1>3. BoundsOK'
  BY DEF StartPass, BoundsOK, RepliesInv
<1> QED
  BY <1>2, <1>3, OnlyTheWorker DEF StartPass

LEMMA StepHandOver == ASSUME RepliesInv, NEW w \in Workers, NEW m \in Messages, HandOver(w, m) PROVE RepliesInv'
<1>1. arrived \in SUBSET Messages /\ {m} \in SUBSET arrived /\ {} \in SUBSET arrived
  BY DEF RepliesInv, ThreadOK, HandOver
<1>2. WorkerOK(Onward({m}, {}), arrived, excluded)
  BY <1>1, OnwardOK
<1>3. BoundsOK'
  BY RepliesAssumption DEF HandOver, BoundsOK, RepliesInv
<1> QED
  BY <1>2, <1>3, OnlyTheWorker DEF HandOver

\* What is left of a pass when its message is given up or done with.
LEMMA NextMessageOK ==
  ASSUME RepliesInv, NEW w \in Workers PROVE WorkerOK(NextMessage(w), arrived, excluded)
<1>1. workers[w].todo \in SUBSET arrived /\ workers[w].resumed \in SUBSET arrived
  BY DEF RepliesInv, WorkersOK, WorkerOK
<1>2. arrived \in SUBSET Messages
  BY DEF RepliesInv, ThreadOK
<1> QED
  BY <1>1, <1>2, OnwardOK DEF NextMessage

LEMMA StepGiveUp ==
  ASSUME RepliesInv, NEW w \in Workers, PersistRaises(w) \/ ReadingFails(w) \/ Crash(w) PROVE RepliesInv'
<1>1. BoundsOK'
  BY RepliesAssumption DEF RepliesInv, BoundsOK, PersistRaises, ReadingFails, Crash
<1>2. UNCHANGED <<dataVars, audit>>
  BY DEF PersistRaises, ReadingFails, Crash
<1>3. CASE Crash(w)
  BY <1>1, <1>2, <1>3, IdleOK, OnlyTheWorker DEF Crash
<1>4. CASE PersistRaises(w) \/ ReadingFails(w)
  BY <1>1, <1>2, <1>4, NextMessageOK, OnlyTheWorker DEF PersistRaises, ReadingFails
<1> QED
  BY <1>3, <1>4

---------------------------------------------------------------------------
(* The steps of processReply that write.                                   *)

LEMMA OpenKeeps ==
  ASSUME RepliesInv, NEW w \in Workers, NEW m \in arrived, NEW todo \in SUBSET arrived,
         NEW resumed \in SUBSET arrived, Open(w, m, todo, resumed)
  PROVE  RepliesInv'
<1> DEFINE before == IF state = "NONE" THEN "CONTACTED" ELSE state
           took == [Idle EXCEPT !.todo = todo, !.resumed = resumed, !.msg = m, !.before = before]
           resume == [took EXCEPT !.pc = "suppressing", !.cat = analyses[m].cat]
           read == [took EXCEPT !.pc = "reading", !.input = Preceding(m), !.heard = Utterance(m),
                                !.known = analyses[m]]
<1>1. arrived \in SUBSET Messages /\ m \in Messages /\ m \in 0..LastMessage /\ before \in States
  BY MessagesAreNumbers DEF RepliesInv, ThreadOK, StateOK, States
<1>2. analyses[m] \in Analysis
  BY <1>1 DEF RepliesInv, AnalysesOK
<1>3. UNCHANGED <<at, stops, arrived, spoken, analyses, judged, excluded, watermark, audit, faults, handed>>
  BY DEF Open
<1>4. ThreadOK' /\ AnalysesOK' /\ AuditOK' /\ BoundsOK'
  <2>1. absorbed' \in SUBSET arrived
    BY DEF Open, RepliesInv, ThreadOK
  <2> QED
    BY <1>3, <2>1 DEF RepliesInv, ThreadOK, AnalysesOK, AuditOK, BoundsOK
<1>5. StateOK'
  <2>1. <<0, "CONTACTED">> \in Causes \X States
    BY NothingTyped DEF Causes, States
  <2>2. state' = before /\ (journal' = journal \/ journal' = journal \cup {<<0, "CONTACTED">>})
    BY DEF Open
  <2>3. state' = state \/ state' = "CONTACTED"
    BY <2>2
  <2> QED
    BY <1>1, <1>3, <2>1, <2>2, <2>3 DEF RepliesInv, StateOK, ExclusionComesFirst
<1>6. took \in Worker /\ took.cat = "NONE" /\ took.msg = m /\ took.todo = todo /\ took.resumed = resumed
  BY <1>1, NothingTyped DEF Idle, Worker, Steps
<1>7. ASSUME analyses[m].cat # "NONE" PROVE WorkerOK(resume, arrived, excluded)
  <2>1. resume \in Worker /\ resume.cat \in Categories
    BY <1>2, <1>6, <1>7 DEF Worker, Steps, Analysis
  <2>2. resume.pc = "suppressing" /\ resume.msg = m /\ resume.todo = todo /\ resume.resumed = resumed
    BY <1>6 DEF Worker, Idle
  <2> QED
    BY <2>1, <2>2 DEF WorkerOK, PastExclusion
<1>8. WorkerOK(read, arrived, excluded)
  <2>1. Utterance(m) \in SUBSET Messages
    BY <1>1 DEF Utterance
  <2>2. Preceding(m) \in SUBSET (0..2 * LastMessage)
    BY <1>1, PrecedingTyped DEF RepliesInv
  <2>3. read \in Worker
    BY <1>2, <1>6, <2>1, <2>2 DEF Worker, Steps
  <2>4. read.pc = "reading" /\ read.msg = m /\ read.todo = todo /\ read.resumed = resumed
    BY <1>6 DEF Worker, Idle
  <2> QED
    BY <2>3, <2>4 DEF WorkerOK, Concluded, PastExclusion
<1>9. WorkerOK(Onward(todo, resumed), arrived, excluded)
  BY <1>1, OnwardOK
<1>10. \E r : workers' = [workers EXCEPT ![w] = r] /\ WorkerOK(r, arrived, excluded)
  BY <1>7, <1>8, <1>9 DEF Open
<1>11. WorkersOK'
  BY <1>3, <1>10, WorkerReplaced DEF RepliesInv
<1> QED
  BY <1>4, <1>5, <1>11 DEF RepliesInv

LEMMA StepTake == ASSUME RepliesInv, NEW w \in Workers, Take(w) PROVE RepliesInv'
<1>1. workers[w].todo \in SUBSET arrived /\ workers[w].resumed \in SUBSET arrived
  BY DEF RepliesInv, WorkersOK, WorkerOK
<1>2. CASE \E m \in First(workers[w].todo) : Open(w, m, workers[w].todo \ {m}, workers[w].resumed)
  BY <1>1, <1>2, OpenKeeps DEF First
<1>3. CASE \E m \in First(workers[w].resumed) : Open(w, m, {}, workers[w].resumed \ {m})
  BY <1>1, <1>3, OpenKeeps DEF First
<1> QED
  BY <1>2, <1>3 DEF Take

LEMMA StepPersist == ASSUME RepliesInv, NEW w \in Workers, Persist(w) PROVE RepliesInv'
<1> DEFINE me == workers[w]
           m == me.msg
           Go(cat) == [me EXCEPT !.pc = "suppressing", !.cat = cat, !.heard = {}, !.known = NoAnalysis, !.input = {}]
<1>1. /\ me \in Worker /\ WorkerOK(me, arrived, excluded) /\ me.pc = "reading"
      /\ m \in arrived /\ m \in Messages /\ me.input \in SUBSET (0..2 * LastMessage)
  BY DEF RepliesInv, WorkersOK, WorkerOK, ThreadOK, Persist, Worker
<1>2. ASSUME NEW cat \in Categories PROVE WorkerOK(Go(cat), arrived, excluded)
  <2>1. Go(cat) \in Worker
    BY <1>1, NothingTyped DEF Worker, Steps
  <2>2. /\ Go(cat).pc = "suppressing" /\ Go(cat).cat = cat /\ Go(cat).msg = m
        /\ Go(cat).todo = me.todo /\ Go(cat).resumed = me.resumed
    BY <1>1 DEF Worker
  <2> QED
    BY <1>1, <2>1, <2>2 DEF WorkerOK, PastExclusion
<1>3. /\ UNCHANGED <<at, stops, arrived, spoken, absorbed, excluded, state, watermark, journal, audit, faults, handed>>
      /\ ThreadOK' /\ StateOK' /\ AuditOK' /\ BoundsOK'
  BY DEF Persist, RepliesInv, ThreadOK, StateOK, AuditOK, BoundsOK, ExclusionComesFirst
<1>4. CASE /\ analyses[m].cat # "NONE" /\ workers' = [workers EXCEPT ![w] = Go(analyses[m].cat)]
           /\ UNCHANGED <<analyses, judged>>
  <2>1. analyses[m].cat \in Categories
    BY <1>1, <1>4 DEF RepliesInv, AnalysesOK, Analysis
  <2>2. WorkersOK'
    BY <1>2, <1>3, <1>4, <2>1, WorkerReplaced DEF RepliesInv
  <2>3. AnalysesOK'
    BY <1>3, <1>4 DEF RepliesInv, AnalysesOK
  <2> QED
    BY <1>3, <2>2, <2>3 DEF RepliesInv
<1>5. ASSUME NEW cat \in Read(me.heard), judged' = judged \cup {<<m, me.input>>},
             analyses' = [analyses EXCEPT ![m] = [cat |-> cat, input |-> me.input]],
             workers' = [workers EXCEPT ![w] = Go(cat)]
      PROVE  RepliesInv'
  <2>1. cat \in Categories
    BY <1>5, RepliesAssumption DEF Read, Categories
  <2>2. WorkersOK'
    BY <1>2, <1>3, <1>5, <2>1, WorkerReplaced DEF RepliesInv
  <2>3. AnalysesOK'
    BY <1>1, <1>3, <1>5, <2>1 DEF RepliesInv, AnalysesOK, Analysis
  <2> QED
    BY <1>3, <2>2, <2>3 DEF RepliesInv
<1> QED
  BY <1>4, <1>5 DEF Persist

LEMMA StepSuppress == ASSUME RepliesInv, NEW w \in Workers, Suppress(w) PROVE RepliesInv'
<1> DEFINE me == workers[w]
           r == [me EXCEPT !.pc = "acknowledging"]
<1>1. me \in Worker /\ WorkerOK(me, arrived, excluded) /\ me.pc = "suppressing"
  BY DEF RepliesInv, WorkersOK, Suppress
<1>2. /\ excluded' \in BOOLEAN /\ (excluded => excluded')
      /\ me.cat = "UNSUBSCRIBE" => excluded'
  BY DEF Suppress, Suppresses, RepliesInv, StateOK
<1>3. WorkerOK(r, arrived, excluded')
  <2>1. r \in Worker
    BY <1>1 DEF Worker, Steps
  <2>2. /\ r.pc = "acknowledging" /\ r.msg = me.msg /\ r.cat = me.cat
        /\ r.todo = me.todo /\ r.resumed = me.resumed
    BY <1>1 DEF Worker
  <2> QED
    BY <1>1, <1>2, <2>1, <2>2 DEF WorkerOK, Concluded
<1>4. WorkersOK'
  BY <1>2, <1>3, WorkerReplaced DEF RepliesInv, Suppress
<1>5. ThreadOK' /\ AnalysesOK' /\ StateOK' /\ AuditOK' /\ BoundsOK'
  BY <1>2 DEF RepliesInv, ThreadOK, AnalysesOK, StateOK, AuditOK, BoundsOK, ExclusionComesFirst, Suppress
<1> QED
  BY <1>4, <1>5 DEF RepliesInv

LEMMA StepAcknowledge == ASSUME RepliesInv, NEW w \in Workers, Acknowledge(w) PROVE RepliesInv'
<1> DEFINE me == workers[w]
<1>1. me \in Worker /\ WorkerOK(me, arrived, excluded) /\ me.pc = "acknowledging"
  BY DEF RepliesInv, WorkersOK, Acknowledge
<1>2. ASSUME NEW step \in {"acknowledged", "intending"}
      PROVE  WorkerOK([me EXCEPT !.pc = step], arrived, excluded)
  BY <1>1 DEF WorkerOK, Worker, Steps, Concluded, PastExclusion
<1>3. \E step \in {"acknowledged", "intending"} : workers' = [workers EXCEPT ![w].pc = step]
  BY DEF Acknowledge
<1>4. BoundsOK' /\ UNCHANGED <<dataVars, audit>>
  BY DEF Acknowledge, RepliesInv, BoundsOK
<1> QED
  BY <1>2, <1>3, <1>4, OnlyTheWorker

\* Only a demand to stop intends SUPPRESSED.
LEMMA IntentTyped ==
  ASSUME NEW cat \in Categories, NEW before
  PROVE  /\ IntentTarget(cat, before) \in States \cup {"NONE"}
         /\ IntentTarget(cat, before) = "SUPPRESSED" => cat = "UNSUBSCRIBE"
  BY DEF IntentTarget, NextState, Categories, States

LEMMA ConsideredTyped ==
  ASSUME RepliesInv, NEW m \in arrived
  PROVE  Considered(m) \in arrived /\ Considered(m) >= m /\ Considered(m) >= watermark
<1>1. arrived \in SUBSET Nat /\ watermark \in arrived \cup {0}
  BY MessagesAreNumbers DEF RepliesInv, ThreadOK, StateOK
<1>2. m \in Nat /\ watermark \in Nat /\ m # 0
  BY <1>1 DEF RepliesInv, ThreadOK, Messages
<1> QED
  BY <1>1, <1>2 DEF Considered

\* The watermark goes up and the state stays.
LEMMA WatermarkRaised ==
  ASSUME RepliesInv, watermark' \in arrived \cup {0}, UNCHANGED <<arrived, excluded, state, journal>>
  PROVE  StateOK'
  BY DEF RepliesInv, StateOK, ExclusionComesFirst

LEMMA StepIntend == ASSUME RepliesInv, NEW w \in Workers, Intend(w) PROVE RepliesInv'
<1> DEFINE me == workers[w]
           target == IntentTarget(me.cat, me.before)
<1>1. me \in Worker /\ WorkerOK(me, arrived, excluded) /\ me.pc = "intending" /\ me.msg \in arrived
  BY DEF RepliesInv, WorkersOK, WorkerOK, Intend
<1>2. UNCHANGED <<at, stops, arrived, spoken, analyses, judged, absorbed, excluded, state, journal, audit, faults, handed>>
  BY DEF Intend
<1>3. ThreadOK' /\ AnalysesOK' /\ AuditOK' /\ BoundsOK'
  BY <1>2 DEF RepliesInv, ThreadOK, AnalysesOK, AuditOK, BoundsOK
<1>4. me.cat \in Categories /\ (me.cat = "UNSUBSCRIBE" => excluded)
  BY <1>1 DEF WorkerOK, Concluded, PastExclusion
<1>5. target \in States \cup {"NONE"} /\ (target = "SUPPRESSED" => excluded)
  BY <1>4, IntentTyped
<1>6. CASE target # "NONE" /\ MayDecide(me.msg, target)
  <2> DEFINE r == [me EXCEPT !.pc = "intended", !.target = target]
  <2>1. WorkerOK(r, arrived, excluded)
    <3>1. r \in Worker
      BY <1>1, <1>5 DEF Worker, Steps
    <3>2. /\ r.pc = "intended" /\ r.target = target /\ r.msg = me.msg /\ r.cat = me.cat
          /\ r.todo = me.todo /\ r.resumed = me.resumed
      BY <1>1 DEF Worker
    <3> QED
      BY <1>1, <1>4, <1>5, <1>6, <3>1, <3>2 DEF WorkerOK
  <2>2. workers' = [workers EXCEPT ![w] = r] /\ watermark' = watermark
    BY <1>6 DEF Intend
  <2>3. WorkersOK'
    BY <1>2, <2>1, <2>2, WorkerReplaced DEF RepliesInv
  <2>4. StateOK'
    BY <1>2, <2>2 DEF RepliesInv, StateOK, ExclusionComesFirst
  <2> QED
    BY <1>3, <2>3, <2>4 DEF RepliesInv
<1>7. CASE ~(target # "NONE" /\ MayDecide(me.msg, target))
  <2> DEFINE r == [me EXCEPT !.pc = "noting"]
  <2>1. WorkerOK(r, arrived, excluded)
    BY <1>1 DEF WorkerOK, Worker, Steps, Concluded, PastExclusion
  <2>2. workers' = [workers EXCEPT ![w] = r]
    BY <1>7 DEF Intend
  <2>3. watermark' = watermark \/ watermark' = Considered(me.msg)
    BY <1>7 DEF Intend
  <2>4. WorkersOK'
    BY <1>2, <2>1, <2>2, WorkerReplaced DEF RepliesInv
  <2>5. StateOK'
    BY <1>1, <1>2, <2>3, ConsideredTyped, WatermarkRaised DEF RepliesInv, StateOK
  <2> QED
    BY <1>3, <2>4, <2>5 DEF RepliesInv
<1> QED
  BY <1>6, <1>7

LEMMA StepWrite == ASSUME RepliesInv, NEW w \in Workers, Write(w) PROVE RepliesInv'
<1> DEFINE me == workers[w]
           target == IF me.pc = "acknowledged" THEN "REPLIED" ELSE me.target
           step == IF me.pc = "acknowledged" THEN "intending" ELSE "noting"
           r == [me EXCEPT !.pc = step, !.target = "NONE"]
<1>1. /\ me \in Worker /\ WorkerOK(me, arrived, excluded) /\ me.pc \in {"acknowledged", "intended"}
      /\ me.msg \in arrived
  BY DEF RepliesInv, WorkersOK, WorkerOK, Write
<1>2. UNCHANGED <<at, stops, arrived, spoken, analyses, judged, absorbed, excluded, audit, faults, handed>>
  BY DEF Write
<1>3. ThreadOK' /\ AnalysesOK' /\ AuditOK' /\ BoundsOK'
  BY <1>2 DEF RepliesInv, ThreadOK, AnalysesOK, AuditOK, BoundsOK
<1>4. WorkersOK'
  <2>1. r \in Worker
    BY <1>1 DEF Worker, Steps
  <2>2. /\ r.pc \in {"intending", "noting"} /\ r.msg = me.msg /\ r.cat = me.cat
        /\ r.todo = me.todo /\ r.resumed = me.resumed
    BY <1>1 DEF Worker
  <2>3. WorkerOK(r, arrived, excluded)
    BY <1>1, <2>1, <2>2 DEF WorkerOK, Concluded, PastExclusion
  <2>4. workers' = [workers EXCEPT ![w] = r]
    BY DEF Write
  <2> QED
    BY <1>2, <2>3, <2>4, WorkerReplaced DEF RepliesInv
<1>5. target \in States /\ (target = "SUPPRESSED" => excluded)
  BY <1>1 DEF WorkerOK, States
<1>6. StateOK'
  <2>1. <<me.msg, target>> \in Causes \X States
    BY <1>1, <1>5, MessagesAreNumbers DEF Causes, RepliesInv, ThreadOK
  <2>2. CASE /\ journal' = journal \cup {<<me.msg, target>>}
             /\ state' = target /\ watermark' = Considered(me.msg)
    <3>1. Considered(me.msg) \in arrived
      BY <1>1, ConsideredTyped
    <3>2. target # "NONE"
      BY <1>5 DEF States
    <3> QED
      BY <1>2, <1>5, <2>1, <2>2, <3>1, <3>2 DEF RepliesInv, StateOK, ExclusionComesFirst
  <2>3. CASE UNCHANGED <<journal, state, watermark>>
    BY <1>2, <2>3 DEF RepliesInv, StateOK, ExclusionComesFirst
  <2> QED
    BY <2>2, <2>3 DEF Write
<1> QED
  BY <1>3, <1>4, <1>6 DEF RepliesInv

LEMMA StepNote == ASSUME RepliesInv, NEW w \in Workers, Note(w) PROVE RepliesInv'
<1>1. workers[w].msg \in arrived
  BY DEF RepliesInv, WorkersOK, WorkerOK, Note
<1>2. UNCHANGED <<at, stops, arrived, spoken, analyses, judged, absorbed, excluded, state, journal, audit, faults, handed>>
  BY DEF Note
<1>3. ThreadOK' /\ AnalysesOK' /\ AuditOK' /\ BoundsOK'
  BY <1>2 DEF RepliesInv, ThreadOK, AnalysesOK, AuditOK, BoundsOK
<1>4. watermark' = watermark \/ watermark' = Considered(workers[w].msg)
  BY DEF Note
<1>5. StateOK'
  BY <1>1, <1>2, <1>4, ConsideredTyped, WatermarkRaised DEF RepliesInv, StateOK
<1>6. WorkersOK'
  <2>1. workers' = [workers EXCEPT ![w] = NextMessage(w)]
    BY DEF Note
  <2>2. WorkerOK(NextMessage(w), arrived', excluded')
    BY <1>2, NextMessageOK
  <2> QED
    BY <1>2, <2>1, <2>2, WorkerReplaced DEF RepliesInv
<1> QED
  BY <1>3, <1>5, <1>6 DEF RepliesInv

---------------------------------------------------------------------------
(* The repair of the order.                                                *)

LEMMA StepAuditOrder == ASSUME RepliesInv, AuditOrder PROVE RepliesInv'
<1>1. UNCHANGED <<dataVars, faults, workers>> /\ handed' = handed + 1 /\ handed < MaxHands
  BY DEF AuditOrder
<1>2. ThreadOK' /\ AnalysesOK' /\ StateOK'
  BY <1>1 DEF RepliesInv, dataVars, ThreadOK, AnalysesOK, StateOK, ExclusionComesFirst
<1>3. BoundsOK'
  BY <1>1, RepliesAssumption DEF RepliesInv, BoundsOK
<1>4. WorkersOK'
  BY <1>1, WorkersUntouched DEF RepliesInv, dataVars
<1>5. AuditOK'
  <2>1. PICK target \in States \ {"SUPPRESSED"}, m \in Analysed :
             audit' = [step |-> "repairing", target |-> target, latest |-> m]
    BY DEF AuditOrder
  <2>2. m \in arrived /\ m \in 0..LastMessage
    BY MessagesAreNumbers DEF Analysed, RepliesInv, ThreadOK
  <2> QED
    BY <1>1, <2>1, <2>2 DEF AuditOK, dataVars
<1> QED
  BY <1>2, <1>3, <1>4, <1>5 DEF RepliesInv

LEMMA StepRepair == ASSUME RepliesInv, RepairOrder \/ NoteRepair PROVE RepliesInv'
<1>1. UNCHANGED <<at, stops, arrived, spoken, analyses, judged, absorbed, excluded, journal, faults, handed, workers>>
  BY DEF RepairOrder, NoteRepair
<1>2. ThreadOK' /\ AnalysesOK' /\ BoundsOK'
  BY <1>1 DEF RepliesInv, ThreadOK, AnalysesOK, BoundsOK
<1>3. WorkersOK'
  BY <1>1, WorkersUntouched DEF RepliesInv
<1>4. audit.target \in States \ {"SUPPRESSED"} /\ audit.latest \in arrived
  BY DEF RepairOrder, NoteRepair, RepliesInv, AuditOK
<1>5. AuditOK'
  <2>1. NoAudit.step = "NONE"
        /\ NoAudit \in [step : {"NONE", "repairing", "noting"}, target : States \cup {"NONE"}, latest : 0..LastMessage]
    BY NothingTyped DEF NoAudit
  <2>2. CASE audit' = NoAudit
    BY <2>1, <2>2 DEF AuditOK
  <2>3. CASE audit' = [audit EXCEPT !.step = "noting"]
    BY <1>1, <1>4, <2>3 DEF AuditOK, RepliesInv
  <2> QED
    BY <2>2, <2>3 DEF RepairOrder, NoteRepair
<1>6. StateOK'
  <2>1. CASE RepairOrder
    <3>1. state' \in States \ {"SUPPRESSED"} /\ state' # "NONE" /\ watermark' = watermark
      BY <1>4, <2>1 DEF RepairOrder, States
    <3> QED
      BY <1>1, <3>1 DEF RepliesInv, StateOK, ExclusionComesFirst
  <2>2. CASE NoteRepair
    BY <1>1, <1>4, <2>2, ConsideredTyped, WatermarkRaised DEF NoteRepair
  <2> QED
    BY <2>1, <2>2
<1> QED
  BY <1>2, <1>3, <1>5, <1>6 DEF RepliesInv

---------------------------------------------------------------------------
LEMMA StepInv == RepliesInv /\ [RepliesNext]_repliesVars => RepliesInv'
<1> SUFFICES ASSUME RepliesInv, [RepliesNext]_repliesVars PROVE RepliesInv'
  OBVIOUS
<1>1. CASE UNCHANGED repliesVars
  BY <1>1, WorkersUntouched
  DEF repliesVars, dataVars, RepliesInv, ThreadOK, AnalysesOK, StateOK, AuditOK, BoundsOK, ExclusionComesFirst
<1>2. ASSUME NEW m \in Messages, Arrive(m) \/ Speak(m) PROVE RepliesInv'
  BY <1>2, StepArrive, StepSpeak
<1>3. ASSUME NEW w \in Workers, Process(w) PROVE RepliesInv'
  BY <1>3, StepStartPass, StepTake, StepPersist, StepGiveUp, StepSuppress, StepAcknowledge, StepIntend,
     StepWrite, StepNote DEF Process
<1>4. ASSUME NEW w \in Workers, ReadingFails(w) \/ Crash(w) PROVE RepliesInv'
  BY <1>4, StepGiveUp
<1>5. ASSUME NEW w \in Workers, NEW m \in Messages, HandOver(w, m) PROVE RepliesInv'
  BY <1>5, StepHandOver
<1>6. CASE AuditOrder \/ RepairOrder \/ NoteRepair
  BY <1>6, StepAuditOrder, StepRepair
<1> QED
  BY <1>1, <1>2, <1>3, <1>4, <1>5, <1>6 DEF RepliesNext

LEMMA InvHolds == RepliesSpec => []RepliesInv
  BY InitInv, StepInv, PTL DEF RepliesSpec

(* The columns hold what their CHECKs list, whatever processes die.        *)
THEOREM RepliesTypeCorrect == RepliesSpec => []RepliesTypeOK
<1>1. RepliesInv => RepliesTypeOK
  BY DEF RepliesInv, RepliesTypeOK, ThreadOK, AnalysesOK, StateOK, AuditOK, BoundsOK, WorkersOK
<1> QED
  BY <1>1, InvHolds, PTL

(* No prospect is SUPPRESSED whose address is not excluded.                *)
THEOREM ExclusionFirst == RepliesSpec => []ExclusionComesFirst
<1>1. RepliesInv => ExclusionComesFirst
  BY DEF RepliesInv, StateOK
<1> QED
  BY <1>1, InvHolds, PTL

(* The watermark never falls, and a reply that moved the state was no      *)
(* older than it.                                                          *)
THEOREM LaterDecides == RepliesSpec => LaterReplyDecides
<1> DEFINE Later == /\ watermark' >= watermark
                    /\ \A row \in journal' \ journal : row[1] # 0 => row[1] >= watermark
<1>1. RepliesInv /\ [RepliesNext]_repliesVars => [Later]_repliesVars
  <2> SUFFICES ASSUME RepliesInv, RepliesNext PROVE Later
    OBVIOUS
  <2>1. watermark \in Nat
    BY MessagesAreNumbers DEF RepliesInv, StateOK, ThreadOK
  <2>2. CASE watermark' = watermark /\ journal' = journal
    BY <2>1, <2>2
  <2>3. ASSUME NEW w \in Workers, Take(w) PROVE Later
    <3>1. watermark' = watermark /\ (journal' = journal \/ journal' = journal \cup {<<0, "CONTACTED">>})
      BY <2>3 DEF Take, Open
    <3> QED
      BY <2>1, <3>1
  <2>4. ASSUME NEW w \in Workers, Intend(w) \/ Note(w) PROVE Later
    <3>1. workers[w].msg \in arrived
      BY <2>4 DEF Intend, Note, RepliesInv, WorkersOK, WorkerOK
    <3>2. journal' = journal /\ (watermark' = watermark \/ watermark' = Considered(workers[w].msg))
      BY <2>4 DEF Intend, Note
    <3> QED
      BY <2>1, <3>1, <3>2, ConsideredTyped
  <2>5. ASSUME NEW w \in Workers, Write(w) PROVE Later
    <3> DEFINE m == workers[w].msg
    <3>1. m \in arrived /\ m \in Nat
      BY <2>5, MessagesAreNumbers DEF Write, RepliesInv, WorkersOK, WorkerOK, ThreadOK
    <3>2. CASE UNCHANGED <<journal, state, watermark>>
      BY <2>2, <3>2
    <3>3. ASSUME NEW target, journal' = journal \cup {<<m, target>>}, watermark' = Considered(m), RowAccepts(m)
          PROVE  Later
      BY <2>1, <3>1, <3>3, ConsideredTyped DEF RowAccepts
    <3> QED
      BY <2>5, <3>2, <3>3 DEF Write
  <2>6. CASE NoteRepair
    BY <2>1, <2>6, ConsideredTyped DEF NoteRepair, RepliesInv, AuditOK
  <2> QED
    BY <2>2, <2>3, <2>4, <2>5, <2>6
    DEF RepliesNext, Process, dataVars, Arrive, Speak, StartPass, Persist, PersistRaises, ReadingFails,
        Suppress, Acknowledge, Crash, HandOver, AuditOrder, RepairOrder
<1> QED
  BY <1>1, InvHolds, PTL DEF RepliesSpec, LaterReplyDecides

(* Only the repair an operator asks for takes a prospect out of SUPPRESSED. *)
THEOREM StopStays == RepliesSpec => StopIsTerminal
<1> DEFINE Stays == state = "SUPPRESSED" /\ state' # "SUPPRESSED" => audit.step = "repairing" /\ state' = audit.target
<1>1. [RepliesNext]_repliesVars => [Stays]_repliesVars
  <2> SUFFICES ASSUME RepliesNext PROVE Stays
    OBVIOUS
  <2>1. ASSUME NEW w \in Workers, Take(w) \/ Write(w) PROVE Stays
    BY <2>1 DEF Take, Open, Write, RowAccepts
  <2> QED
    BY <2>1
    DEF RepliesNext, Process, dataVars, Arrive, Speak, StartPass, Persist, PersistRaises, ReadingFails,
        Suppress, Acknowledge, Intend, Note, Crash, HandOver, AuditOrder, RepairOrder, NoteRepair
<1> QED
  BY <1>1, PTL DEF RepliesSpec, StopIsTerminal
=============================================================================
