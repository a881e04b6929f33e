------------------------- MODULE MailIntake_proofs -------------------------
(***************************************************************************)
(* No reply to a recorded sending is lost, and the mailbox's marker hides  *)
(* none, for any number of prospects, letters and polls.                   *)
(*                                                                         *)
(* The argument: a letter that is not in the database when a poll moves    *)
(* the cursor was received since the poll was born, or the poll would have *)
(* listed it and, being whole, stored it; a poll ends within the overlap   *)
(* of its birth, and the cursor is never ahead of today.  So what a poll   *)
(* under way has still to answer for (PollOK) is kept beside what the      *)
(* cursor says (CursorOK).                                                 *)
(***************************************************************************)
EXTENDS MailIntake, WellFoundedInduction, TLAPS

Known(i)   == Received(i) /\ mail[i].when # "unrecorded"
Timely(i)  == Received(i) /\ mail[i].when = "recorded"
Missing(i) == Known(i) /\ i \notin rows

\* No letter is of a day to come, and a letter that answers a recorded sending
\* is not older than it.
WorldOK ==
    /\ history # 0
    /\ \A x \in Prospects : recorded[x] <= day
    /\ \A i \in Letters :
        /\ mail[i].day <= day
        /\ Received(i) => mail[i].from \in Prospects
        /\ Known(i) => recorded[mail[i].from] # 0 /\ recorded[mail[i].from] <= mail[i].day

TrueMarker(m) == m = history => \A i \in Letters : Timely(i) => i \in rows

CursorOK ==
    /\ checkpoint.date <= day /\ checkpoint.marker <= history
    /\ checkpoint.date # 0 => \A i \in Letters : Missing(i) => mail[i].day >= checkpoint.date - Overlap
    /\ TrueMarker(checkpoint.marker)

\* What a poll asks for reaches as far back as what may be missing.
SinceOK(q) ==
    \/ checkpoint.date # 0 /\ q.since <= checkpoint.date - Overlap
    \/ \A x \in q.whom : q.since <= recorded[x]

Asks(q, i) == q.pc = "listing" /\ mail[i].from \in q.whom

PollOK(q) ==
    /\ q.pc # "idle" => q.born <= day /\ day <= q.born + Overlap
    /\ q.top <= day /\ q.latest <= history /\ q.marker <= history
    /\ \A x \in q.whom : recorded[x] # 0
    /\ q.pc \in {"loaded", "scoped"} =>
        q.top <= checkpoint.date /\ TrueMarker(q.marker) /\ q.todo = {} /\ q.latest = 0
    /\ q.pc \in {"scoped", "listing"} => SinceOK(q)
    /\ q.pc = "scoped" => \A i \in Letters :
        /\ Timely(i) => mail[i].from \in q.whom
        /\ Missing(i) => mail[i].from \in q.whom \/ mail[i].day >= q.born
    /\ q.pc \in {"listing", "listed", "storing"} /\ q.whole =>
        /\ q.latest = history => \A i \in Letters : Timely(i) => i \in rows \cup q.todo \/ Asks(q, i)
        /\ \/ q.pc = "storing" /\ q.todo = {} /\ q.top <= checkpoint.date
           \/ \A i \in Letters : Missing(i) => i \in q.todo \/ Asks(q, i) \/ mail[i].day >= q.born

MailInv == MailTypeOK /\ WorldOK /\ CursorOK /\ \A p \in Pollers : PollOK(polls[p])

-----------------------------------------------------------------------------
(* Numbers *)

\* A set of naturals has a least element, which is what Min gives.
LEMMA LeastNatural ==
  ASSUME NEW S \in SUBSET Nat, S # {}
  PROVE  Min(S) \in S /\ \A y \in S : Min(S) <= y
<1> DEFINE R == {ss \in Nat \X Nat : ss[1] < ss[2]}
<1>1. IsWellFoundedOn(R, Nat)
  BY NatLessThanWellFounded, Zenon DEF OpToRel
<1>2. PICK x \in S : \A y \in S : ~ (<<y, x>> \in R)
  <2> HIDE DEF R
  <2> QED BY <1>1, WFMin
<1>3. ASSUME NEW y \in S
      PROVE  x <= y
  <2>1. x \in Nat /\ y \in Nat
    OBVIOUS
  <2>2. <<y, x>> \in R <=> y < x
    BY <2>1
  <2>3. QED BY <1>2, <2>1, <2>2
<1>4. QED BY <1>3 DEF Min

LEMMA GreaterOfTwo ==
  ASSUME NEW a \in Nat, NEW b \in Nat
  PROVE  /\ Max({a, b}) \in {a, b}
         /\ Max({a, b}) >= a /\ Max({a, b}) >= b
<1>1. \E x \in {a, b} : \A y \in {a, b} : x >= y
  OBVIOUS
<1>2. QED BY <1>1 DEF Max

\* What is asked for when the agenda of sendings is the only bound.
LEMMA SinceTheFirst ==
  ASSUME MailTypeOK, Counterparties # {}
  PROVE  /\ Since(0) \in Int
         /\ \A x \in Counterparties : Since(0) <= recorded[x] - Overlap
<1> DEFINE S == {recorded[x] : x \in Counterparties}
<1>1. S \in SUBSET Nat /\ S # {}
  BY DEF MailTypeOK, Counterparties, Days
<1>2. Min(S) \in Nat /\ \A x \in Counterparties : Min(S) <= recorded[x] /\ recorded[x] \in Nat
  <2> HIDE DEF S
  <2>1. Min(S) \in S /\ \A y \in S : Min(S) <= y
    BY <1>1, LeastNatural
  <2>2. QED BY <1>1, <2>1 DEF S
<1>3. Since(0) = Min(S) - Overlap
  BY DEF Since
<1>4. QED
  <2> HIDE DEF S
  <2> QED BY <1>2, <1>3, MailAssumption

\* The step of a poll is its new record, and no other poll's.
LEMMA PollReplaced ==
  ASSUME MailTypeOK, NEW p \in Pollers, NEW r \in Poll, Write(p, r)
  PROVE  /\ polls' \in [Pollers -> Poll]
         /\ polls'[p] = r
         /\ \A q \in Pollers \ {p} : polls'[q] = polls[q]
  BY DEF MailTypeOK, Write

-----------------------------------------------------------------------------
(* The world moves *)

LEMMA RecordKeeps ==
  ASSUME MailInv, NEW x \in Prospects, Record(x)
  PROVE  MailInv'
<1>1. /\ recorded[x] = 0 /\ recorded' = [recorded EXCEPT ![x] = day]
      /\ UNCHANGED <<day, mail, history, rows, checkpoint, polls>>
  BY DEF Record
<1>2. MailTypeOK'
  BY <1>1 DEF MailInv, MailTypeOK, Days
<1>3. \A y \in Prospects : recorded'[y] = IF y = x THEN day ELSE recorded[y]
  BY <1>1 DEF MailInv, MailTypeOK
<1>4. \A i \in Letters : /\ Received(i)' = Received(i) /\ Known(i)' = Known(i)
                         /\ Timely(i)' = Timely(i) /\ Missing(i)' = Missing(i)
  BY <1>1 DEF Received, Known, Timely, Missing
<1>5. WorldOK'
  <2>1. \A y \in Prospects : recorded'[y] <= day'
    BY <1>1, <1>3 DEF MailInv, WorldOK, MailTypeOK, Days
  <2>2. ASSUME NEW i \in Letters, Known(i)
        PROVE  recorded'[mail[i].from] # 0 /\ recorded'[mail[i].from] <= mail[i].day
    BY <1>1, <1>3, <2>2 DEF MailInv, WorldOK, Known
  <2>3. QED BY <1>1, <1>4, <2>1, <2>2 DEF MailInv, WorldOK
<1>6. CursorOK'
  BY <1>1, <1>4 DEF MailInv, CursorOK, TrueMarker
<1>7. ASSUME NEW p \in Pollers
      PROVE  PollOK(polls[p])'
  <2>1. PollOK(polls[p]) /\ polls'[p] = polls[p] /\ polls[p].whom \in SUBSET Prospects
    BY <1>1 DEF MailInv, MailTypeOK, Poll
  <2>2. \A y \in polls[p].whom : recorded'[y] = recorded[y]
    BY <1>1, <1>3, <2>1 DEF PollOK
  <2>3. QED BY <1>1, <1>4, <2>1, <2>2 DEF PollOK, SinceOK, TrueMarker, Asks
<1>8. QED BY <1>2, <1>5, <1>6, <1>7 DEF MailInv

LEMMA ReplyKeeps ==
  ASSUME MailInv, NEW x \in Prospects, NEW k \in Letters, Reply(x, k)
  PROVE  MailInv'
<1> DEFINE new == [from |-> x, day |-> day, when |-> WhenFrom(x)]
<1>1. /\ ~Received(k) /\ mail' = [mail EXCEPT ![k] = new] /\ history' = history + 1
      /\ UNCHANGED <<day, recorded, rows, checkpoint, polls>>
  BY DEF Reply, NextLetter
<1>2. new \in Letter
  BY DEF MailInv, MailTypeOK, Letter, WhenFrom, Whens
<1>3. MailTypeOK'
  BY <1>1, <1>2 DEF MailInv, MailTypeOK
<1>4. mail'[k] = new /\ \A i \in Letters \ {k} : mail'[i] = mail[i]
  BY <1>1 DEF MailInv, MailTypeOK
<1>5. \A i \in Letters \ {k} : /\ Received(i)' = Received(i) /\ Known(i)' = Known(i)
                               /\ Timely(i)' = Timely(i) /\ Missing(i)' = Missing(i)
  BY <1>1, <1>4 DEF Received, Known, Timely, Missing
<1>6. WorldOK'
  <2>1. history' # 0
    BY <1>1 DEF MailInv, MailTypeOK
  <2>2. mail'[k].day <= day' /\ mail'[k].from \in Prospects
    BY <1>1, <1>4 DEF MailInv, MailTypeOK, Days
  <2>3. Known(k)' => recorded'[mail'[k].from] # 0 /\ recorded'[mail'[k].from] <= mail'[k].day
    BY <1>1, <1>4 DEF Known, Received, WhenFrom, MailInv, WorldOK
  <2>4. QED BY <1>1, <1>4, <1>5, <2>1, <2>2, <2>3 DEF MailInv, WorldOK
<1>7. \A m \in Nat : m <= history => m # history'
  BY <1>1 DEF MailInv, MailTypeOK
<1>8. CursorOK'
  <2>1. checkpoint.date \in Nat /\ checkpoint.marker \in Nat /\ day \in Nat /\ history \in Nat
    BY DEF MailInv, MailTypeOK, Days, Markers
  <2>2. mail'[k].day >= checkpoint'.date - Overlap
    BY <1>1, <1>4, <2>1, MailAssumption DEF MailInv, CursorOK
  <2>3. ~ (checkpoint'.marker = history') /\ checkpoint'.marker <= history'
    BY <1>1, <1>7, <2>1 DEF MailInv, CursorOK
  <2>4. QED BY <1>1, <1>4, <1>5, <2>2, <2>3 DEF MailInv, CursorOK, TrueMarker
<1>9. ASSUME NEW p \in Pollers
      PROVE  PollOK(polls[p])'
  <2>1. PICK q : q = polls[p]
    OBVIOUS
  <2>2. PollOK(q) /\ polls'[p] = q /\ q \in Poll
    BY <1>1, <2>1 DEF MailInv, MailTypeOK
  <2>3. q.latest \in Nat /\ q.marker \in Nat /\ q.born \in Nat /\ history \in Nat /\ day \in Nat
    BY <2>2 DEF MailInv, MailTypeOK, Poll, Markers, Days
  <2>4. /\ q.latest # history' /\ q.marker # history'
        /\ q.latest <= history' /\ q.marker <= history'
    BY <1>1, <1>7, <2>2, <2>3 DEF PollOK
  <2>5. q.pc = "scoped" /\ Timely(k)' => mail'[k].from \in q.whom
    BY <1>4, <2>1 DEF Timely, WhenFrom, At
  <2>6. q.pc # "idle" => mail'[k].day >= q.born
    BY <1>4, <2>2 DEF PollOK
  <2>7. \A i \in Letters \ {k} : Asks(q, i)' = Asks(q, i)
    BY <1>4 DEF Asks
  <2>8. SinceOK(q) => SinceOK(q)'
    BY <1>1 DEF SinceOK
  <2>9. TrueMarker(q.marker)'
    BY <2>4 DEF TrueMarker
  <2>10. PollOK(q)'
    BY <1>1, <1>4, <1>5, <2>2, <2>4, <2>5, <2>6, <2>7, <2>8, <2>9 DEF PollOK
  <2>11. QED BY <2>2, <2>10 DEF PollOK, SinceOK, TrueMarker, Asks
<1>10. QED BY <1>3, <1>6, <1>8, <1>9 DEF MailInv

LEMMA TickKeeps ==
  ASSUME MailInv, Tick
  PROVE  MailInv'
<1>1. /\ day < MaxDay /\ day' = day + 1
      /\ \A p \in Pollers : ~At(p, "idle") => day < polls[p].born + Overlap
      /\ UNCHANGED <<mail, history, recorded, rows, checkpoint, polls>>
  BY DEF Tick
<1>2. day \in Nat /\ MaxDay \in Nat /\ Overlap \in Nat
  BY MailAssumption DEF MailInv, MailTypeOK, Days
<1>3. MailTypeOK'
  BY <1>1, <1>2 DEF MailInv, MailTypeOK, Days
<1>4. \A i \in Letters : /\ Received(i)' = Received(i) /\ Known(i)' = Known(i)
                         /\ Timely(i)' = Timely(i) /\ Missing(i)' = Missing(i)
  BY <1>1 DEF Received, Known, Timely, Missing
<1>5. \A n \in Nat : n <= day => n <= day'
  BY <1>1, <1>2
<1>6. WorldOK'
  <2>1. \A i \in Letters : mail[i].day \in Nat
    BY DEF MailInv, MailTypeOK, Letter, Days
  <2>2. \A y \in Prospects : recorded[y] \in Nat
    BY DEF MailInv, MailTypeOK, Days
  <2>3. QED BY <1>1, <1>4, <1>5, <2>1, <2>2 DEF MailInv, WorldOK
<1>7. CursorOK'
  BY <1>1, <1>4, <1>5 DEF MailInv, MailTypeOK, Days, CursorOK, TrueMarker
<1>8. ASSUME NEW p \in Pollers
      PROVE  PollOK(polls[p])'
  <2>1. PICK q : q = polls[p]
    OBVIOUS
  <2>2. PollOK(q) /\ polls'[p] = q /\ q.born \in Nat /\ q.top \in Nat
    BY <1>1, <2>1 DEF MailInv, MailTypeOK, Poll, Days
  <2>3. q.top <= day' /\ (q.pc # "idle" => q.born <= day' /\ day' <= q.born + Overlap)
    BY <1>1, <1>2, <1>5, <2>1, <2>2 DEF PollOK, At
  <2>4. PollOK(q)'
    BY <1>1, <1>4, <2>2, <2>3 DEF PollOK, SinceOK, TrueMarker, Asks
  <2>5. QED BY <2>2, <2>4 DEF PollOK, SinceOK, TrueMarker, Asks
<1>9. QED BY <1>3, <1>6, <1>7, <1>8 DEF MailInv

-----------------------------------------------------------------------------
(* A poll steps *)

\* What a poll has to answer for only shrinks when another one stores letters
\* or moves the cursor forward.
LEMMA OthersAnswerForNoMore ==
  ASSUME MailInv, NEW q \in Poll, PollOK(q), UNCHANGED world, rows \subseteq rows',
         checkpoint'.date \in Nat, checkpoint.date <= checkpoint'.date
  PROVE  PollOK(q)'
<1>1. UNCHANGED <<day, mail, history, recorded>>
  BY DEF world
<1>2. /\ checkpoint.date \in Nat /\ Overlap \in Nat /\ q.top \in Nat /\ q.since \in Int
      /\ q.whom \in SUBSET Prospects /\ \A x \in Prospects : recorded[x] \in Nat
  BY MailAssumption DEF MailInv, MailTypeOK, Poll, Days
<1>3. \A i \in Letters : /\ Received(i)' = Received(i) /\ Known(i)' = Known(i)
                         /\ Timely(i)' = Timely(i) /\ (Missing(i)' => Missing(i))
                         /\ Asks(q, i)' = Asks(q, i)
  BY <1>1 DEF Received, Known, Timely, Missing, Asks
<1>4. SinceOK(q) => SinceOK(q)'
  BY <1>1, <1>2 DEF SinceOK
<1>5. TrueMarker(q.marker) => TrueMarker(q.marker)'
  BY <1>1, <1>3 DEF TrueMarker
<1>6. q.top <= checkpoint.date => q.top <= checkpoint'.date
  BY <1>2
<1>7. QED BY <1>1, <1>3, <1>4, <1>5, <1>6 DEF PollOK

\* A poll's step keeps all when it keeps what is said of its own record.
LEMMA PollMoves ==
  ASSUME MailInv, NEW p \in Pollers, NEW r \in Poll, Write(p, r), UNCHANGED world,
         rows \subseteq rows', rows' \in SUBSET Letters,
         checkpoint' \in [date : Days, marker : Markers], checkpoint.date <= checkpoint'.date,
         CursorOK', PollOK(r)'
  PROVE  MailInv'
<1>1. UNCHANGED <<day, mail, history, recorded>>
  BY DEF world
<1>2. /\ polls' \in [Pollers -> Poll] /\ polls'[p] = r
      /\ \A q \in Pollers \ {p} : polls'[q] = polls[q]
  BY PollReplaced DEF MailInv
<1>3. MailTypeOK'
  BY <1>1, <1>2 DEF MailInv, MailTypeOK
<1>4. WorldOK'
  BY <1>1 DEF MailInv, WorldOK, Received, Known
<1>5. ASSUME NEW q \in Pollers, q # p
      PROVE  PollOK(polls[q])'
  <2>1. PICK s : s = polls[q]
    OBVIOUS
  <2>2. s \in Poll /\ PollOK(s) /\ polls'[q] = s
    BY <1>2, <1>5, <2>1 DEF MailInv, MailTypeOK
  <2>3. PollOK(s)'
    BY <2>2, OthersAnswerForNoMore DEF Days
  <2>4. QED BY <2>2, <2>3 DEF PollOK, SinceOK, TrueMarker, Asks
<1>6. PollOK(polls[p])'
  BY <1>2 DEF PollOK, SinceOK, TrueMarker, Asks
<1>7. QED BY <1>3, <1>4, <1>5, <1>6 DEF MailInv

\* Letters that are stored are letters that miss no more.
LEMMA CursorStays ==
  ASSUME MailInv, UNCHANGED <<world, checkpoint>>, rows \subseteq rows'
  PROVE  CursorOK'
<1>1. UNCHANGED <<day, mail, history, recorded, checkpoint>>
  BY DEF world
<1>2. \A i \in Letters : Timely(i)' = Timely(i) /\ (Missing(i)' => Missing(i))
  BY <1>1 DEF Received, Known, Timely, Missing
<1>3. QED BY <1>1, <1>2 DEF MailInv, CursorOK, TrueMarker

\* A poll that only reads.
LEMMA PollReads ==
  ASSUME MailInv, NEW p \in Pollers, NEW r \in Poll, Write(p, r),
         UNCHANGED <<world, rows, checkpoint>>, PollOK(r)
  PROVE  MailInv'
<1>1. UNCHANGED world /\ rows' = rows /\ checkpoint' = checkpoint
  OBVIOUS
<1>2. checkpoint.date \in Nat
  BY DEF MailInv, MailTypeOK, Days
<1>3. PollOK(r)'
  BY <1>1, <1>2, OthersAnswerForNoMore
<1>4. CursorOK'
  BY <1>1, CursorStays
<1>5. rows' \in SUBSET Letters /\ checkpoint' \in [date : Days, marker : Markers]
  BY <1>1 DEF MailInv, MailTypeOK
<1>6. checkpoint.date <= checkpoint'.date
  BY <1>1, <1>2
<1>7. QED BY <1>1, <1>3, <1>4, <1>5, <1>6, PollMoves

LEMMA IdleIsFine ==
  ASSUME MailInv
  PROVE  Idle \in Poll /\ PollOK(Idle)
<1>1. Idle \in Poll
  BY MailAssumption DEF Idle, Poll, Steps, Days, Markers
<1>2. 0 <= day /\ 0 <= history
  BY DEF MailInv, MailTypeOK, Days
<1>3. QED BY <1>1, <1>2 DEF Idle, PollOK

LEMMA LoadCheckpointKeeps ==
  ASSUME MailInv, NEW p \in Pollers, LoadCheckpoint(p)
  PROVE  MailInv'
<1>1. PICK r : r = [Idle EXCEPT !.pc = "loaded", !.born = day,
                                !.marker = checkpoint.marker, !.top = checkpoint.date]
  OBVIOUS
<1>2. Write(p, r) /\ UNCHANGED <<world, rows, checkpoint>>
  BY <1>1 DEF LoadCheckpoint
<1>3. /\ r.pc = "loaded" /\ r.born = day /\ r.marker = checkpoint.marker /\ r.top = checkpoint.date
      /\ r.latest = 0 /\ r.whom = {} /\ r.todo = {} /\ r.whole
      /\ r \in Poll
  <2>1. day \in Days /\ checkpoint.date \in Days /\ checkpoint.marker \in Markers
    BY DEF MailInv, MailTypeOK
  <2>2. Idle \in Poll
    BY IdleIsFine
  <2>3. r \in Poll
    BY <1>1, <2>1, <2>2 DEF Poll, Steps
  <2>4. QED BY <1>1, <2>3 DEF Idle
<1>4. /\ day \in Nat /\ Overlap \in Nat /\ history \in Nat /\ checkpoint.date \in Nat
      /\ CursorOK
  BY MailAssumption DEF MailInv, MailTypeOK, Days
<1>5. PollOK(r)
  BY <1>3, <1>4 DEF PollOK, CursorOK
<1>6. QED BY <1>2, <1>3, <1>5, PollReads

LEMMA SinceIsAnInteger ==
  ASSUME MailTypeOK, NEW d \in Days
  PROVE  Since(d) \in Int
<1>1. CASE Counterparties = {} \/ d # 0
  BY <1>1, MailAssumption DEF Since, Days
<1>2. CASE Counterparties # {} /\ d = 0
  BY <1>2, SinceTheFirst
<1>3. QED BY <1>1, <1>2

\* The sendings once read, every letter that came is from one whom the poll
\* asks for, or is none of its business.
LEMMA LoadSendsKeeps ==
  ASSUME MailInv, NEW p \in Pollers, LoadSends(p)
  PROVE  MailInv'
<1>1. PICK q : q = polls[p]
  OBVIOUS
<1>2. q.pc = "loaded" /\ q \in Poll /\ PollOK(q)
  BY <1>1 DEF LoadSends, At, MailInv, MailTypeOK
<1>3. /\ day \in Nat /\ Overlap \in Nat /\ history \in Nat /\ checkpoint.date \in Nat
      /\ q.top \in Days /\ q.top \in Nat /\ q.born \in Nat /\ Since(q.top) \in Int
      /\ \A x \in Prospects : recorded[x] \in Nat
  BY <1>2, SinceIsAnInteger, MailAssumption DEF MailInv, MailTypeOK, Days, Poll
<1>4. CASE Counterparties = {}
  <2>1. PICK r : r = [q EXCEPT !.pc = "storing"]
    OBVIOUS
  <2>2. Write(p, r) /\ UNCHANGED <<world, rows, checkpoint>>
    BY <1>1, <1>4, <2>1 DEF LoadSends
  <2>3. r \in Poll /\ r.pc = "storing" /\ \A f \in {"born", "top", "latest", "marker", "whom", "todo"} : r[f] = q[f]
    BY <1>2, <2>1 DEF Poll, Steps
  <2>4. PollOK(r)
    BY <1>2, <2>3 DEF PollOK, MailInv, WorldOK
  <2>5. QED BY <2>2, <2>3, <2>4, PollReads
<1>5. CASE Counterparties # {}
  <2>1. PICK r : r = [q EXCEPT !.pc = "scoped", !.whom = Counterparties, !.since = Since(q.top)]
    OBVIOUS
  <2>2. Write(p, r) /\ UNCHANGED <<world, rows, checkpoint>>
    BY <1>1, <1>5, <2>1 DEF LoadSends
  <2>3. /\ r \in Poll /\ r.pc = "scoped" /\ r.whom = Counterparties /\ r.since = Since(q.top)
        /\ \A f \in {"born", "top", "latest", "marker", "todo"} : r[f] = q[f]
    BY <1>2, <1>3, <2>1 DEF Poll, Steps, Counterparties
  <2>4. \A i \in Letters : Known(i) \/ Timely(i) => mail[i].from \in r.whom
    BY <2>3 DEF MailInv, WorldOK, Known, Timely, Counterparties
  <2>5. SinceOK(r)
    <3>1. CASE q.top # 0
      BY <1>2, <1>3, <2>3, <3>1 DEF SinceOK, Since, PollOK
    <3>2. CASE q.top = 0
      <4>1. \A x \in Counterparties : Since(0) <= recorded[x] - Overlap /\ recorded[x] \in Nat
        BY <1>3, <1>5, SinceTheFirst DEF MailInv, Counterparties
      <4>2. QED BY <1>3, <2>3, <3>2, <4>1 DEF SinceOK
    <3>3. QED BY <3>1, <3>2
  <2>6. PollOK(r)
    BY <1>2, <2>3, <2>4, <2>5 DEF PollOK, Missing, Counterparties
  <2>7. QED BY <2>2, <2>3, <2>6, PollReads
<1>6. QED BY <1>4, <1>5

LEMMA ProbeKeeps ==
  ASSUME MailInv, NEW p \in Pollers, Probe(p)
  PROVE  MailInv'
<1>1. PICK q : q = polls[p]
  OBVIOUS
<1>2. q.pc = "scoped" /\ q \in Poll /\ PollOK(q)
  BY <1>1 DEF Probe, At, MailInv, MailTypeOK
<1> DEFINE Asked(latest) ==
      [q EXCEPT !.latest = latest, !.marker = 0,
                !.invalid = q.marker # 0 /\ latest # 0 /\ latest < q.marker]
<1>3. PICK latest \in Profile(q.marker) :
        Write(p, IF q.marker # 0 /\ latest = q.marker
                 THEN [Asked(latest) EXCEPT !.pc = "storing", !.whom = {}, !.since = 0]
                 ELSE [Asked(latest) EXCEPT !.pc = "listing"])
  BY <1>1 DEF Probe
<1>4. UNCHANGED <<world, rows, checkpoint>>
  BY DEF Probe
<1>5. /\ latest \in Nat /\ latest <= history /\ history \in Nat /\ q.marker \in Nat
      /\ MaxDay \in Nat
  BY <1>2, <1>3, MailAssumption DEF Profile, PollOK, Poll, Markers, MailInv, MailTypeOK
<1>6. CASE q.marker # 0 /\ latest = q.marker
  <2>1. PICK r : r = [Asked(latest) EXCEPT !.pc = "storing", !.whom = {}, !.since = 0]
    OBVIOUS
  <2>2. Write(p, r)
    BY <1>3, <1>6, <2>1
  <2>3. /\ r \in Poll /\ r.pc = "storing" /\ r.whom = {} /\ r.latest = q.marker /\ r.marker = 0
        /\ \A f \in {"born", "top", "todo"} : r[f] = q[f]
    <3>1. PICK a : a = Asked(latest)
      OBVIOUS
    <3>2. /\ a \in Poll /\ a.latest = latest /\ a.marker = 0
          /\ \A f \in {"born", "top", "todo"} : a[f] = q[f]
      BY <1>2, <1>5, <3>1 DEF Poll, Markers
    <3>3. PICK zero \in Int : zero = 0
      OBVIOUS
    <3>4. r = [a EXCEPT !.pc = "storing", !.whom = {}, !.since = zero]
      BY <2>1, <3>1, <3>3
    <3>5. QED BY <1>6, <3>2, <3>4 DEF Poll, Steps
  <2>4. PollOK(r)
    BY <1>2, <1>5, <2>3 DEF PollOK, TrueMarker
  <2>5. QED BY <1>4, <2>2, <2>3, <2>4, PollReads
<1>7. CASE ~ (q.marker # 0 /\ latest = q.marker)
  <2>1. PICK r : r = [Asked(latest) EXCEPT !.pc = "listing"]
    OBVIOUS
  <2>2. Write(p, r)
    BY <1>3, <1>7, <2>1
  <2>3. /\ r \in Poll /\ r.pc = "listing" /\ r.latest = latest /\ r.marker = 0
        /\ \A f \in {"born", "top", "whom", "since", "todo"} : r[f] = q[f]
    BY <1>2, <1>5, <2>1 DEF Poll, Steps, Markers
  <2>4. SinceOK(r)
    BY <1>2, <2>3 DEF PollOK, SinceOK
  <2>5. PollOK(r)
    BY <1>2, <1>5, <2>3, <2>4 DEF PollOK, Asks
  <2>6. QED BY <1>4, <2>2, <2>3, <2>5, PollReads
<1>8. QED BY <1>6, <1>7

\* What a chunk asks for, and is not cut, is everything it may miss.
LEMMA ListKeeps ==
  ASSUME MailInv, NEW p \in Pollers, List(p)
  PROVE  MailInv'
<1>1. PICK q : q = polls[p]
  OBVIOUS
<1>2. q.pc = "listing" /\ q \in Poll /\ PollOK(q)
  BY <1>1 DEF List, At, MailInv, MailTypeOK
<1> DEFINE Listed(poll, ids, left) ==
      IF left # {} THEN [poll EXCEPT !.todo = @ \cup ids, !.whom = left]
      ELSE [poll EXCEPT !.todo = @ \cup ids, !.whom = {}, !.since = 0, !.invalid = FALSE,
                        !.pc = IF poll.invalid THEN "listed" ELSE "storing"]
<1>3. UNCHANGED <<world, rows, checkpoint>>
  BY DEF List
<1>4. PICK chunk \in SUBSET q.whom :
        \/ Write(p, Listed(q, Answers(chunk, q.since), q.whom \ chunk))
        \/ \E ids \in SUBSET Letters : Write(p, Listed(Spoilt(q), ids, {}))
  <2>1. PICK chunk \in SUBSET q.whom :
          LET found == Answers(chunk, q.since)
              room  == Cap - Cardinality(q.todo)
          IN  \/ Write(p, Listed(q, found, q.whom \ chunk))
              \/ \E ids \in kSubset(room, found) : Write(p, Listed(Spoilt(q), ids, {}))
    BY <1>1 DEF List
  <2>2. \A n : kSubset(n, Answers(chunk, q.since)) \subseteq SUBSET Letters
    BY DEF kSubset, Answers
  <2> HIDE DEF Listed
  <2>3. QED BY <2>1, <2>2
<1>5. /\ day \in Nat /\ q.top \in Nat /\ history \in Nat /\ 0 \in Days
      /\ checkpoint.date \in Nat /\ Overlap \in Nat /\ q.since \in Int
      /\ q.whom \in SUBSET Prospects /\ history # 0
      /\ \A x \in Prospects : recorded[x] \in Nat
      /\ \A i \in Letters : mail[i].day \in Nat
  BY <1>2, MailAssumption DEF MailInv, MailTypeOK, WorldOK, Poll, Letter, Days
<1>6. CASE Write(p, Listed(q, Answers(chunk, q.since), q.whom \ chunk))
  <2> DEFINE found == Answers(chunk, q.since)
             left == q.whom \ chunk
  <2>1. PICK r : r = Listed(q, found, left)
    OBVIOUS
  <2>2. found \in SUBSET Letters
    BY DEF Answers
  <2>3. /\ r \in Poll /\ r.todo = q.todo \cup found /\ r.whom = left
        /\ \A f \in {"born", "top", "marker", "latest", "whole"} : r[f] = q[f]
        /\ r.pc \in {"listing", "listed", "storing"}
        /\ r.pc = "listing" <=> left # {}
        /\ r.pc = "listing" => r.since = q.since
    <3>1. CASE left # {}
      BY <1>2, <2>1, <2>2, <3>1 DEF Poll, Steps
    <3>2. CASE left = {}
      <4>1. PICK zero \in Int, step \in {"listed", "storing"} :
              zero = 0 /\ step = IF q.invalid THEN "listed" ELSE "storing"
        OBVIOUS
      <4>2. r = [q EXCEPT !.todo = @ \cup found, !.whom = {}, !.since = zero,
                          !.invalid = FALSE, !.pc = step]
        BY <2>1, <3>2, <4>1
      <4> HIDE DEF found
      <4>3. QED BY <1>2, <2>2, <3>2, <4>2 DEF Poll, Steps
    <3>3. QED BY <3>1, <3>2
  <2>4. ASSUME NEW i \in Letters, Known(i), mail[i].from \in chunk
        PROVE  i \in rows \cup r.todo
    <3>1. CASE i \notin rows
      <4>1. mail[i].day >= q.since
        <5>1. CASE checkpoint.date # 0 /\ q.since <= checkpoint.date - Overlap
          BY <1>5, <2>4, <3>1, <5>1 DEF MailInv, CursorOK, Missing
        <5>2. CASE \A x \in q.whom : q.since <= recorded[x]
          BY <1>5, <2>4, <5>2 DEF MailInv, WorldOK
        <5>3. QED BY <1>2, <5>1, <5>2 DEF PollOK, SinceOK
      <4>2. QED BY <2>3, <2>4, <4>1 DEF Answers, Known
    <3>2. QED BY <3>1
  <2>5. ASSUME NEW i \in Letters, Asks(q, i), mail[i].from \notin chunk
        PROVE  Asks(r, i)
    BY <2>3, <2>5 DEF Asks
  <2>6. r.pc = "listing" => SinceOK(r)
    BY <1>2, <2>3 DEF PollOK, SinceOK
  <2>7. ASSUME r.whole, r.latest = history, NEW i \in Letters, Timely(i)
        PROVE  i \in rows \cup r.todo \/ Asks(r, i)
    <3>1. i \in rows \cup q.todo \/ Asks(q, i)
      BY <1>2, <2>3, <2>7 DEF PollOK
    <3>2. Known(i)
      BY <2>7 DEF Timely, Known
    <3>3. QED BY <2>3, <2>4, <2>5, <3>1, <3>2
  <2>8. ASSUME r.whole, NEW i \in Letters, Missing(i)
        PROVE  i \in r.todo \/ Asks(r, i) \/ mail[i].day >= r.born
    <3>1. i \in q.todo \/ Asks(q, i) \/ mail[i].day >= q.born
      BY <1>2, <2>3, <2>8 DEF PollOK
    <3>2. Known(i) /\ i \notin rows
      BY <2>8 DEF Missing
    <3>3. QED BY <2>3, <2>4, <2>5, <3>1, <3>2
  <2>9. PollOK(r)
    <3> HIDE DEF found, left, Listed
    <3>1. \A x \in r.whom : recorded[x] # 0
      BY <1>2, <2>3 DEF PollOK, left
    <3>2. QED BY <1>2, <2>3, <2>6, <2>7, <2>8, <3>1 DEF PollOK
  <2>10. QED BY <1>3, <1>6, <2>1, <2>3, <2>9, PollReads
<1>7. CASE \E ids \in SUBSET Letters : Write(p, Listed(Spoilt(q), ids, {}))
  <2>1. PICK ids \in SUBSET Letters : Write(p, Listed(Spoilt(q), ids, {}))
    BY <1>7
  <2>2. PICK s : s = Spoilt(q)
    OBVIOUS
  <2>3. s \in Poll /\ ~s.whole /\ s.latest = 0 /\ s.top = 0 /\ s.born = q.born /\ s.marker = q.marker
    BY <1>2, <1>5, <2>2 DEF Spoilt, Poll, Markers
  <2>4. PICK r : r = Listed(s, ids, {})
    OBVIOUS
  <2>5. /\ r \in Poll /\ r.whom = {} /\ r.pc \in {"listed", "storing"}
        /\ \A f \in {"born", "top", "marker", "latest", "whole"} : r[f] = s[f]
    <3>1. PICK zero \in Int, step \in {"listed", "storing"} :
            zero = 0 /\ step = IF s.invalid THEN "listed" ELSE "storing"
      OBVIOUS
    <3>2. r = [s EXCEPT !.todo = @ \cup ids, !.whom = {}, !.since = zero,
                        !.invalid = FALSE, !.pc = step]
      BY <2>4, <3>1
    <3>3. QED BY <2>1, <2>3, <3>2 DEF Poll, Steps
  <2>6. PollOK(r)
    BY <1>2, <1>5, <2>3, <2>5 DEF PollOK
  <2>7. QED BY <1>3, <2>1, <2>2, <2>4, <2>5, <2>6, PollReads
<1>8. QED BY <1>4, <1>6, <1>7

LEMMA InvalidateKeeps ==
  ASSUME MailInv, NEW p \in Pollers, Invalidate(p)
  PROVE  MailInv'
<1>1. PICK q : q = polls[p]
  OBVIOUS
<1>2. PICK r : r = [q EXCEPT !.pc = "storing"]
  OBVIOUS
<1>3. /\ q.pc = "listed" /\ q \in Poll /\ PollOK(q) /\ Write(p, r)
      /\ checkpoint' = [checkpoint EXCEPT !.marker = 0]
      /\ UNCHANGED world /\ rows' = rows
  BY <1>1, <1>2 DEF Invalidate, At, MailInv, MailTypeOK
<1>4. /\ checkpoint'.date = checkpoint.date /\ checkpoint'.marker = 0
      /\ checkpoint' \in [date : Days, marker : Markers] /\ checkpoint'.date \in Nat
  BY <1>3 DEF MailInv, MailTypeOK, Days, Markers
<1>5. /\ r \in Poll /\ r.pc = "storing"
      /\ \A f \in {"born", "top", "marker", "latest", "whole", "whom", "todo"} : r[f] = q[f]
  BY <1>2, <1>3 DEF Poll, Steps
<1>6. UNCHANGED <<day, mail, history, recorded>>
  BY <1>3 DEF world
<1>7. CursorOK'
  <2>1. \A i \in Letters : Timely(i)' = Timely(i) /\ Missing(i)' = Missing(i)
    BY <1>3, <1>6 DEF Received, Known, Timely, Missing
  <2>2. history # 0 /\ history \in Nat
    BY DEF MailInv, WorldOK, MailTypeOK
  <2>3. QED BY <1>4, <1>6, <2>1, <2>2 DEF MailInv, CursorOK, TrueMarker
<1>8. PollOK(r)
  BY <1>3, <1>5 DEF PollOK, Asks
<1>9. PollOK(r)'
  BY <1>3, <1>4, <1>5, <1>8, OthersAnswerForNoMore
<1>10. rows \subseteq rows' /\ rows' \in SUBSET Letters /\ checkpoint.date <= checkpoint'.date
  BY <1>3, <1>4 DEF MailInv, MailTypeOK
<1>11. QED BY <1>3, <1>4, <1>5, <1>7, <1>9, <1>10, PollMoves

\* A letter stored is one the poll had to answer for and has no more.
LEMMA StoreKeeps ==
  ASSUME MailInv, NEW p \in Pollers, Store(p)
  PROVE  MailInv'
<1>1. PICK q : q = polls[p]
  OBVIOUS
<1>2. /\ q.pc = "storing" /\ q \in Poll /\ PollOK(q)
      /\ UNCHANGED world /\ checkpoint' = checkpoint
  BY <1>1 DEF Store, At, MailInv, MailTypeOK
<1>3. PICK i \in q.todo :
        \/ /\ rows' = rows \cup {i}
           /\ Write(p, [q EXCEPT !.todo = @ \ {i},
                                 !.top = IF q.whole THEN Max({@, mail[i].day}) ELSE @])
        \/ /\ Write(p, [Spoilt(q) EXCEPT !.todo = @ \ {i}])
           /\ UNCHANGED rows
  BY <1>1 DEF Store
<1>4. /\ i \in Letters /\ mail[i].day \in Days /\ q.top \in Days /\ Days \subseteq Nat
      /\ day \in Nat /\ 0 \in Days /\ history \in Nat /\ history # 0
      /\ mail[i].day <= day /\ q.top <= day
  BY <1>2, <1>3, MailAssumption DEF MailInv, MailTypeOK, WorldOK, PollOK, Letter, Poll, Days
<1>5. UNCHANGED <<day, mail, history, recorded>>
  BY <1>2 DEF world
<1>6. /\ checkpoint' \in [date : Days, marker : Markers]
      /\ checkpoint.date <= checkpoint'.date
  <2>1. checkpoint \in [date : Days, marker : Markers]
    BY DEF MailInv, MailTypeOK
  <2>2. checkpoint.date \in Nat
    BY <1>4, <2>1
  <2>3. QED BY <1>2, <2>1, <2>2
<1>7. ASSUME rows' = rows \cup {i},
             Write(p, [q EXCEPT !.todo = @ \ {i},
                               !.top = IF q.whole THEN Max({@, mail[i].day}) ELSE @])
      PROVE  MailInv'
  <2>1. PICK top : top = IF q.whole THEN Max({q.top, mail[i].day}) ELSE q.top
    OBVIOUS
  <2>2. top \in Days /\ top <= day
    <3>1. Max({q.top, mail[i].day}) \in {q.top, mail[i].day}
      BY <1>4, GreaterOfTwo
    <3>2. QED BY <1>4, <2>1, <3>1
  <2>3. PICK r : r = [q EXCEPT !.todo = @ \ {i}, !.top = top]
    OBVIOUS
  <2>4. Write(p, r)
    BY <1>7, <2>1, <2>3
  <2>5. /\ r \in Poll /\ r.todo = q.todo \ {i} /\ r.top = top
        /\ \A f \in {"pc", "born", "marker", "latest", "whole", "whom"} : r[f] = q[f]
    BY <1>2, <2>2, <2>3 DEF Poll
  <2>6. rows \subseteq rows' /\ rows' \in SUBSET Letters
    BY <1>4, <1>7 DEF MailInv, MailTypeOK
  <2>7. CursorOK'
    BY <1>2, <2>6, CursorStays
  <2>8. PollOK(r)'
    <3>1. \A k \in Letters : /\ Received(k)' = Received(k) /\ Timely(k)' = Timely(k)
                             /\ Missing(k)' => Missing(k) /\ k # i
      BY <1>5, <1>7 DEF Received, Known, Timely, Missing
    <3>2. \A k \in Letters : ~Asks(q, k)
      BY <1>2 DEF Asks
    <3>3. ASSUME r.whole, r.latest = history', NEW k \in Letters, Timely(k)'
          PROVE  k \in rows' \cup r.todo
      <4>1. k \in rows \cup q.todo
        BY <1>2, <1>5, <2>5, <3>1, <3>2, <3>3 DEF PollOK
      <4>2. QED BY <1>7, <2>5, <4>1
    <3>4. ASSUME r.whole, NEW k \in Letters, Missing(k)'
          PROVE  k \in r.todo \/ mail'[k].day >= r.born
      <4>1. k \in q.todo \/ mail[k].day >= q.born
        BY <1>2, <1>3, <2>5, <3>1, <3>2, <3>4 DEF PollOK
      <4>2. QED BY <1>5, <2>5, <3>1, <3>4, <4>1
    <3>5. QED BY <1>2, <1>5, <2>2, <2>5, <3>3, <3>4 DEF PollOK
  <2>9. QED BY <1>2, <1>6, <2>4, <2>5, <2>6, <2>7, <2>8, PollMoves
<1>8. ASSUME Write(p, [Spoilt(q) EXCEPT !.todo = @ \ {i}]), UNCHANGED rows
      PROVE  MailInv'
  <2>1. PICK s : s = Spoilt(q)
    OBVIOUS
  <2>2. /\ s \in Poll /\ ~s.whole /\ s.latest = 0 /\ s.top = 0
        /\ \A f \in {"pc", "born", "marker", "whom", "todo"} : s[f] = q[f]
    BY <1>2, <1>4, <2>1 DEF Spoilt, Poll, Markers
  <2>3. PICK r : r = [s EXCEPT !.todo = @ \ {i}]
    OBVIOUS
  <2>4. /\ r \in Poll
        /\ \A f \in {"pc", "born", "top", "marker", "latest", "whole", "whom"} : r[f] = s[f]
    BY <2>2, <2>3 DEF Poll
  <2>5. PollOK(r)
    BY <1>2, <1>4, <2>2, <2>4 DEF PollOK
  <2>6. QED BY <1>2, <1>8, <2>1, <2>3, <2>4, <2>5, PollReads
<1>9. QED BY <1>3, <1>7, <1>8

\* The cursor a whole poll leaves has nothing missing behind it.
LEMMA AdvanceKeeps ==
  ASSUME MailInv, NEW p \in Pollers, Advance(p)
  PROVE  MailInv'
<1>1. PICK q : q = polls[p]
  OBVIOUS
<1>2. /\ q.pc = "storing" /\ q.todo = {} /\ q.whole /\ q \in Poll /\ PollOK(q)
      /\ Write(p, Idle) /\ UNCHANGED world /\ rows' = rows
  BY <1>1 DEF Advance, Over, At, MailInv, MailTypeOK
<1>3. PICK marker, date :
        /\ marker = IF q.latest # 0 THEN q.latest ELSE checkpoint.marker
        /\ date = Max({q.top, checkpoint.date})
        /\ checkpoint' = [marker |-> marker, date |-> date]
  BY <1>1 DEF Advance
<1>4. /\ q.top \in Days /\ checkpoint.date \in Days /\ q.latest \in Nat /\ checkpoint.marker \in Nat
      /\ Days \subseteq Nat /\ day \in Nat /\ q.born \in Nat /\ Overlap \in Nat
      /\ \A i \in Letters : mail[i].day \in Nat
  BY <1>2, MailAssumption DEF MailInv, MailTypeOK, Letter, Poll, Days, Markers
<1>5. date \in {q.top, checkpoint.date} /\ date >= q.top /\ date >= checkpoint.date /\ date \in Nat
  <2>1. q.top \in Nat /\ checkpoint.date \in Nat
    BY <1>4
  <2>2. QED BY <1>3, <2>1, GreaterOfTwo
<1>6. UNCHANGED <<day, mail, history, recorded>>
  BY <1>2 DEF world
<1>7. \A i \in Letters : /\ Timely(i)' = Timely(i) /\ Missing(i)' = Missing(i) /\ ~Asks(q, i)
  BY <1>2, <1>6 DEF Received, Known, Timely, Missing, Asks
<1>8. CursorOK'
  <2>1. date <= day /\ marker <= history
    BY <1>2, <1>3, <1>5 DEF MailInv, CursorOK, PollOK
  <2>2. ASSUME date # 0, NEW i \in Letters, Missing(i)
        PROVE  mail[i].day >= date - Overlap
    <3>1. CASE q.top <= checkpoint.date
      <4>1. date = checkpoint.date
        <5>1. q.top \in Nat /\ checkpoint.date \in Nat
          BY <1>4
        <5>2. QED BY <1>5, <3>1, <5>1
      <4>2. QED BY <2>2, <4>1 DEF MailInv, CursorOK
    <3>2. CASE ~ (q.top <= checkpoint.date)
      <4>1. mail[i].day >= q.born /\ day <= q.born + Overlap
        BY <1>2, <1>7, <2>2, <3>2 DEF PollOK
      <4>2. QED BY <1>4, <1>5, <2>1, <4>1
    <3>3. QED BY <3>1, <3>2
  <2>3. marker = history => \A i \in Letters : Timely(i) => i \in rows
    <3>1. CASE q.latest # 0
      BY <1>2, <1>3, <1>7, <3>1 DEF PollOK
    <3>2. CASE q.latest = 0
      BY <1>3, <3>2 DEF MailInv, CursorOK, TrueMarker
    <3>3. QED BY <3>1, <3>2
  <2>4. checkpoint'.date = date /\ checkpoint'.marker = marker
    BY <1>3
  <2>5. QED BY <1>2, <1>6, <1>7, <2>1, <2>2, <2>3, <2>4 DEF CursorOK, TrueMarker
<1>9. /\ checkpoint' \in [date : Days, marker : Markers] /\ checkpoint'.date = date
      /\ checkpoint.date <= checkpoint'.date
  BY <1>3, <1>4, <1>5 DEF Markers
<1>10. PollOK(Idle)'
  <2>1. PICK r : r = Idle
    OBVIOUS
  <2>2. r \in Poll /\ PollOK(r)
    BY <2>1, IdleIsFine
  <2>3. PollOK(r)'
    BY <1>2, <1>5, <1>9, <2>2, OthersAnswerForNoMore
  <2>4. QED BY <2>1, <2>3
<1>11. rows \subseteq rows' /\ rows' \in SUBSET Letters
  BY <1>2 DEF MailInv, MailTypeOK
<1>12. QED BY <1>2, <1>8, <1>9, <1>10, <1>11, IdleIsFine, PollMoves

LEMMA EndKeeps ==
  ASSUME MailInv, NEW p \in Pollers, Touch(p) \/ Dies(p)
  PROVE  MailInv'
<1>1. Write(p, Idle) /\ UNCHANGED <<world, rows, checkpoint>>
  BY DEF Touch, Dies
<1>2. PICK r : r = Idle
  OBVIOUS
<1>3. r \in Poll /\ PollOK(r)
  BY <1>2, IdleIsFine
<1>4. QED BY <1>1, <1>2, <1>3, PollReads

-----------------------------------------------------------------------------
(* The invariant and what follows from it *)

LEMMA MailInvStarts == MailInit => MailInv
<1> SUFFICES ASSUME MailInit PROVE MailInv
  OBVIOUS
<1>1. 0 \in Days /\ 1 \in Days /\ 0 \in Nat /\ Overlap \in Nat
  BY MailAssumption DEF Days
<1>2. Unwritten \in Letter
  BY <1>1 DEF Unwritten, Letter, Whens
<1>3. Idle \in Poll
  BY <1>1 DEF Idle, Poll, Steps, Markers
<1>4. MailTypeOK
  BY <1>1, <1>2, <1>3 DEF MailInit, MailTypeOK, Markers
<1>5. \A i \in Letters : ~Received(i) /\ ~Timely(i) /\ ~Known(i) /\ mail[i].day = 0
  BY DEF MailInit, Received, Timely, Known, Unwritten
<1>6. WorldOK /\ CursorOK
  BY <1>5 DEF MailInit, WorldOK, CursorOK, TrueMarker, Missing
<1>7. \A p \in Pollers : PollOK(polls[p])
  BY <1>1 DEF MailInit, PollOK, Idle
<1>8. QED BY <1>4, <1>6, <1>7 DEF MailInv

LEMMA MailInvKept == MailInv /\ [MailNext]_mailVars => MailInv'
<1> SUFFICES ASSUME MailInv, [MailNext]_mailVars PROVE MailInv'
  OBVIOUS
<1>1. CASE UNCHANGED mailVars
  BY <1>1 DEF mailVars, world, MailInv, MailTypeOK, WorldOK, CursorOK, PollOK, SinceOK,
              TrueMarker, Asks, Missing, Known, Timely, Received
<1>2. CASE WorldStep
  BY <1>2, RecordKeeps, ReplyKeeps, TickKeeps DEF WorldStep
<1>3. ASSUME NEW p \in Pollers, PollStep(p) \/ Dies(p)
      PROVE  MailInv'
  BY <1>3, LoadCheckpointKeeps, LoadSendsKeeps, ProbeKeeps, ListKeeps, InvalidateKeeps,
     StoreKeeps, AdvanceKeeps, EndKeeps DEF PollStep
<1>4. QED BY <1>1, <1>2, <1>3 DEF MailNext

LEMMA MailInvAlways == MailSpec => []MailInv
  BY MailInvStarts, MailInvKept, PTL DEF MailSpec

LEMMA InvLosesNoReply == MailInv => NoReplyIsLost
<1> SUFFICES ASSUME MailInv, NEW i \in Letters, Missing(i)
             PROVE  mail[i].day >= Since(checkpoint.date)
  BY DEF NoReplyIsLost, Missing, Known
<1>1. CASE checkpoint.date # 0
  BY <1>1 DEF MailInv, CursorOK, Since
<1>2. CASE checkpoint.date = 0
  <2> DEFINE x == mail[i].from
  <2>1. x \in Counterparties /\ recorded[x] <= mail[i].day
    BY DEF MailInv, WorldOK, Missing, Known, Counterparties
  <2>2. recorded[x] \in Nat /\ mail[i].day \in Nat /\ Overlap \in Nat
    BY <2>1, MailAssumption DEF MailInv, MailTypeOK, Letter, Days, Counterparties
  <2>3. Since(0) \in Int /\ Since(0) <= recorded[x] - Overlap
    BY <2>1, SinceTheFirst DEF MailInv
  <2>4. QED BY <1>2, <2>1, <2>2, <2>3
<1>3. QED BY <1>1, <1>2

\* The columns of the cursor and the records of the polls keep their types,
\* whatever fails (loadCheckpoint, advanceCheckpoint).
THEOREM MailTypeCorrect == MailSpec => []MailTypeOK
<1>1. MailInv => MailTypeOK
  BY DEF MailInv
<1>2. QED BY <1>1, MailInvAlways, PTL

\* No reply to a recorded sending falls behind the cursor unread, for any number
\* of prospects, letters and concurrent polls, any cap and any overlap a poll
\* fits in (pollInboundReplies, advanceCheckpoint).
THEOREM NothingLost == MailSpec => []NoReplyIsLost
  BY InvLosesNoReply, MailInvAlways, PTL

\* A mailbox whose marker has not moved holds no such reply unread
\* (GmailInboundProvider.listNewMessages).
THEOREM MarkerIsSafe == MailSpec => []MarkerHidesNothing
<1>1. MailInv => MarkerHidesNothing
  BY DEF MailInv, CursorOK, TrueMarker, Timely, MarkerHidesNothing
<1>2. QED BY <1>1, MailInvAlways, PTL
=============================================================================
