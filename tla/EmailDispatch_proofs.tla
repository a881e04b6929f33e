------------------------ MODULE EmailDispatch_proofs ------------------------
(***************************************************************************)
(* What is true of one manifest for any number of processes, attempts,     *)
(* requests, deaths and crossings, in three layers:                        *)
(*   Always     whatever happens;                                          *)
(*   Uncrossed  until a reconciliation is begun under a dispatcher at work;*)
(*   Windowed   until then, when no request outlives its window.           *)
(***************************************************************************)
EXTENDS EmailDispatch, TLAPS

NoStall == "stall" \notin Incidents

Active(p) == proc[p].pc # "idle"
Live(a) == rows[a].status \notin {"NONE", "FAILED"}
NothingDone == emails = 0 /\ \A n \in PostIds : ~InProgress(n)

-----------------------------------------------------------------------------
(* Always.                                                                 *)

\* The attempts are made one after the other, each once the last is FAILED.
RowsInOrder ==
    /\ \A a \in RowIds, b \in RowIds : b < a /\ rows[a].status # "NONE" => rows[b].status = "FAILED"
    /\ \A a \in RowIds : rows[a].status = "NONE" => ~rows[a].network /\ ~rows[a].open

\* A process at work is on an attempt that was made, marked before any
\* reconciliation of it, and says SENT of an email that exists.
AtWork(p) ==
    /\ p \in Dispatchers => proc[p].pc \in {"claimed", "marked", "waiting", "answered"}
    /\ p \in Reconcilers => /\ proc[p].pc \in {"retrieving", "replaying", "waiting", "answered", "confirming"}
                            /\ rows[proc[p].row].network
    /\ proc[p].row \in RowIds /\ rows[proc[p].row].status # "NONE"
    /\ proc[p].pc = "replaying" => proc[p].tries < MaxReplay
    /\ proc[p].pc = "waiting" => proc[p].post \in PostIds
    /\ proc[p].pc = "answered" => proc[p].outcome # "none"
    /\ proc[p].pc = "confirming" \/ (proc[p].pc = "answered" /\ proc[p].outcome = "SENT") => emails > 0

ProcessesOK == \A p \in Procs : Active(p) => AtWork(p)

\* The provider processes one request at a time, and a key it keeps, as an
\* answer that says so, is that of an email.
KeyOK ==
    /\ key = "busy" <=> \E n \in PostIds : posts[n] = "processing"
    /\ \A n \in PostIds, m \in PostIds : posts[n] = "processing" /\ posts[m] = "processing" => n = m
    /\ key = "kept" => emails > 0
    /\ \A n \in PostIds : posts[n] \in {"created", "same"} => emails > 0

SentOnce ==
    /\ \A a, b \in RowIds : rows[a].status = "SENT" /\ rows[b].status = "SENT" => a = b
    /\ Has("SENT") => sentEvents = 1
    /\ sentEvents <= 1 /\ sentEvents <= emails

Always == EmailTypeOK /\ RowsInOrder /\ ProcessesOK /\ KeyOK /\ SentOnce

-----------------------------------------------------------------------------
(* Until a crossing.                                                       *)

\* A dispatcher at work is alone, on the live attempt, which it marks first.
DispatchersOK ==
    /\ \A p \in Dispatchers, q \in Dispatchers : Active(p) /\ Active(q) => p = q
    /\ \A p \in Dispatchers : Active(p) =>
          /\ rows[proc[p].row].status = "CLAIMED"
          /\ proc[p].pc # "claimed" => rows[proc[p].row].network

\* A reconciliation works on a live attempt, when no dispatcher does.
ReconcilersOK ==
    \A p \in Reconcilers : Active(p) => Live(proc[p].row) /\ \A q \in Dispatchers : ~Active(q)

\* A dispatcher makes the first request there is, and knows what became of it.
FirstRequest ==
    \A p \in Dispatchers :
        /\ proc[p].pc \in {"claimed", "marked"} => NothingDone
        /\ proc[p].pc = "waiting" =>
              /\ \A m \in PostIds : m # proc[p].post => ~InProgress(m)
              /\ \/ posts[proc[p].post] \in {"flying", "processing", "lost", "rejected"} /\ emails = 0
                 \/ posts[proc[p].post] = "created"
        /\ proc[p].pc = "answered" /\ proc[p].outcome = "FAILED" => NothingDone

NothingLive == (\A a \in RowIds : ~Live(a)) => NothingDone

Recorded == sentEvents = 1 => Has("SENT")

PostsAnnounced == \A n \in PostIds : posts[n] # "unmade" => Announced

Uncrossed == DispatchersOK /\ ReconcilersOK /\ FirstRequest /\ NothingLive /\ Recorded /\ PostsAnnounced

-----------------------------------------------------------------------------
(* Until a crossing, when no request outlives its window.                  *)

OneAtMost == emails <= 1 /\ (key = "busy" => emails = 0)

\* A replay is made within its window.
ReplaysOpen ==
    \A p \in Reconcilers : proc[p].pc \in {"replaying", "waiting", "answered"} => rows[proc[p].row].open

\* What may still create an email is within a window, and what the provider has
\* forgotten is outside every window.
WindowOK ==
    /\ \A n \in PostIds, m \in PostIds : InProgress(n) /\ InProgress(m) /\ n # m => \E a \in RowIds : rows[a].open
    /\ \A n \in PostIds : emails = 1 /\ InProgress(n) => \E a \in RowIds : rows[a].open
    /\ emails = 1 /\ key = "free" =>
          (\A n \in PostIds : ~InProgress(n)) /\ \A a \in RowIds : ~rows[a].open

Windowed == OneAtMost /\ ReplaysOpen /\ WindowOK

-----------------------------------------------------------------------------
(* What a replacement leaves.                                              *)

LEMMA ProcReplaced ==
  ASSUME EmailTypeOK, NEW p \in Procs, NEW r \in Process, proc' = [proc EXCEPT ![p] = r]
  PROVE  /\ proc' \in [Procs -> Process] /\ proc'[p] = r
         /\ \A q \in Procs : q # p => proc'[q] = proc[q]
  BY DEF EmailTypeOK

LEMMA RowReplaced ==
  ASSUME EmailTypeOK, NEW a \in RowIds, NEW r \in Row, RowAccepted(r), rows' = [rows EXCEPT ![a] = r]
  PROVE  /\ rows' \in [RowIds -> Row] /\ rows'[a] = r
         /\ \A b \in RowIds : b # a => rows'[b] = rows[b]
         /\ \A b \in RowIds : RowAccepted(rows'[b])
  BY DEF EmailTypeOK

LEMMA PostReplaced ==
  ASSUME EmailTypeOK, NEW n \in PostIds, NEW x \in Post, posts' = [posts EXCEPT ![n] = x]
  PROVE  /\ posts' \in [PostIds -> Post] /\ posts'[n] = x
         /\ \A m \in PostIds : m # n => posts'[m] = posts[m]
  BY DEF EmailTypeOK

LEMMA IdleTyped == Idle \in Process /\ Idle.pc = "idle"
  BY EmailAssumption DEF Idle, Process, Outcome

LEMMA BothKinds ==
  /\ Dispatchers \subseteq Procs /\ Reconcilers \subseteq Procs
  /\ Procs = Dispatchers \cup Reconcilers /\ Dispatchers \cap Reconcilers = {}
  BY EmailAssumption DEF Procs

LEMMA LiveIsUnique ==
  ASSUME RowsInOrder, NEW a \in RowIds, NEW b \in RowIds, Live(a), Live(b) PROVE a = b
<1>1. a \in Nat /\ b \in Nat
  BY DEF RowIds
<1>2. ~(a < b) /\ ~(b < a)
  BY DEF RowsInOrder, Live
<1> QED
  BY <1>1, <1>2

\* A process at work stays so while its attempt, its mark and the emails stay.
LEMMA StillAtWork ==
  ASSUME Always, NEW q \in Procs, proc'[q] = proc[q], Active(q), emails' \in Nat, emails <= emails',
         \A a \in RowIds : /\ rows[a].status # "NONE" => rows'[a].status # "NONE"
                           /\ rows[a].network => rows'[a].network
  PROVE  AtWork(q)'
<1>1. AtWork(q) /\ emails \in Nat
  BY DEF Always, ProcessesOK, EmailTypeOK
<1> QED
  BY <1>1 DEF AtWork

-----------------------------------------------------------------------------
(* Every step keeps Always.                                                *)

\* A step of one process that changes nothing but its own state.
LEMMA AlwaysAlone ==
  ASSUME Always, NEW p \in Procs, NEW r \in Process, proc' = [proc EXCEPT ![p] = r],
         UNCHANGED <<tableVars, providerVars>>, crossed' \in BOOLEAN, Active(p)' => AtWork(p)'
  PROVE  Always'
<1>1. UNCHANGED <<locked, rows, sentEvents, posts, emails, key>>
  BY DEF tableVars, providerVars
<1>2. proc' \in [Procs -> Process] /\ \A q \in Procs : q # p => proc'[q] = proc[q]
  BY ProcReplaced DEF Always
<1>3. EmailTypeOK'
  BY <1>1, <1>2 DEF Always, EmailTypeOK
<1>4. RowsInOrder' /\ KeyOK' /\ SentOnce'
  BY <1>1 DEF Always, RowsInOrder, KeyOK, SentOnce, Has
<1>5. ASSUME NEW q \in Procs, Active(q)' PROVE AtWork(q)'
  <2>1. CASE q = p
    BY <1>5, <2>1
  <2>2. CASE q # p
    <3>1. proc'[q] = proc[q] /\ Active(q) /\ emails' \in Nat /\ emails <= emails'
      BY <1>1, <1>2, <1>5, <2>2 DEF Always, EmailTypeOK, Active
    <3> QED
      BY <1>1, <3>1, StillAtWork
  <2> QED
    BY <2>1, <2>2
<1> QED
  BY <1>3, <1>4, <1>5 DEF Always, ProcessesOK

LEMMA AlwaysStops ==
  ASSUME Always, NEW p \in Procs, Stops(p), UNCHANGED <<tableVars, providerVars>>, crossed' = crossed PROVE Always'
<1>1. ~Active(p)'
  BY IdleTyped, ProcReplaced DEF Always, Stops, Active
<1>2. crossed' \in BOOLEAN
  BY DEF Always, EmailTypeOK
<1> QED
  BY <1>1, <1>2, IdleTyped, AlwaysAlone DEF Stops

LEMMA AlwaysReconcile == ASSUME Always, NEW p \in Reconcilers, Reconcile(p) PROVE Always'
<1>1. PICK a \in Unsettled : rows[a].network /\
         \E step \in {"retrieving", "replaying"} : proc' = [proc EXCEPT ![p] = [Idle EXCEPT !.pc = step, !.row = a]]
  BY DEF Reconcile
<1>2. PICK step \in {"retrieving", "replaying"} : proc' = [proc EXCEPT ![p] = [Idle EXCEPT !.pc = step, !.row = a]]
  BY <1>1
<1> DEFINE r == [Idle EXCEPT !.pc = step, !.row = a]
<1>3. a \in RowIds /\ a \in 0..MaxRows /\ rows[a].status # "NONE"
  BY EmailAssumption DEF Unsettled, RowIds
<1>4. r \in Process /\ r.pc = step /\ r.row = a /\ r.tries = 0
  BY <1>3, IdleTyped DEF Process, Idle
<1>5. UNCHANGED <<tableVars, providerVars>> /\ crossed' \in BOOLEAN
  BY DEF Reconcile, Always, EmailTypeOK
<1>6. rows' = rows /\ proc'[p] = r
  BY <1>2, <1>4, <1>5, BothKinds, ProcReplaced DEF Always, tableVars
<1>7. 0 < MaxReplay
  BY EmailAssumption
<1>8. AtWork(p)'
  BY <1>1, <1>3, <1>4, <1>6, <1>7, BothKinds DEF AtWork
<1> QED
  BY <1>2, <1>4, <1>5, <1>8, BothKinds, AlwaysAlone

LEMMA AlwaysReceive == ASSUME Always, NEW p \in Procs, Receive(p) PROVE Always'
<1>1. /\ proc[p].pc = "waiting" /\ UNCHANGED <<tableVars, providerVars>> /\ crossed' \in BOOLEAN
      /\ rows' = rows /\ emails' = emails
  BY DEF Receive, In, tableVars, providerVars, Always, EmailTypeOK
<1>2. PICK answer \in {posts[proc[p].post], "lost"} \cap Answered :
         \E o \in Classified(answer) : proc' = [proc EXCEPT ![p].outcome = o, ![p].pc = "answered"]
  BY DEF Receive
<1>3. PICK outcome \in Classified(answer) : proc' = [proc EXCEPT ![p].outcome = outcome, ![p].pc = "answered"]
  BY <1>2
<1> DEFINE r == [proc[p] EXCEPT !.outcome = outcome, !.pc = "answered"]
<1>4. outcome \in Outcome /\ outcome # "none" /\ (outcome = "SENT" => posts[proc[p].post] \in {"created", "same"})
  BY <1>2, <1>3 DEF Classified, Answered, Outcome
<1>5. AtWork(p) /\ proc[p] \in Process
  BY <1>1 DEF Always, ProcessesOK, EmailTypeOK, Active
<1>6. r \in Process /\ r.pc = "answered" /\ r.row = proc[p].row /\ r.outcome = outcome
  BY <1>4, <1>5 DEF Process
<1>7. outcome = "SENT" => emails > 0
  BY <1>1, <1>4, <1>5 DEF AtWork, Always, KeyOK
<1>8. proc' = [proc EXCEPT ![p] = r]
  BY <1>3
<1>9. proc'[p] = r
  BY <1>6, <1>8, ProcReplaced DEF Always
<1> HIDE DEF r
<1>10. AtWork(p)'
  BY <1>1, <1>4, <1>5, <1>6, <1>7, <1>9, BothKinds DEF AtWork
<1> QED
  BY <1>1, <1>6, <1>8, <1>10, AlwaysAlone

LEMMA AlwaysRetrieve == ASSUME Always, NEW p \in Reconcilers, Retrieve(p) PROVE Always'
<1>1. /\ proc[p].pc = "retrieving" /\ UNCHANGED <<tableVars, providerVars>> /\ crossed' = crossed
      /\ rows' = rows /\ emails' = emails
  BY DEF Retrieve, In, tableVars, providerVars
<1>2. CASE Stops(p)
  BY <1>1, <1>2, BothKinds, AlwaysStops
<1>3. CASE emails > 0 /\ proc' = [proc EXCEPT ![p].pc = "confirming"]
  <2> DEFINE r == [proc[p] EXCEPT !.pc = "confirming"]
  <2>1. AtWork(p) /\ proc[p] \in Process /\ p \in Procs /\ crossed' \in BOOLEAN
    BY <1>1, BothKinds DEF Always, ProcessesOK, EmailTypeOK, Active
  <2>2. r \in Process /\ r.pc = "confirming" /\ r.row = proc[p].row
    BY <2>1 DEF Process
  <2>3. proc' = [proc EXCEPT ![p] = r]
    BY <1>3
  <2>4. proc'[p] = r
    BY <2>1, <2>2, <2>3, ProcReplaced DEF Always
  <2>5. AtWork(p)'
    BY <1>1, <1>3, <2>1, <2>2, <2>4, BothKinds DEF AtWork
  <2> QED
    BY <1>1, <2>1, <2>2, <2>3, <2>5, AlwaysAlone
<1> QED
  BY <1>2, <1>3 DEF Retrieve

LEMMA AlwaysJudgeReplay == ASSUME Always, NEW p \in Reconcilers, JudgeReplay(p) PROVE Always'
<1>1. /\ proc[p].pc = "answered" /\ UNCHANGED <<tableVars, providerVars>> /\ crossed' = crossed
      /\ rows' = rows /\ emails' = emails
  BY DEF JudgeReplay, In, tableVars, providerVars
<1>2. AtWork(p) /\ proc[p] \in Process /\ p \in Procs /\ crossed' \in BOOLEAN
  BY <1>1, BothKinds DEF Always, ProcessesOK, EmailTypeOK, Active
<1>3. CASE Stops(p)
  BY <1>1, <1>2, <1>3, AlwaysStops
<1>4. CASE proc[p].outcome = "SENT" /\ proc' = [proc EXCEPT ![p].pc = "confirming"]
  <2> DEFINE r == [proc[p] EXCEPT !.pc = "confirming"]
  <2>1. r \in Process /\ r.pc = "confirming" /\ r.row = proc[p].row
    BY <1>2 DEF Process
  <2>2. proc' = [proc EXCEPT ![p] = r]
    BY <1>4
  <2>3. proc'[p] = r
    BY <1>2, <2>1, <2>2, ProcReplaced DEF Always
  <2>4. AtWork(p)'
    BY <1>1, <1>2, <1>4, <2>1, <2>3, BothKinds DEF AtWork
  <2> QED
    BY <1>1, <1>2, <2>1, <2>2, <2>4, AlwaysAlone
<1>5. CASE proc[p].tries < MaxReplay /\ proc' = [proc EXCEPT ![p].pc = "replaying", ![p].outcome = "none"]
  <2> DEFINE r == [proc[p] EXCEPT !.pc = "replaying", !.outcome = "none"]
  <2>1. r \in Process /\ r.pc = "replaying" /\ r.row = proc[p].row /\ r.tries = proc[p].tries
    BY <1>2 DEF Process, Outcome
  <2>2. proc' = [proc EXCEPT ![p] = r]
    BY <1>5
  <2>3. proc'[p] = r
    BY <1>2, <2>1, <2>2, ProcReplaced DEF Always
  <2>4. AtWork(p)'
    BY <1>1, <1>2, <1>5, <2>1, <2>3, BothKinds DEF AtWork
  <2> QED
    BY <1>1, <1>2, <2>1, <2>2, <2>4, AlwaysAlone
<1> QED
  BY <1>3, <1>4, <1>5 DEF JudgeReplay

LEMMA AlwaysSend == ASSUME Always, NEW p \in Procs, Send(p) PROVE Always'
<1>1. /\ proc[p].pc \in {"marked", "replaying"} /\ UNCHANGED <<locked, rows, sentEvents, emails, key, crossed>>
  BY DEF Send, In, tableVars
<1>2. PICK n \in PostIds :
         /\ posts[n] = "unmade" /\ posts' = [posts EXCEPT ![n] = "flying"]
         /\ proc' = [proc EXCEPT ![p].pc = "waiting", ![p].post = n,
                                 ![p].tries = IF In(p, "replaying") THEN @ + 1 ELSE @]
  BY DEF Send
<1> DEFINE t == IF In(p, "replaying") THEN proc[p].tries + 1 ELSE proc[p].tries
           r == [proc[p] EXCEPT !.pc = "waiting", !.post = n, !.tries = t]
<1>3. AtWork(p) /\ proc[p] \in Process
  BY <1>1 DEF Always, ProcessesOK, EmailTypeOK, Active
<1>4. r \in Process /\ r.pc = "waiting" /\ r.post = n /\ r.row = proc[p].row
  <2>1. n \in 0..MaxPosts
    BY EmailAssumption DEF PostIds
  <2>2. t \in 0..MaxReplay
    BY <1>3, EmailAssumption DEF AtWork, Process, In
  <2> HIDE DEF t
  <2> QED
    BY <1>3, <2>1, <2>2 DEF Process
<1>5. proc' = [proc EXCEPT ![p] = r]
  BY <1>2, <1>3 DEF Process
<1>6. proc' \in [Procs -> Process] /\ proc'[p] = r /\ \A q \in Procs : q # p => proc'[q] = proc[q]
  BY <1>4, <1>5, ProcReplaced DEF Always
<1>7. /\ posts' \in [PostIds -> Post] /\ posts'[n] = "flying"
      /\ \A m \in PostIds : m # n => posts'[m] = posts[m]
  BY <1>2, PostReplaced DEF Always, Post
<1> HIDE DEF r
<1>8. EmailTypeOK'
  BY <1>1, <1>6, <1>7 DEF Always, EmailTypeOK
<1>9. RowsInOrder' /\ SentOnce'
  BY <1>1 DEF Always, RowsInOrder, SentOnce, Has
<1>10. KeyOK'
  BY <1>1, <1>2, <1>7 DEF Always, KeyOK
<1>11. ASSUME NEW q \in Procs, Active(q)' PROVE AtWork(q)'
  <2>1. CASE q = p
    BY <1>1, <1>3, <1>4, <1>6, <2>1, BothKinds DEF AtWork
  <2>2. CASE q # p
    <3>1. proc'[q] = proc[q] /\ Active(q) /\ emails' \in Nat /\ emails <= emails'
      BY <1>1, <1>6, <1>11, <2>2 DEF Always, EmailTypeOK, Active
    <3> QED
      BY <1>1, <3>1, StillAtWork
  <2> QED
    BY <2>1, <2>2
<1> QED
  BY <1>8, <1>9, <1>10, <1>11 DEF Always, ProcessesOK

\* A step that writes the row of an attempt that was made, and may end the
\* process that writes it or move it on.
LEMMA AlwaysRow ==
  ASSUME Always, NEW a \in RowIds, NEW r \in Row, RowAccepted(r), rows' = [rows EXCEPT ![a] = r],
         rows[a].status # "NONE", r.status # "NONE", rows[a].network => r.network,
         rows[a].status = "FAILED" => r.status = "FAILED",
         locked' = locked, sentEvents' \in Nat, crossed' = crossed, UNCHANGED <<posts, emails, key>>, SentOnce',
         proc' \in [Procs -> Process],
         \A q \in Procs : proc'[q] = proc[q] \/ (Active(q)' => AtWork(q)')
  PROVE  Always'
<1>1. /\ rows' \in [RowIds -> Row] /\ rows'[a] = r
      /\ \A b \in RowIds : b # a => rows'[b] = rows[b]
      /\ \A b \in RowIds : RowAccepted(rows'[b])
  BY RowReplaced DEF Always
<1>2. \A b \in RowIds : /\ rows[b].status # "NONE" => rows'[b].status # "NONE"
                        /\ rows[b].network => rows'[b].network
  BY <1>1
<1>3. EmailTypeOK'
  BY <1>1 DEF Always, EmailTypeOK
<1>4. RowsInOrder'
  <2>1. ASSUME NEW x \in RowIds, NEW b \in RowIds, b < x, rows'[x].status # "NONE" PROVE rows'[b].status = "FAILED"
    <3>1. rows[x].status # "NONE"
      BY <1>1, <2>1
    <3>2. rows[b].status = "FAILED"
      BY <2>1, <3>1 DEF Always, RowsInOrder
    <3> QED
      BY <1>1, <3>2
  <2>2. ASSUME NEW x \in RowIds, rows'[x].status = "NONE" PROVE ~rows'[x].network /\ ~rows'[x].open
    <3>1. x # a
      BY <1>1, <2>2
    <3> QED
      BY <1>1, <2>2, <3>1 DEF Always, RowsInOrder
  <2> QED
    BY <2>1, <2>2 DEF RowsInOrder
<1>5. KeyOK'
  BY DEF Always, KeyOK
<1>6. ASSUME NEW q \in Procs, Active(q)', proc'[q] = proc[q] PROVE AtWork(q)'
  <2>1. Active(q) /\ emails' \in Nat /\ emails <= emails'
    BY <1>6 DEF Always, EmailTypeOK, Active
  <2> QED
    BY <1>2, <1>6, <2>1, StillAtWork
<1> QED
  BY <1>3, <1>4, <1>5, <1>6 DEF Always, ProcessesOK

LEMMA AlwaysClaim == ASSUME Always, NEW p \in Dispatchers, NEW a \in RowIds, Claim(p, a) PROVE Always'
<1> DEFINE r == [Idle EXCEPT !.pc = "claimed", !.row = a]
           new == [NoRow EXCEPT !.status = "CLAIMED", !.open = TRUE]
<1>1. UNCHANGED <<locked, sentEvents, posts, emails, key, crossed>>
  BY DEF Claim, providerVars
<1>2. r \in Process /\ r.pc = "claimed" /\ r.row = a
  <2>1. a \in 0..MaxRows
    BY EmailAssumption DEF RowIds
  <2> QED
    BY <2>1, IdleTyped DEF Process
<1>3. /\ proc' \in [Procs -> Process] /\ proc'[p] = r
      /\ \A q \in Procs : q # p => proc'[q] = proc[q]
  BY <1>2, BothKinds, ProcReplaced DEF Always, Claim
<1>4. new \in Row /\ RowAccepted(new) /\ new.status = "CLAIMED" /\ ~new.network
  BY DEF NoRow, Row, RowAccepted
<1>5. /\ rows' \in [RowIds -> Row] /\ rows'[a] = new /\ \A b \in RowIds : RowAccepted(rows'[b])
      /\ \A b \in RowIds : b # a => rows'[b] = rows[b]
  BY <1>4, RowReplaced DEF Always, Claim
<1>6. rows[a].status = "NONE" /\ ~rows[a].network /\ \A b \in RowIds : b < a => rows[b].status = "FAILED"
  BY DEF Claim, Available, Always, RowsInOrder
<1> HIDE DEF r, new
<1>7. EmailTypeOK'
  BY <1>1, <1>3, <1>5 DEF Always, EmailTypeOK
<1>8. RowsInOrder'
  <2>1. \A b \in RowIds : a < b => rows[b].status = "NONE"
    BY <1>6 DEF Always, RowsInOrder
  <2>2. ASSUME NEW x \in RowIds, NEW b \in RowIds, b < x, rows'[x].status # "NONE" PROVE rows'[b].status = "FAILED"
    <3>1. x # a => x < a
      BY <1>5, <2>1, <2>2 DEF RowIds
    <3>2. b < a
      BY <2>2, <3>1 DEF RowIds
    <3> QED
      BY <1>5, <1>6, <3>2 DEF RowIds
  <2> QED
    BY <1>4, <1>5, <2>2 DEF Always, RowsInOrder
<1>9. KeyOK' /\ SentOnce'
  BY <1>1, <1>4, <1>5, <1>6 DEF Always, KeyOK, SentOnce, Has
<1>10. ASSUME NEW q \in Procs, Active(q)' PROVE AtWork(q)'
  <2>1. CASE q = p
    BY <1>2, <1>3, <1>4, <1>5, <2>1, BothKinds DEF AtWork
  <2>2. CASE q # p
    <3>1. proc'[q] = proc[q] /\ Active(q) /\ emails' \in Nat /\ emails <= emails'
      BY <1>1, <1>3, <1>10, <2>2 DEF Always, EmailTypeOK, Active
    <3>2. \A b \in RowIds : /\ rows[b].status # "NONE" => rows'[b].status # "NONE"
                            /\ rows[b].network => rows'[b].network
      BY <1>5, <1>6
    <3> QED
      BY <3>1, <3>2, StillAtWork
  <2> QED
    BY <2>1, <2>2
<1> QED
  BY <1>7, <1>8, <1>9, <1>10 DEF Always, ProcessesOK

LEMMA AlwaysMarkNetwork == ASSUME Always, NEW p \in Procs, MarkNetwork(p) PROVE Always'
<1> DEFINE a == proc[p].row
           r == [proc[p] EXCEPT !.pc = "marked"]
           new == [rows[a] EXCEPT !.network = @ \/ rows[a].status = "CLAIMED"]
<1>1. UNCHANGED <<locked, sentEvents, posts, emails, key, crossed>> /\ proc[p].pc = "claimed"
  BY DEF MarkNetwork, providerVars, In
<1>2. AtWork(p) /\ proc[p] \in Process /\ a \in RowIds /\ rows[a].status # "NONE"
  BY <1>1 DEF Always, ProcessesOK, AtWork, EmailTypeOK, Active
<1>3. r \in Process /\ r.pc = "marked" /\ r.row = a
  BY <1>2 DEF Process
<1>4. proc' = [proc EXCEPT ![p] = r]
  BY DEF MarkNetwork
<1>5. proc' \in [Procs -> Process] /\ proc'[p] = r /\ \A q \in Procs : q # p => proc'[q] = proc[q]
  BY <1>3, <1>4, ProcReplaced DEF Always
<1>6. rows[a] \in Row /\ RowAccepted(rows[a])
  BY <1>2 DEF Always, EmailTypeOK
<1>7. new \in Row /\ new.status = rows[a].status /\ new.receipt = rows[a].receipt
      /\ (rows[a].network => new.network)
  BY <1>6 DEF Row
<1>8. RowAccepted(new)
  BY <1>6, <1>7 DEF RowAccepted
<1>9. rows' = [rows EXCEPT ![a] = new]
  BY DEF MarkNetwork
<1>10. rows'[a] = new /\ \A b \in RowIds : b # a => rows'[b] = rows[b]
  BY <1>2, <1>7, <1>8, <1>9, RowReplaced DEF Always
<1> HIDE DEF r, new, a
<1>11. AtWork(p)'
  <2>1. p \notin Reconcilers
    BY <1>1, <1>2 DEF AtWork
  <2> QED
    BY <1>2, <1>3, <1>5, <1>7, <1>10, <2>1, BothKinds DEF AtWork
<1>12. SentOnce'
  BY <1>1, <1>7, <1>10 DEF Always, SentOnce, Has
<1>13. sentEvents' \in Nat
  BY <1>1 DEF Always, EmailTypeOK
<1> QED
  BY <1>1, <1>2, <1>5, <1>7, <1>8, <1>9, <1>11, <1>12, <1>13, AlwaysRow

LEMMA AlwaysFile == ASSUME Always, NEW p \in Dispatchers, File(p) PROVE Always'
<1> DEFINE a == proc[p].row
           o == proc[p].outcome
           new == IF rows[a].status = "CLAIMED" THEN Filed(rows[a], o) ELSE rows[a]
           event == IF o = "SENT" THEN 1 ELSE 0
<1>1. UNCHANGED <<locked, posts, emails, key, crossed>> /\ proc[p].pc = "answered" /\ Stops(p) /\ p \in Procs
  BY BothKinds DEF File, providerVars, In
<1>2. AtWork(p) /\ proc[p] \in Process /\ a \in RowIds /\ rows[a] \in Row /\ rows[a].status # "NONE"
  BY <1>1 DEF Always, ProcessesOK, AtWork, EmailTypeOK, Active
<1>3. CASE UNCHANGED <<rows, sentEvents>>
  BY <1>1, <1>3, AlwaysStops DEF tableVars, providerVars
<1>4. CASE /\ RowAccepted(new) /\ sentEvents + event <= 1
           /\ rows' = [rows EXCEPT ![a] = new] /\ sentEvents' = sentEvents + event
  <2>1. sentEvents \in Nat /\ emails \in Nat /\ o \in Outcome \ {"none"} /\ (o = "SENT" => emails > 0)
    BY <1>1, <1>2 DEF Always, EmailTypeOK, AtWork, Process
  <2>2. Filed(rows[a], o) \in Row /\ Filed(rows[a], o).status = Status(o) /\ Filed(rows[a], o).network = rows[a].network
    BY <1>2, <2>1 DEF Filed, Row, Status, Outcome
  <2>3. Status(o) # "NONE" /\ (Status(o) = "SENT" <=> o = "SENT")
    BY <2>1 DEF Status, Outcome
  <2>4. /\ new \in Row /\ new.status # "NONE" /\ (rows[a].network => new.network)
        /\ (rows[a].status = "FAILED" => new.status = "FAILED")
        /\ new.status = "SENT" => rows[a].status = "SENT" \/ o = "SENT"
    BY <1>2, <2>2, <2>3
  <2> HIDE DEF new
  <2>5. rows'[a] = new /\ \A b \in RowIds : b # a => rows'[b] = rows[b]
    BY <1>2, <1>4, <2>4, RowReplaced DEF Always
  <2>6. SentOnce'
    <3>1. sentEvents' \in Nat /\ sentEvents' <= 1 /\ sentEvents' <= emails' /\ sentEvents' >= sentEvents
      BY <1>1, <1>4, <2>1 DEF Always, SentOnce
    <3>2. CASE o = "SENT"
      <4>1. sentEvents = 0 /\ sentEvents' = 1
        BY <1>4, <2>1, <3>2
      <4>2. \A b \in RowIds : rows[b].status # "SENT"
        BY <4>1 DEF Always, SentOnce, Has
      <4> QED
        BY <1>2, <2>5, <3>1, <4>1, <4>2 DEF SentOnce
    <3>3. CASE o # "SENT"
      <4>1. \A b \in RowIds : rows'[b].status = "SENT" => rows[b].status = "SENT"
        BY <1>2, <2>4, <2>5, <3>3
      <4>2. sentEvents' = sentEvents
        BY <1>4, <2>1, <3>3
      <4> QED
        BY <3>1, <4>1, <4>2 DEF Always, SentOnce, Has
    <3> QED
      BY <3>2, <3>3
  <2>7. proc' \in [Procs -> Process] /\ ~Active(p)' /\ \A q \in Procs : q # p => proc'[q] = proc[q]
    BY <1>1, IdleTyped, ProcReplaced DEF Always, Stops, Active
  <2>8. sentEvents' \in Nat
    BY <1>4, <2>1
  <2> HIDE DEF a
  <2> QED
    BY <1>1, <1>2, <1>4, <2>4, <2>6, <2>7, <2>8, AlwaysRow
<1> QED
  BY <1>3, <1>4 DEF File

LEMMA AlwaysConfirm == ASSUME Always, NEW p \in Reconcilers, Confirm(p) PROVE Always'
<1> DEFINE a == proc[p].row
           new == IF rows[a].status \in {"CLAIMED", "AMBIGUOUS"} THEN Filed(rows[a], "SENT") ELSE rows[a]
<1>1. UNCHANGED <<locked, posts, emails, key, crossed>> /\ proc[p].pc = "confirming" /\ Stops(p) /\ p \in Procs
  BY BothKinds DEF Confirm, providerVars, In
<1>2. /\ AtWork(p) /\ a \in RowIds /\ rows[a] \in Row /\ RowAccepted(rows[a])
      /\ rows[a].status # "NONE" /\ rows[a].network /\ emails > 0 /\ emails \in Nat
  BY <1>1 DEF Always, ProcessesOK, AtWork, EmailTypeOK, Active
<1>3. CASE UNCHANGED <<rows, sentEvents>>
  BY <1>1, <1>3, AlwaysStops DEF tableVars, providerVars
<1>4. CASE sentEvents = 0 /\ sentEvents' = sentEvents + 1 /\ rows' = [rows EXCEPT ![a] = new]
  <2>1. /\ Filed(rows[a], "SENT") \in Row /\ Filed(rows[a], "SENT").status = "SENT"
        /\ Filed(rows[a], "SENT").network /\ Filed(rows[a], "SENT").receipt
    BY <1>2 DEF Filed, Row, Status
  <2>2. RowAccepted(Filed(rows[a], "SENT"))
    BY <2>1 DEF RowAccepted
  <2>3. /\ new \in Row /\ RowAccepted(new) /\ new.status # "NONE" /\ new.network
        /\ (rows[a].status = "FAILED" => new.status = "FAILED")
    BY <1>2, <2>1, <2>2
  <2> HIDE DEF new
  <2>4. rows'[a] = new /\ \A b \in RowIds : b # a => rows'[b] = rows[b]
    BY <1>2, <1>4, <2>3, RowReplaced DEF Always
  <2>5. SentOnce'
    <3>1. \A b \in RowIds : rows[b].status # "SENT"
      BY <1>4 DEF Always, SentOnce, Has
    <3> QED
      BY <1>1, <1>2, <1>4, <2>4, <3>1 DEF SentOnce
  <2>6. proc' \in [Procs -> Process] /\ ~Active(p)' /\ \A q \in Procs : q # p => proc'[q] = proc[q]
    BY <1>1, IdleTyped, ProcReplaced DEF Always, Stops, Active
  <2>7. sentEvents' \in Nat
    BY <1>4
  <2> HIDE DEF a
  <2> QED
    BY <1>1, <1>2, <1>4, <2>3, <2>5, <2>6, <2>7, AlwaysRow
<1> QED
  BY <1>3, <1>4 DEF Confirm, EventAllowed

\* The window of an attempt ends, or a human writes a receipt on it.
LEMMA AlwaysWorld == ASSUME Always, NEW a \in RowIds, WindowCloses(a) \/ WriteReceipt(a) PROVE Always'
<1>1. UNCHANGED <<locked, sentEvents, proc, posts, emails, key, crossed>>
  BY DEF WindowCloses, WriteReceipt, providerVars
<1>2. rows[a] \in Row /\ RowAccepted(rows[a]) /\ proc \in [Procs -> Process] /\ sentEvents \in Nat
  BY DEF Always, EmailTypeOK
<1>3. PICK r \in Row : /\ rows' = [rows EXCEPT ![a] = r] /\ RowAccepted(r)
                       /\ r.status = rows[a].status /\ r.network = rows[a].network
                       /\ r.status # "NONE"
  <2>1. CASE WindowCloses(a)
    <3> DEFINE r == [rows[a] EXCEPT !.open = FALSE]
    <3>1. rows[a].status # "NONE"
      BY <2>1 DEF WindowCloses, Always, RowsInOrder
    <3>2. rows' = [rows EXCEPT ![a] = r]
      BY <2>1 DEF WindowCloses
    <3>3. /\ r \in Row /\ r.status = rows[a].status /\ r.network = rows[a].network
          /\ r.receipt = rows[a].receipt
      BY <1>2 DEF Row
    <3>4. RowAccepted(r)
      BY <1>2, <3>3 DEF RowAccepted
    <3> HIDE DEF r
    <3> QED
      BY <3>1, <3>2, <3>3, <3>4
  <2>2. CASE WriteReceipt(a)
    <3> DEFINE r == [rows[a] EXCEPT !.receipt = TRUE]
    <3>1. rows[a].status = "AMBIGUOUS" /\ rows' = [rows EXCEPT ![a] = r]
      BY <2>2 DEF WriteReceipt
    <3>2. r \in Row /\ r.status = "AMBIGUOUS" /\ r.network = rows[a].network
      BY <1>2, <3>1 DEF Row
    <3>3. RowAccepted(r)
      BY <1>2, <3>1, <3>2 DEF RowAccepted
    <3> HIDE DEF r
    <3> QED
      BY <3>1, <3>2, <3>3
  <2> QED
    BY <2>1, <2>2
<1>4. SentOnce'
  BY <1>1, <1>3, RowReplaced DEF Always, SentOnce, Has
<1> QED
  BY <1>1, <1>2, <1>3, <1>4, AlwaysRow

\* A step of the provider on one request, which may make an email of it.
LEMMA AlwaysAnswered ==
  ASSUME Always, NEW n \in PostIds, NEW x \in Post, posts' = [posts EXCEPT ![n] = x],
         emails' \in Nat, emails <= emails', key' \in {"free", "busy", "kept"},
         UNCHANGED <<tableVars, proc, crossed>>, KeyOK'
  PROVE  Always'
<1>1. UNCHANGED <<locked, rows, sentEvents, proc, crossed>>
  BY DEF tableVars
<1>2. EmailTypeOK'
  BY <1>1, PostReplaced DEF Always, EmailTypeOK
<1>3. RowsInOrder' /\ SentOnce'
  BY <1>1, <1>2 DEF Always, EmailTypeOK, RowsInOrder, SentOnce, Has
<1>4. ASSUME NEW q \in Procs, Active(q)' PROVE AtWork(q)'
  <2>1. proc'[q] = proc[q] /\ Active(q)
    BY <1>1, <1>4 DEF Active
  <2> QED
    BY <1>1, <2>1, StillAtWork
<1> QED
  BY <1>2, <1>3, <1>4 DEF Always, ProcessesOK

LEMMA AlwaysProvider ==
  ASSUME Always, NEW n \in PostIds, Arrive(n) \/ Accept(n) \/ Reject(n) \/ Lose(n) PROVE Always'
<1>1. /\ UNCHANGED <<tableVars, proc, crossed>> /\ posts[n] \in {"flying", "processing"}
      /\ emails \in Nat /\ key \in {"free", "busy", "kept"}
  BY DEF Arrive, Accept, Reject, Lose, Always, EmailTypeOK
<1>2. ASSUME NEW x \in Post, posts' = [posts EXCEPT ![n] = x]
      PROVE  posts'[n] = x /\ \A m \in PostIds : m # n => posts'[m] = posts[m]
  BY <1>2, PostReplaced DEF Always
<1>3. CASE Arrive(n)
  <2> DEFINE x == CASE key = "kept" -> "same" [] key = "busy" -> "concurrent" [] OTHER -> "processing"
  <2>1. x \in Post /\ posts' = [posts EXCEPT ![n] = x] /\ emails' = emails
        /\ key' = IF key = "free" THEN "busy" ELSE key
    BY <1>3 DEF Arrive, Post
  <2>2. x = (CASE key = "kept" -> "same" [] key = "busy" -> "concurrent" [] OTHER -> "processing")
    OBVIOUS
  <2> HIDE DEF x
  <2>3. posts'[n] = x /\ \A m \in PostIds : m # n => posts'[m] = posts[m]
    BY <1>2, <2>1
  <2>4. KeyOK'
    BY <1>1, <1>3, <2>1, <2>2, <2>3 DEF Always, KeyOK, Arrive
  <2>5. emails' \in Nat /\ emails <= emails' /\ key' \in {"free", "busy", "kept"}
    BY <1>1, <2>1
  <2> QED
    BY <1>1, <2>1, <2>4, <2>5, AlwaysAnswered
<1>4. CASE Accept(n)
  <2>1. "created" \in Post /\ posts' = [posts EXCEPT ![n] = "created"] /\ emails' = emails + 1 /\ key' = "kept"
    BY <1>4 DEF Accept, Post
  <2>2. posts'[n] = "created" /\ \A m \in PostIds : m # n => posts'[m] = posts[m]
    BY <1>2, <2>1
  <2>3. KeyOK'
    BY <1>1, <1>4, <2>1, <2>2 DEF Always, KeyOK, Accept
  <2>4. emails' \in Nat /\ emails <= emails' /\ key' \in {"free", "busy", "kept"}
    BY <1>1, <2>1
  <2> QED
    BY <1>1, <2>1, <2>3, <2>4, AlwaysAnswered
<1>5. CASE Reject(n)
  <2>1. "rejected" \in Post /\ posts' = [posts EXCEPT ![n] = "rejected"] /\ emails' = emails /\ key' = "free"
    BY <1>5 DEF Reject, Post
  <2>2. posts'[n] = "rejected" /\ \A m \in PostIds : m # n => posts'[m] = posts[m]
    BY <1>2, <2>1
  <2>3. KeyOK'
    BY <1>1, <1>5, <2>1, <2>2 DEF Always, KeyOK, Reject
  <2>4. emails' \in Nat /\ emails <= emails' /\ key' \in {"free", "busy", "kept"}
    BY <1>1, <2>1
  <2> QED
    BY <1>1, <2>1, <2>3, <2>4, AlwaysAnswered
<1>6. CASE Lose(n)
  <2>1. "lost" \in Post /\ posts' = [posts EXCEPT ![n] = "lost"] /\ emails' = emails /\ key' = key
    BY <1>6 DEF Lose, Post
  <2>2. posts'[n] = "lost" /\ \A m \in PostIds : m # n => posts'[m] = posts[m]
    BY <1>2, <2>1
  <2>3. KeyOK'
    BY <1>1, <1>6, <2>1, <2>2 DEF Always, KeyOK, Lose
  <2>4. emails' \in Nat /\ emails <= emails' /\ key' \in {"free", "busy", "kept"}
    BY <1>1, <2>1
  <2> QED
    BY <1>1, <2>1, <2>3, <2>4, AlwaysAnswered
<1> QED
  BY <1>3, <1>4, <1>5, <1>6

\* The lock of the manifest and the memory of the provider.
LEMMA AlwaysQuiet ==
  ASSUME Always, locked' \in BOOLEAN, key' = key \/ (key = "kept" /\ key' = "free"),
         UNCHANGED <<rows, sentEvents, proc, posts, emails, crossed>>
  PROVE  Always'
<1>1. EmailTypeOK' /\ RowsInOrder' /\ SentOnce'
  BY DEF Always, EmailTypeOK, RowsInOrder, SentOnce, Has
<1>2. KeyOK'
  BY DEF Always, KeyOK
<1>3. ASSUME NEW q \in Procs, Active(q)' PROVE AtWork(q)'
  BY <1>3 DEF Always, ProcessesOK, Active, AtWork
<1> QED
  BY <1>1, <1>2, <1>3 DEF Always, ProcessesOK

LEMMA AlwaysInit == EmailInit => Always
<1> SUFFICES ASSUME EmailInit PROVE Always
  OBVIOUS
<1>1. NoRow \in Row /\ RowAccepted(NoRow) /\ NoRow.status = "NONE" /\ ~NoRow.network /\ ~NoRow.open
  BY DEF NoRow, Row, RowAccepted
<1>2. /\ \A a \in RowIds : rows[a] = NoRow
      /\ \A p \in Procs : proc[p] = Idle
      /\ \A n \in PostIds : posts[n] = "unmade"
      /\ emails = 0 /\ key = "free" /\ sentEvents = 0
  BY DEF EmailInit
<1>3. EmailTypeOK
  BY <1>1, IdleTyped DEF EmailInit, EmailTypeOK, Post
<1>4. RowsInOrder /\ SentOnce
  BY <1>1, <1>2 DEF RowsInOrder, SentOnce, Has
<1>5. ProcessesOK /\ KeyOK
  BY <1>2, IdleTyped DEF ProcessesOK, Active, KeyOK
<1> QED
  BY <1>3, <1>4, <1>5 DEF Always

LEMMA AlwaysStep == ASSUME Always, [EmailNext]_emailVars PROVE Always'
<1>1. ASSUME NEW p \in Dispatchers, DispatcherStep(p) PROVE Always'
  BY <1>1, BothKinds, AlwaysClaim, AlwaysMarkNetwork, AlwaysSend, AlwaysReceive, AlwaysFile DEF DispatcherStep
<1>2. ASSUME NEW p \in Reconcilers, ReconcilerStep(p) PROVE Always'
  BY <1>2, BothKinds, AlwaysReconcile, AlwaysRetrieve, AlwaysSend, AlwaysReceive, AlwaysJudgeReplay, AlwaysConfirm
  DEF ReconcilerStep
<1>3. CASE ProviderStep
  <2>1. Forget => Always'
    BY AlwaysQuiet DEF Forget, tableVars, Always, EmailTypeOK
  <2> QED
    BY <1>3, <2>1, AlwaysProvider DEF ProviderStep
<1>4. CASE WorldStep
  <2>1. Supersede => Always'
    BY AlwaysQuiet DEF Supersede, providerVars
  <2>2. \A p \in Procs : Crash(p) => Always'
    BY AlwaysStops DEF Crash
  <2> QED
    BY <1>4, <2>1, <2>2, AlwaysWorld DEF WorldStep
<1>5. CASE UNCHANGED emailVars
  BY <1>5, AlwaysQuiet DEF emailVars, Always, EmailTypeOK
<1> QED
  BY <1>1, <1>2, <1>3, <1>4, <1>5 DEF EmailNext

LEMMA AlwaysTrue == EmailSpec => []Always
  BY AlwaysInit, AlwaysStep, PTL DEF EmailSpec

-----------------------------------------------------------------------------
(* Every step but a crossing keeps Uncrossed.                              *)

\* A dispatcher at work is at work alone.
LEMMA AloneAtWork ==
  ASSUME Always, Uncrossed, NEW p \in Dispatchers, Active(p)
  PROVE  /\ p \in Procs /\ proc[p] \in Process /\ AtWork(p)
         /\ proc[p].row \in RowIds /\ rows[proc[p].row].status = "CLAIMED"
         /\ \A q \in Procs : q # p => ~Active(q)
<1>1. p \in Procs /\ proc[p] \in Process /\ AtWork(p) /\ proc[p].row \in RowIds
  BY BothKinds DEF Always, EmailTypeOK, ProcessesOK, AtWork
<1>2. \A q \in Dispatchers : q # p => ~Active(q)
  BY DEF Uncrossed, DispatchersOK
<1>3. \A q \in Reconcilers : ~Active(q)
  BY DEF Uncrossed, ReconcilersOK
<1>4. rows[proc[p].row].status = "CLAIMED"
  BY DEF Uncrossed, DispatchersOK
<1> QED
  BY <1>1, <1>2, <1>3, <1>4, BothKinds

LEMMA ReconcilerAtWork ==
  ASSUME Always, Uncrossed, NEW p \in Reconcilers, Active(p)
  PROVE  /\ p \in Procs /\ proc[p] \in Process /\ AtWork(p)
         /\ proc[p].row \in RowIds /\ Live(proc[p].row) /\ rows[proc[p].row].network
         /\ \A q \in Dispatchers : ~Active(q)
  BY BothKinds DEF Always, EmailTypeOK, ProcessesOK, AtWork, Uncrossed, ReconcilersOK

\* No dispatcher at work, whatever the reconciliations are at on live attempts.
LEMMA NoDispatcher ==
  ASSUME \A q \in Dispatchers : ~Active(q)',
         \A q \in Reconcilers : Active(q)' => Live(proc[q].row)'
  PROVE  DispatchersOK' /\ ReconcilersOK' /\ FirstRequest'
  BY DEF DispatchersOK, ReconcilersOK, FirstRequest, Active

LEMMA UncrossedTables ==
  ASSUME Uncrossed, UNCHANGED <<rows, sentEvents, posts, emails>>
  PROVE  NothingLive' /\ Recorded' /\ PostsAnnounced'
  BY DEF Uncrossed, NothingLive, Recorded, PostsAnnounced, NothingDone, InProgress, Announced, Live, Has

LEMMA UncrossedStops ==
  ASSUME Always, Uncrossed, NEW p \in Procs, Stops(p), UNCHANGED <<rows, sentEvents, posts, emails>> PROVE Uncrossed'
<1>1. proc'[p].pc = "idle" /\ \A q \in Procs : q # p => proc'[q] = proc[q]
  BY IdleTyped, ProcReplaced DEF Always, Stops
<1>2. DispatchersOK' /\ ReconcilersOK'
  BY <1>1, BothKinds DEF Uncrossed, DispatchersOK, ReconcilersOK, Active, Live
<1>3. FirstRequest'
  BY <1>1, BothKinds DEF Uncrossed, FirstRequest, NothingDone, InProgress
<1> QED
  BY <1>2, <1>3, UncrossedTables DEF Uncrossed

LEMMA UncrossedReconciler ==
  ASSUME Always, Uncrossed, NEW p \in Reconcilers, NEW r \in Process, proc' = [proc EXCEPT ![p] = r],
         UNCHANGED <<rows, sentEvents, posts, emails>>,
         Live(r.row), \A q \in Dispatchers : ~Active(q)
  PROVE  Uncrossed'
<1>1. p \in Procs /\ proc'[p] = r /\ \A q \in Procs : q # p => proc'[q] = proc[q]
  BY BothKinds, ProcReplaced DEF Always
<1>2. \A q \in Dispatchers : ~Active(q)'
  BY <1>1, BothKinds DEF Active
<1>3. \A q \in Reconcilers : Active(q)' => Live(proc[q].row)'
  BY <1>1, BothKinds DEF Uncrossed, ReconcilersOK, Active, Live
<1> QED
  BY <1>2, <1>3, NoDispatcher, UncrossedTables DEF Uncrossed

LEMMA UncrossedReconcile == ASSUME Always, Uncrossed, NEW p \in Reconcilers, Reconcile(p), ~crossed' PROVE Uncrossed'
<1>1. PICK a \in Unsettled : ~Attended(a) /\
         \E step \in {"retrieving", "replaying"} : proc' = [proc EXCEPT ![p] = [Idle EXCEPT !.pc = step, !.row = a]]
  BY DEF Reconcile
<1>2. PICK step \in {"retrieving", "replaying"} : proc' = [proc EXCEPT ![p] = [Idle EXCEPT !.pc = step, !.row = a]]
  BY <1>1
<1>3. a \in RowIds /\ a \in 0..MaxRows /\ Live(a)
  BY EmailAssumption DEF Unsettled, Live, RowIds
<1>4. \A q \in Dispatchers : ~Active(q)
  <2>1. ASSUME NEW q \in Dispatchers, Active(q) PROVE FALSE
    <3>1. AtWork(q) /\ Live(proc[q].row) /\ proc[q].row \in RowIds
      BY <2>1, AloneAtWork DEF Live
    <3>2. proc[q].row = a
      BY <1>3, <3>1, LiveIsUnique DEF Always
    <3> QED
      BY <1>1, <2>1, <3>1, <3>2 DEF Attended, AtWork
  <2> QED
    BY <2>1
<1>5. [Idle EXCEPT !.pc = step, !.row = a] \in Process /\ [Idle EXCEPT !.pc = step, !.row = a].row = a
  BY <1>3, IdleTyped DEF Process, Idle
<1>6. UNCHANGED <<rows, sentEvents, posts, emails>>
  BY DEF Reconcile, tableVars, providerVars
<1> QED
  BY <1>2, <1>3, <1>4, <1>5, <1>6, UncrossedReconciler

LEMMA UncrossedReconciliation ==
  ASSUME Always, Uncrossed, NEW p \in Reconcilers, Retrieve(p) \/ Receive(p) \/ JudgeReplay(p) PROVE Uncrossed'
<1>1. UNCHANGED <<rows, sentEvents, posts, emails>> /\ Active(p)
  BY DEF Retrieve, Receive, JudgeReplay, tableVars, providerVars, In, Active
<1>2. /\ p \in Procs /\ proc[p] \in Process /\ Live(proc[p].row)
      /\ \A q \in Dispatchers : ~Active(q)
  BY <1>1, ReconcilerAtWork
<1>3. CASE Stops(p)
  BY <1>1, <1>2, <1>3, UncrossedStops
<1>4. CASE \E step \in {"confirming", "answered", "replaying"}, o \in Outcome :
             proc' = [proc EXCEPT ![p] = [proc[p] EXCEPT !.pc = step, !.outcome = o]]
  <2>1. PICK step \in {"confirming", "answered", "replaying"}, o \in Outcome :
             proc' = [proc EXCEPT ![p] = [proc[p] EXCEPT !.pc = step, !.outcome = o]]
    BY <1>4
  <2> DEFINE r == [proc[p] EXCEPT !.pc = step, !.outcome = o]
  <2>2. r \in Process /\ r.row = proc[p].row
    BY <1>2 DEF Process
  <2> QED
    BY <1>1, <1>2, <2>1, <2>2, UncrossedReconciler
<1>5. ASSUME NEW step, proc' = [proc EXCEPT ![p].pc = step]
      PROVE  proc' = [proc EXCEPT ![p] = [proc[p] EXCEPT !.pc = step, !.outcome = proc[p].outcome]]
  <2>1. [proc[p] EXCEPT !.pc = step] = [proc[p] EXCEPT !.pc = step, !.outcome = proc[p].outcome]
    BY <1>2 DEF Process
  <2> QED
    BY <1>5, <2>1
<1>6. proc[p].outcome \in Outcome
  BY <1>2 DEF Process
<1>7. CASE Retrieve(p)
  BY <1>3, <1>4, <1>5, <1>6, <1>7 DEF Retrieve
<1>8. CASE Receive(p)
  <2>1. PICK answer \in {posts[proc[p].post], "lost"} \cap Answered :
         \E o \in Classified(answer) : proc' = [proc EXCEPT ![p].outcome = o, ![p].pc = "answered"]
    BY <1>8 DEF Receive
  <2>2. PICK o \in Classified(answer) : proc' = [proc EXCEPT ![p].outcome = o, ![p].pc = "answered"]
    BY <2>1
  <2>3. o \in Outcome
    BY <2>1, <2>2 DEF Classified, Answered, Outcome
  <2>4. proc' = [proc EXCEPT ![p] = [proc[p] EXCEPT !.pc = "answered", !.outcome = o]]
    BY <1>2, <2>2 DEF Process
  <2> QED
    BY <1>4, <2>3, <2>4
<1>9. CASE JudgeReplay(p)
  <2>1. CASE proc' = [proc EXCEPT ![p].pc = "confirming"]
    BY <1>4, <1>5, <1>6, <2>1
  <2>2. CASE proc' = [proc EXCEPT ![p].pc = "replaying", ![p].outcome = "none"]
    <3>1. "none" \in Outcome
      BY DEF Outcome
    <3> QED
      BY <1>4, <2>2, <3>1
  <2> QED
    BY <1>3, <1>9, <2>1, <2>2 DEF JudgeReplay
<1> QED
  BY <1>7, <1>8, <1>9

\* A claim finds nothing live, hence nothing done and nobody at work.
LEMMA ClaimFindsNothing ==
  ASSUME Always, Uncrossed, NEW p \in Dispatchers, NEW a \in RowIds, Claim(p, a)
  PROVE  /\ \A b \in RowIds : ~Live(b)
         /\ NothingDone /\ \A q \in Procs : ~Active(q)
<1>1. rows[a].status = "NONE" /\ \A b \in RowIds : b < a => rows[b].status = "FAILED"
  BY DEF Claim, Available
<1>2. \A b \in RowIds : a < b => rows[b].status = "NONE"
  BY <1>1 DEF Always, RowsInOrder
<1>3. ASSUME NEW b \in RowIds PROVE ~Live(b)
  <2>1. b < a \/ b = a \/ a < b
    BY DEF RowIds
  <2> QED
    BY <1>1, <1>2, <2>1 DEF Live
<1>4. NothingDone
  BY <1>3 DEF Uncrossed, NothingLive
<1>5. \A q \in Dispatchers : ~Active(q)
  BY <1>3, AloneAtWork DEF Live
<1>6. \A q \in Reconcilers : ~Active(q)
  BY <1>3, ReconcilerAtWork
<1> QED
  BY <1>3, <1>4, <1>5, <1>6, BothKinds

LEMMA UncrossedClaim ==
  ASSUME Always, Uncrossed, NEW p \in Dispatchers, NEW a \in RowIds, Claim(p, a) PROVE Uncrossed'
<1> DEFINE r == [Idle EXCEPT !.pc = "claimed", !.row = a]
           new == [NoRow EXCEPT !.status = "CLAIMED", !.open = TRUE]
<1>1. UNCHANGED <<sentEvents, posts, emails>>
  BY DEF Claim, providerVars
<1>2. r \in Process /\ r.pc = "claimed" /\ r.row = a
  <2>1. a \in 0..MaxRows
    BY EmailAssumption DEF RowIds
  <2> QED
    BY <2>1, IdleTyped DEF Process
<1>3. proc'[p] = r /\ \A q \in Procs : q # p => proc'[q] = proc[q]
  BY <1>2, BothKinds, ProcReplaced DEF Always, Claim
<1>4. new \in Row /\ RowAccepted(new) /\ new.status = "CLAIMED"
  BY DEF NoRow, Row, RowAccepted
<1>5. rows'[a] = new /\ \A b \in RowIds : b # a => rows'[b] = rows[b]
  BY <1>4, RowReplaced DEF Always, Claim
<1> HIDE DEF r, new
<1>6. /\ \A b \in RowIds : ~Live(b)
      /\ NothingDone /\ \A q \in Procs : ~Active(q)
  BY ClaimFindsNothing
<1>7. DispatchersOK' /\ ReconcilersOK'
  BY <1>2, <1>3, <1>4, <1>5, <1>6, BothKinds DEF DispatchersOK, ReconcilersOK, Active
<1>8. FirstRequest' /\ NothingLive'
  BY <1>1, <1>2, <1>3, <1>6, BothKinds DEF FirstRequest, NothingLive, NothingDone, InProgress, Active
<1>9. Recorded'
  BY <1>1, <1>6 DEF Uncrossed, Recorded, Has, Live
<1>10. PostsAnnounced'
  <2>1. rows[a].status = "NONE"
    BY DEF Claim, Available
  <2>2. Announced => Announced'
    BY <1>5, <2>1 DEF Always, RowsInOrder, Announced
  <2> QED
    BY <1>1, <2>2 DEF Uncrossed, PostsAnnounced
<1> QED
  BY <1>7, <1>8, <1>9, <1>10 DEF Uncrossed

LEMMA UncrossedMarkNetwork == ASSUME Always, Uncrossed, NEW p \in Dispatchers, MarkNetwork(p) PROVE Uncrossed'
<1> DEFINE a == proc[p].row
           r == [proc[p] EXCEPT !.pc = "marked"]
<1>1. UNCHANGED <<sentEvents, posts, emails>> /\ proc[p].pc = "claimed"
  BY DEF MarkNetwork, providerVars, In
<1>2. /\ p \in Procs /\ proc[p] \in Process /\ a \in RowIds /\ rows[a].status = "CLAIMED"
      /\ \A q \in Procs : q # p => ~Active(q)
  BY <1>1, AloneAtWork DEF Active
<1>3. r \in Process /\ r.pc = "marked" /\ r.row = a /\ proc' = [proc EXCEPT ![p] = r]
  BY <1>2 DEF Process, MarkNetwork
<1>4. proc'[p] = r /\ \A q \in Procs : q # p => proc'[q] = proc[q]
  BY <1>2, <1>3, ProcReplaced DEF Always
<1> HIDE DEF r
<1>5. /\ rows'[a].status = "CLAIMED" /\ rows'[a].network
      /\ \A b \in RowIds : rows'[b].status = rows[b].status
  BY <1>2 DEF MarkNetwork, Always, EmailTypeOK, Row
<1>6. NothingDone
  BY <1>1 DEF Uncrossed, FirstRequest
<1>7. DispatchersOK' /\ ReconcilersOK'
  BY <1>2, <1>3, <1>4, <1>5, BothKinds DEF DispatchersOK, ReconcilersOK, Active
<1>8. FirstRequest' /\ NothingLive'
  BY <1>1, <1>2, <1>3, <1>4, <1>6, BothKinds DEF FirstRequest, NothingLive, NothingDone, InProgress, Active
<1>9. Recorded' /\ PostsAnnounced'
  BY <1>1, <1>2, <1>5 DEF Uncrossed, Recorded, PostsAnnounced, Has, Announced
<1> QED
  BY <1>7, <1>8, <1>9 DEF Uncrossed

LEMMA UncrossedReceive == ASSUME Always, Uncrossed, NEW p \in Dispatchers, Receive(p) PROVE Uncrossed'
<1>1. proc[p].pc = "waiting" /\ UNCHANGED <<rows, sentEvents, posts, emails>>
  BY DEF Receive, In, tableVars, providerVars
<1>2. /\ p \in Procs /\ proc[p] \in Process /\ AtWork(p) /\ rows[proc[p].row].status = "CLAIMED"
      /\ \A q \in Procs : q # p => ~Active(q)
  BY <1>1, AloneAtWork DEF Active
<1>3. PICK answer \in {posts[proc[p].post], "lost"} \cap Answered :
         \E o \in Classified(answer) : proc' = [proc EXCEPT ![p].outcome = o, ![p].pc = "answered"]
  BY DEF Receive
<1>4. PICK outcome \in Classified(answer) : proc' = [proc EXCEPT ![p].outcome = outcome, ![p].pc = "answered"]
  BY <1>3
<1> DEFINE r == [proc[p] EXCEPT !.outcome = outcome, !.pc = "answered"]
<1>5. outcome \in Outcome /\ (outcome = "FAILED" => posts[proc[p].post] = "rejected")
  BY <1>3, <1>4 DEF Classified, Answered, Outcome
<1>6. r \in Process /\ r.pc = "answered" /\ r.row = proc[p].row /\ r.outcome = outcome
      /\ proc' = [proc EXCEPT ![p] = r]
  BY <1>2, <1>4, <1>5 DEF Process
<1>7. proc'[p] = r /\ \A q \in Procs : q # p => proc'[q] = proc[q]
  BY <1>2, <1>6, ProcReplaced DEF Always
<1> HIDE DEF r
<1>8. outcome = "FAILED" => NothingDone
  BY <1>1, <1>5 DEF Uncrossed, FirstRequest, NothingDone, InProgress
<1>9. DispatchersOK' /\ ReconcilersOK'
  BY <1>1, <1>2, <1>6, <1>7, BothKinds DEF Uncrossed, DispatchersOK, ReconcilersOK, Active
<1>10. FirstRequest'
  BY <1>1, <1>2, <1>6, <1>7, <1>8, BothKinds DEF FirstRequest, NothingDone, InProgress, Active
<1> QED
  BY <1>1, <1>9, <1>10, UncrossedTables DEF Uncrossed

LEMMA UncrossedFile == ASSUME Always, Uncrossed, NEW p \in Dispatchers, File(p) PROVE Uncrossed'
<1> DEFINE a == proc[p].row
           o == proc[p].outcome
           new == Filed(rows[a], o)
           event == IF o = "SENT" THEN 1 ELSE 0
<1>1. UNCHANGED <<posts, emails>> /\ proc[p].pc = "answered" /\ Stops(p)
  BY DEF File, providerVars, In
<1>2. /\ p \in Procs /\ AtWork(p) /\ a \in RowIds /\ rows[a].status = "CLAIMED"
      /\ \A q \in Procs : q # p => ~Active(q)
  BY <1>1, AloneAtWork DEF Active
<1>3. CASE UNCHANGED <<rows, sentEvents>>
  BY <1>1, <1>2, <1>3, UncrossedStops
<1>4. CASE /\ RowAccepted(new) /\ rows' = [rows EXCEPT ![a] = new]
           /\ sentEvents + event <= 1 /\ sentEvents' = sentEvents + event
  <2>1. rows[a] \in Row /\ rows[a].network /\ o \in Outcome \ {"none"} /\ sentEvents \in Nat
    BY <1>1, <1>2 DEF Always, EmailTypeOK, Uncrossed, DispatchersOK, Active, Process, AtWork
  <2>2. new \in Row /\ new.status = Status(o) /\ new.network
    BY <2>1 DEF Filed, Row, Status, Outcome
  <2>3. rows'[a] = new /\ \A b \in RowIds : b # a => rows'[b] = rows[b]
    BY <1>2, <1>4, <2>2, RowReplaced DEF Always
  <2> HIDE DEF new
  <2>4. \A q \in Procs : proc'[q].pc = "idle"
    BY <1>1, <1>2, IdleTyped, ProcReplaced DEF Always, Stops, Active
  <2>5. DispatchersOK' /\ ReconcilersOK' /\ FirstRequest'
    BY <2>4, BothKinds DEF DispatchersOK, ReconcilersOK, FirstRequest, Active
  <2>6. NothingLive'
    <3>1. CASE o = "FAILED"
      BY <1>1, <3>1 DEF Uncrossed, FirstRequest, NothingLive, NothingDone, InProgress
    <3>2. CASE o # "FAILED"
      BY <1>2, <2>1, <2>2, <2>3, <3>2 DEF NothingLive, Live, Status, Outcome
    <3> QED
      BY <3>1, <3>2
  <2>7. Recorded'
    <3>1. CASE o = "SENT"
      BY <1>2, <2>2, <2>3, <3>1 DEF Recorded, Has, Status
    <3>2. CASE o # "SENT"
      <4>1. sentEvents' = sentEvents
        BY <1>4, <2>1, <3>2
      <4>2. Has("SENT") => Has("SENT")'
        BY <1>2, <2>3 DEF Has
      <4> QED
        BY <4>1, <4>2 DEF Uncrossed, Recorded
    <3> QED
      BY <3>1, <3>2
  <2>8. PostsAnnounced'
    BY <1>2, <2>2, <2>3 DEF PostsAnnounced, Announced
  <2> QED
    BY <2>5, <2>6, <2>7, <2>8 DEF Uncrossed
<1> QED
  BY <1>2, <1>3, <1>4 DEF File

LEMMA UncrossedConfirm == ASSUME Always, Uncrossed, NEW p \in Reconcilers, Confirm(p) PROVE Uncrossed'
<1> DEFINE a == proc[p].row
           new == IF rows[a].status \in {"CLAIMED", "AMBIGUOUS"} THEN Filed(rows[a], "SENT") ELSE rows[a]
<1>1. UNCHANGED <<posts, emails>> /\ Stops(p) /\ Active(p)
  BY DEF Confirm, providerVars, In, Active
<1>2. /\ p \in Procs /\ a \in RowIds /\ Live(a) /\ rows[a].network
      /\ \A q \in Dispatchers : ~Active(q)
  BY <1>1, ReconcilerAtWork
<1>3. CASE UNCHANGED <<rows, sentEvents>>
  BY <1>1, <1>2, <1>3, UncrossedStops
<1>4. CASE sentEvents = 0 /\ rows' = [rows EXCEPT ![a] = new]
  <2>1. rows[a] \in Row /\ rows[a].status # "SENT"
    BY <1>2, <1>4 DEF Always, EmailTypeOK, SentOnce, Has
  <2>2. new \in Row /\ new.status = "SENT" /\ new.network /\ new.receipt
    BY <1>2, <2>1 DEF Live, Filed, Row, Status
  <2>3. RowAccepted(new)
    BY <2>2 DEF RowAccepted
  <2>4. rows'[a] = new /\ \A b \in RowIds : b # a => rows'[b] = rows[b]
    BY <1>2, <1>4, <2>2, <2>3, RowReplaced DEF Always
  <2> HIDE DEF new
  <2>5. proc'[p].pc = "idle" /\ \A q \in Procs : q # p => proc'[q] = proc[q]
    BY <1>1, <1>2, IdleTyped, ProcReplaced DEF Always, Stops
  <2>6. \A q \in Dispatchers : ~Active(q)'
    BY <1>2, <2>5, BothKinds DEF Active
  <2>7. \A q \in Reconcilers : Active(q)' => Live(proc[q].row)'
    <3>1. ASSUME NEW q \in Reconcilers, Active(q)' PROVE Live(proc[q].row)'
      <4>1. proc'[q] = proc[q] /\ Active(q)
        BY <2>5, <3>1, BothKinds DEF Active
      <4>2. proc[q].row \in RowIds /\ Live(proc[q].row)
        BY <4>1, ReconcilerAtWork
      <4> QED
        BY <2>2, <2>4, <4>1, <4>2 DEF Live
    <3> QED
      BY <3>1
  <2>8. NothingLive' /\ Recorded' /\ PostsAnnounced'
    BY <1>2, <2>2, <2>4 DEF NothingLive, Live, Recorded, Has, PostsAnnounced, Announced
  <2> QED
    BY <2>6, <2>7, <2>8, NoDispatcher DEF Uncrossed
<1> QED
  BY <1>3, <1>4 DEF Confirm, EventAllowed

\* What a request leaves, whoever makes it.
LEMMA RequestMade ==
  ASSUME Always, NEW p \in Procs, Send(p)
  PROVE  /\ UNCHANGED <<rows, sentEvents, emails, key>>
         /\ \A q \in Procs : q # p => proc'[q] = proc[q]
         /\ proc'[p].pc = "waiting" /\ proc'[p].row = proc[p].row
         /\ proc'[p].post \in PostIds /\ posts'[proc'[p].post] = "flying"
         /\ \A m \in PostIds : m # proc'[p].post => posts'[m] = posts[m]
<1>1. PICK n \in PostIds :
         /\ posts' = [posts EXCEPT ![n] = "flying"]
         /\ proc' = [proc EXCEPT ![p].pc = "waiting", ![p].post = n,
                                 ![p].tries = IF In(p, "replaying") THEN @ + 1 ELSE @]
  BY DEF Send
<1>2. proc[p] \in Process /\ proc \in [Procs -> Process] /\ posts \in [PostIds -> Post]
  BY DEF Always, EmailTypeOK
<1>3. /\ proc'[p].pc = "waiting" /\ proc'[p].row = proc[p].row /\ proc'[p].post = n
      /\ \A q \in Procs : q # p => proc'[q] = proc[q]
  BY <1>1, <1>2 DEF Process
<1> QED
  BY <1>1, <1>2, <1>3 DEF Send, tableVars

LEMMA UncrossedSend ==
  ASSUME Always, Uncrossed, NEW p \in Dispatchers, Send(p)
  PROVE  Uncrossed' /\ NothingDone
<1>1. p \in Procs /\ Active(p) /\ proc[p].pc \in {"marked", "replaying"}
  BY BothKinds DEF Send, In, Active
<1>2. /\ AtWork(p) /\ rows[proc[p].row].status = "CLAIMED" /\ proc[p].row \in RowIds
      /\ \A q \in Procs : q # p => ~Active(q)
  BY <1>1, AloneAtWork
<1>3. proc[p].pc = "marked" /\ NothingDone /\ rows[proc[p].row].network
  BY <1>1, <1>2 DEF AtWork, Uncrossed, FirstRequest, DispatchersOK
<1>4. DispatchersOK' /\ ReconcilersOK'
  BY <1>1, <1>2, <1>3, RequestMade, BothKinds DEF DispatchersOK, ReconcilersOK, Active
<1>5. FirstRequest'
  <2>1. \A m \in PostIds : m # proc'[p].post => ~InProgress(m)'
    BY <1>1, <1>3, RequestMade DEF NothingDone, InProgress
  <2>2. emails' = 0 /\ posts'[proc'[p].post] = "flying" /\ proc'[p].pc = "waiting"
    BY <1>1, <1>3, RequestMade DEF NothingDone
  <2>3. \A q \in Dispatchers : q # p => proc'[q].pc = "idle"
    BY <1>1, <1>2, RequestMade, BothKinds DEF Active
  <2> QED
    BY <2>1, <2>2, <2>3 DEF FirstRequest
<1>6. NothingLive' /\ Recorded' /\ PostsAnnounced'
  BY <1>1, <1>2, <1>3, RequestMade
  DEF Uncrossed, NothingLive, Live, Recorded, Has, PostsAnnounced, Announced
<1> QED
  BY <1>3, <1>4, <1>5, <1>6 DEF Uncrossed

LEMMA UncrossedReplay == ASSUME Always, Uncrossed, NEW p \in Reconcilers, Send(p) PROVE Uncrossed'
<1>1. p \in Procs /\ Active(p)
  BY BothKinds DEF Send, In, Active
<1>2. /\ proc[p].row \in RowIds /\ Live(proc[p].row) /\ rows[proc[p].row].network
      /\ \A q \in Dispatchers : ~Active(q)
  BY <1>1, ReconcilerAtWork
<1>3. \A q \in Dispatchers : ~Active(q)'
  BY <1>1, <1>2, RequestMade, BothKinds DEF Active
<1>4. \A q \in Reconcilers : Active(q)' => Live(proc[q].row)'
  BY <1>1, <1>2, RequestMade, BothKinds DEF Uncrossed, ReconcilersOK, Active, Live
<1>5. NothingLive' /\ Recorded' /\ PostsAnnounced'
  BY <1>1, <1>2, RequestMade DEF Uncrossed, NothingLive, Live, Recorded, Has, PostsAnnounced, Announced
<1> QED
  BY <1>3, <1>4, <1>5, NoDispatcher DEF Uncrossed

LEMMA UncrossedProvider ==
  ASSUME Always, Uncrossed, NEW n \in PostIds, Arrive(n) \/ Accept(n) \/ Reject(n) \/ Lose(n) PROVE Uncrossed'
<1>1. UNCHANGED <<rows, sentEvents, proc>> /\ InProgress(n) /\ ~NothingDone
  BY DEF Arrive, Accept, Reject, Lose, tableVars, InProgress, NothingDone
<1>2. PICK x \in Post : posts' = [posts EXCEPT ![n] = x] /\ (emails = 0 /\ x # "created" => emails' = 0)
  BY DEF Arrive, Accept, Reject, Lose, Post
<1>3. posts'[n] = x /\ \A m \in PostIds : m # n => posts'[m] = posts[m]
  BY <1>2, PostReplaced DEF Always
<1>4. ASSUME NEW q \in Dispatchers, proc[q].pc = "waiting"
      PROVE  /\ \A m \in PostIds : m # proc[q].post => ~InProgress(m)'
             /\ \/ posts'[proc[q].post] \in {"flying", "processing", "lost", "rejected"} /\ emails' = 0
                \/ posts'[proc[q].post] = "created"
  <2>1. proc[q].post = n /\ emails = 0 /\ \A m \in PostIds : m # n => ~InProgress(m)
    BY <1>1, <1>4 DEF Uncrossed, FirstRequest, InProgress
  <2>2. \A m \in PostIds : m # n => ~InProgress(m)'
    BY <1>3, <2>1 DEF InProgress
  <2>3. key # "kept"
    BY <2>1 DEF Always, KeyOK
  <2>4. x \in {"processing", "lost", "rejected", "created"}
    <3>1. CASE Arrive(n)
      <4>1. posts[n] = "flying" /\ \A m \in PostIds : posts[m] # "processing"
        BY <2>1, <3>1 DEF Arrive, InProgress
      <4>2. key = "free"
        BY <2>3, <4>1 DEF Always, KeyOK, EmailTypeOK
      <4> QED
        BY <1>3, <3>1, <4>2 DEF Arrive, Always, EmailTypeOK
    <3>2. CASE Accept(n) \/ Reject(n) \/ Lose(n)
      BY <1>3, <3>2 DEF Accept, Reject, Lose, Always, EmailTypeOK
    <3> QED
      BY <3>1, <3>2
  <2> QED
    BY <1>2, <1>3, <2>1, <2>2, <2>4
<1>5. FirstRequest'
  BY <1>1, <1>4 DEF Uncrossed, FirstRequest
<1>6. DispatchersOK' /\ ReconcilersOK' /\ Recorded'
  BY <1>1 DEF Uncrossed, DispatchersOK, ReconcilersOK, Recorded, Active, Live, Has
<1>7. NothingLive' /\ PostsAnnounced'
  BY <1>1, <1>3 DEF Uncrossed, NothingLive, PostsAnnounced, Live, Announced, InProgress
<1> QED
  BY <1>5, <1>6, <1>7 DEF Uncrossed

\* What changes neither a status, nor a mark, nor a process, nor a request.
LEMMA UncrossedKept ==
  ASSUME Uncrossed, UNCHANGED <<sentEvents, proc, posts, emails>>,
         \A b \in RowIds : rows'[b].status = rows[b].status /\ rows'[b].network = rows[b].network,
         \A q \in Procs : Active(q) => proc[q].row \in RowIds
  PROVE  Uncrossed'
<1>1. DispatchersOK' /\ ReconcilersOK'
  BY BothKinds DEF Uncrossed, DispatchersOK, ReconcilersOK, Active, Live
<1>2. FirstRequest'
  BY DEF Uncrossed, FirstRequest, NothingDone, InProgress
<1>3. NothingLive' /\ Recorded' /\ PostsAnnounced'
  BY DEF Uncrossed, NothingLive, Recorded, PostsAnnounced, NothingDone, InProgress, Announced, Live, Has
<1> QED
  BY <1>1, <1>2, <1>3 DEF Uncrossed

LEMMA UncrossedElse ==
  ASSUME Always, Uncrossed,
         \/ Forget \/ Supersede \/ UNCHANGED emailVars
         \/ \E a \in RowIds : WindowCloses(a) \/ WriteReceipt(a)
  PROVE  Uncrossed'
<1>1. UNCHANGED <<sentEvents, proc, posts, emails>>
  BY DEF Forget, Supersede, WindowCloses, WriteReceipt, emailVars, tableVars, providerVars
<1>2. \A b \in RowIds : rows'[b].status = rows[b].status /\ rows'[b].network = rows[b].network
  BY DEF Forget, Supersede, WindowCloses, WriteReceipt, emailVars, tableVars, Always, EmailTypeOK, Row
<1>3. \A q \in Procs : Active(q) => proc[q].row \in RowIds
  BY DEF Always, ProcessesOK, AtWork
<1> QED
  BY <1>1, <1>2, <1>3, UncrossedKept

LEMMA UncrossedInit == EmailInit => Uncrossed /\ crossed = FALSE
<1> SUFFICES ASSUME EmailInit PROVE Uncrossed
  BY DEF EmailInit
<1>1. /\ \A p \in Procs : proc[p].pc = "idle"
      /\ \A n \in PostIds : posts[n] = "unmade"
      /\ emails = 0 /\ sentEvents = 0
  BY IdleTyped DEF EmailInit
<1> QED
  BY <1>1, BothKinds DEF Uncrossed, DispatchersOK, ReconcilersOK, FirstRequest, NothingLive, Recorded,
                         PostsAnnounced, NothingDone, InProgress, Active

LEMMA UncrossedStep == ASSUME Always, Uncrossed, [EmailNext]_emailVars, ~crossed' PROVE Uncrossed'
<1>1. ASSUME NEW p \in Dispatchers, DispatcherStep(p) PROVE Uncrossed'
  BY <1>1, UncrossedClaim, UncrossedMarkNetwork, UncrossedSend, UncrossedReceive, UncrossedFile DEF DispatcherStep
<1>2. ASSUME NEW p \in Reconcilers, ReconcilerStep(p) PROVE Uncrossed'
  BY <1>2, UncrossedReconcile, UncrossedReconciliation, UncrossedReplay, UncrossedConfirm DEF ReconcilerStep
<1>3. CASE ProviderStep
  BY <1>3, UncrossedProvider, UncrossedElse DEF ProviderStep
<1>4. CASE WorldStep
  <2>1. \A p \in Procs : Crash(p) => Uncrossed'
    BY UncrossedStops DEF Crash, tableVars, providerVars
  <2> QED
    BY <1>4, <2>1, UncrossedElse DEF WorldStep
<1>5. CASE UNCHANGED emailVars
  BY <1>5, UncrossedElse
<1> QED
  BY <1>1, <1>2, <1>3, <1>4, <1>5 DEF EmailNext

\* A crossing is remembered.
LEMMA CrossedStays == ASSUME crossed \in BOOLEAN, crossed, [EmailNext]_emailVars PROVE crossed'
<1>1. \A p \in Reconcilers : Reconcile(p) => crossed'
  BY DEF Reconcile
<1>2. \A p \in Dispatchers : DispatcherStep(p) => crossed'
  BY DEF DispatcherStep, Claim, MarkNetwork, Send, Receive, File
<1>3. \A p \in Reconcilers : ReconcilerStep(p) => crossed'
  BY <1>1 DEF ReconcilerStep, Retrieve, Send, Receive, JudgeReplay, Confirm
<1>4. ProviderStep => crossed'
  BY DEF ProviderStep, Arrive, Accept, Reject, Lose, Forget
<1>5. WorldStep => crossed'
  BY DEF WorldStep, WindowCloses, WriteReceipt, Supersede, Crash
<1> QED
  BY <1>2, <1>3, <1>4, <1>5 DEF EmailNext, emailVars

LEMMA UncrossedTrue == EmailSpec => [](crossed \/ Uncrossed)
<1>1. EmailInit => crossed \/ Uncrossed
  BY UncrossedInit
<1>2. Always /\ (crossed \/ Uncrossed) /\ [EmailNext]_emailVars => (crossed \/ Uncrossed)'
  BY UncrossedStep, CrossedStays DEF Always, EmailTypeOK
<1> QED
  BY <1>1, <1>2, AlwaysTrue, PTL DEF EmailSpec

\* Every row of r6b_live_send_attempts satisfies the constraints of 0023
\* through every interleaving of dispatchers, reconciliations and the provider.
THEOREM EmailTypeCorrect == EmailSpec => []EmailTypeOK
<1>1. Always => EmailTypeOK
  BY DEF Always
<1> QED
  BY <1>1, AlwaysTrue, PTL

\* Up to a crossing, the register lets another attempt be made only when no
\* email exists and no request can create one any more - stalled ones included.
THEOREM FreedIsSafe == EmailSpec => []FreedMeansNoEmail
<1>1. (crossed \/ Uncrossed) => FreedMeansNoEmail
  BY DEF Uncrossed, NothingLive, NothingDone, Live, FreedMeansNoEmail
<1> QED
  BY <1>1, UncrossedTrue, PTL

\* SENT is never without the event that says the prospect contacted, which is
\* written once and of an email that exists, whatever crosses; and the event is
\* not without SENT up to a crossing.
THEOREM SentIsTrue == EmailSpec => []SentIsTheTruth
<1>1. Always /\ (crossed \/ Uncrossed) => SentIsTheTruth
  BY DEF Always, SentOnce, Uncrossed, Recorded, SentIsTheTruth
<1> QED
  BY <1>1, AlwaysTrue, UncrossedTrue, PTL

-----------------------------------------------------------------------------
(* Every step but a crossing keeps Windowed, when no request stalls.       *)

\* A process moves, the provider and the windows do not.
LEMMA WindowedAlone ==
  ASSUME Windowed, UNCHANGED <<posts, emails, key>>,
         \A a \in RowIds : rows'[a].open = rows[a].open,
         ReplaysOpen'
  PROVE  Windowed'
<1>1. OneAtMost'
  BY DEF Windowed, OneAtMost
<1>2. WindowOK'
  BY DEF Windowed, WindowOK, InProgress
<1> QED
  BY <1>1, <1>2 DEF Windowed

\* A replay stays within its window while the window stays.
LEMMA ReplaysStayOpen ==
  ASSUME Always, Windowed, \A a \in RowIds : rows'[a].open = rows[a].open,
         \A q \in Reconcilers :
             \/ proc'[q].pc \notin {"replaying", "waiting", "answered"}
             \/ proc'[q].row = proc[q].row /\ proc[q].pc \in {"replaying", "waiting", "answered"}
  PROVE  ReplaysOpen'
<1>1. \A q \in Reconcilers : proc[q].pc \in {"replaying", "waiting", "answered"} => proc[q].row \in RowIds
  BY BothKinds DEF Always, ProcessesOK, AtWork, Active
<1> QED
  BY <1>1 DEF Windowed, ReplaysOpen

LEMMA WindowedStops ==
  ASSUME Always, Windowed, NEW p \in Procs, Stops(p), UNCHANGED <<posts, emails, key>>,
         \A a \in RowIds : rows'[a].open = rows[a].open
  PROVE  Windowed'
<1>1. proc'[p].pc = "idle" /\ \A q \in Procs : q # p => proc'[q] = proc[q]
  BY IdleTyped, ProcReplaced DEF Always, Stops
<1>2. ReplaysOpen'
  BY <1>1, BothKinds, ReplaysStayOpen
<1> QED
  BY <1>2, WindowedAlone

LEMMA WindowedDispatcher ==
  ASSUME Always, Uncrossed, Windowed, NEW p \in Dispatchers, MarkNetwork(p) \/ Receive(p) PROVE Windowed'
<1>1. UNCHANGED <<posts, emails, key>> /\ \A a \in RowIds : rows'[a].open = rows[a].open
  BY DEF MarkNetwork, Receive, tableVars, providerVars, Always, EmailTypeOK, Row
<1>2. \A q \in Reconcilers : proc'[q] = proc[q]
  <2>1. \A q \in Reconcilers : q # p
    BY BothKinds
  <2> QED
    BY <2>1, BothKinds DEF MarkNetwork, Receive, Always, EmailTypeOK
<1>3. ReplaysOpen'
  BY <1>1, <1>2, BothKinds, ReplaysStayOpen
<1> QED
  BY <1>1, <1>3, WindowedAlone

LEMMA WindowedClaim ==
  ASSUME Always, Uncrossed, Windowed, NEW p \in Dispatchers, NEW a \in RowIds, Claim(p, a) PROVE Windowed'
<1>1. NothingDone /\ \A q \in Procs : ~Active(q)
  BY ClaimFindsNothing
<1>2. UNCHANGED <<posts, emails, key>>
  BY DEF Claim, providerVars
<1>3. \A q \in Reconcilers : proc'[q] = proc[q]
  BY BothKinds DEF Claim, Always, EmailTypeOK
<1>4. ReplaysOpen'
  BY <1>1, <1>3, BothKinds DEF ReplaysOpen, Active
<1> QED
  BY <1>1, <1>2, <1>4 DEF Windowed, OneAtMost, WindowOK, NothingDone, InProgress

LEMMA WindowedSend == ASSUME Always, Uncrossed, Windowed, NEW p \in Dispatchers, Send(p) PROVE Windowed'
<1>1. NothingDone /\ p \in Procs
  BY UncrossedSend, BothKinds
<1>2. emails' = 0 /\ rows' = rows /\ \A m \in PostIds : InProgress(m)' => m = proc'[p].post
  BY <1>1, RequestMade DEF NothingDone, InProgress
<1>3. \A q \in Reconcilers : proc'[q] = proc[q]
  BY <1>1, RequestMade, BothKinds
<1>4. ReplaysOpen'
  BY <1>2, <1>3 DEF Windowed, ReplaysOpen
<1>5. OneAtMost' /\ WindowOK'
  BY <1>2 DEF OneAtMost, WindowOK
<1> QED
  BY <1>4, <1>5 DEF Windowed

LEMMA WindowedReplay == ASSUME Always, Uncrossed, Windowed, NEW p \in Reconcilers, Send(p) PROVE Windowed'
<1>1. p \in Procs /\ Active(p) /\ proc[p].pc \in {"marked", "replaying"}
  BY BothKinds DEF Send, In, Active
<1>2. proc[p].pc = "replaying" /\ proc[p].row \in RowIds /\ rows[proc[p].row].open
  BY <1>1, ReconcilerAtWork DEF AtWork, Windowed, ReplaysOpen
<1>3. UNCHANGED <<rows, emails, key>>
  BY <1>1, RequestMade
<1>4. ReplaysOpen'
  BY <1>1, <1>2, <1>3, RequestMade, BothKinds, ReplaysStayOpen
<1>5. ~(emails = 1 /\ key = "free")
  BY <1>2 DEF Windowed, WindowOK
<1>6. OneAtMost' /\ WindowOK'
  BY <1>2, <1>3, <1>5 DEF Windowed, OneAtMost, WindowOK
<1> QED
  BY <1>4, <1>6 DEF Windowed

LEMMA WindowedReconcile == ASSUME Always, Windowed, NEW p \in Reconcilers, Reconcile(p) PROVE Windowed'
<1>1. PICK a \in Unsettled :
         \/ proc' = [proc EXCEPT ![p] = [Idle EXCEPT !.pc = "retrieving", !.row = a]]
         \/ rows[a].open /\ proc' = [proc EXCEPT ![p] = [Idle EXCEPT !.pc = "replaying", !.row = a]]
  BY DEF Reconcile, MayReplay
<1>2. UNCHANGED <<rows, posts, emails, key>>
  BY DEF Reconcile, tableVars, providerVars
<1>3. \A q \in Reconcilers : q # p => proc'[q] = proc[q]
  BY <1>1, BothKinds DEF Always, EmailTypeOK
<1>4. \/ proc'[p].pc = "retrieving"
      \/ rows[a].open /\ proc'[p].row = a
  <2>1. p \in Procs /\ proc \in [Procs -> Process]
    BY BothKinds DEF Always, EmailTypeOK
  <2>2. \A step : LET r == [Idle EXCEPT !.pc = step, !.row = a] IN r.pc = step /\ r.row = a
    BY DEF Idle
  <2> QED
    BY <1>1, <2>1, <2>2
<1>5. ReplaysOpen'
  BY <1>2, <1>3, <1>4 DEF Windowed, ReplaysOpen
<1> QED
  BY <1>2, <1>5, WindowedAlone

LEMMA WindowedReconciliation ==
  ASSUME Always, Windowed, NEW p \in Reconcilers, Retrieve(p) \/ Receive(p) \/ JudgeReplay(p) PROVE Windowed'
<1>1. UNCHANGED <<rows, posts, emails, key>> /\ p \in Procs
  BY BothKinds DEF Retrieve, Receive, JudgeReplay, tableVars, providerVars
<1>2. CASE Stops(p)
  BY <1>1, <1>2, WindowedStops
<1>3. CASE ~Stops(p)
  <2>1. proc[p] \in Process /\ proc \in [Procs -> Process]
    BY <1>1 DEF Always, EmailTypeOK
  <2>2. \A q \in Procs : q # p => proc'[q] = proc[q]
    BY <1>1, <1>3, <2>1 DEF Retrieve, Receive, JudgeReplay
  <2>3. \/ proc'[p].pc = "confirming"
        \/ proc'[p].row = proc[p].row /\ proc[p].pc \in {"waiting", "answered"}
    <3>1. CASE Retrieve(p)
      BY <1>1, <1>3, <2>1, <3>1 DEF Retrieve, Process
    <3>2. CASE Receive(p)
      <4>1. proc[p].pc = "waiting" /\ \E o : proc' = [proc EXCEPT ![p].outcome = o, ![p].pc = "answered"]
        BY <3>2 DEF Receive, In
      <4> QED
        BY <1>1, <2>1, <4>1 DEF Process
    <3>3. CASE JudgeReplay(p)
      <4>1. proc[p].pc = "answered" /\ \/ proc' = [proc EXCEPT ![p].pc = "confirming"]
                                       \/ proc' = [proc EXCEPT ![p].pc = "replaying", ![p].outcome = "none"]
        BY <1>3, <3>3 DEF JudgeReplay, In
      <4> QED
        BY <1>1, <2>1, <4>1 DEF Process
    <3> QED
      BY <3>1, <3>2, <3>3
  <2>4. ReplaysOpen'
    BY <1>1, <2>2, <2>3, BothKinds, ReplaysStayOpen
  <2> QED
    BY <1>1, <2>4, WindowedAlone
<1> QED
  BY <1>2, <1>3

\* The answer filed, or the confirmation, leaves the windows.
LEMMA WindowedFiled ==
  ASSUME Always, Windowed, NEW p \in Procs, File(p) \/ Confirm(p) PROVE Windowed'
<1>1. Stops(p) /\ UNCHANGED <<posts, emails, key>>
  BY DEF File, Confirm, providerVars
<1>2. \A a \in RowIds : rows'[a].open = rows[a].open
  <2> DEFINE a == proc[p].row
  <2>1. rows' = rows \/ \E o : rows' = [rows EXCEPT ![a] = Filed(rows[a], o)] \/ rows' = [rows EXCEPT ![a] = rows[a]]
    BY DEF File, Confirm
  <2>2. rows \in [RowIds -> Row]
    BY DEF Always, EmailTypeOK
  <2>3. ASSUME NEW b \in RowIds, NEW o PROVE Filed(rows[b], o).open = rows[b].open
    BY <2>2 DEF Filed, Row
  <2> QED
    BY <2>1, <2>2, <2>3
<1> QED
  BY <1>1, <1>2, WindowedStops

LEMMA WindowedProvider ==
  ASSUME Always, Windowed, NEW n \in PostIds, Arrive(n) \/ Accept(n) \/ Reject(n) \/ Lose(n) PROVE Windowed'
<1>1. UNCHANGED <<rows, proc>> /\ InProgress(n) /\ emails \in Nat /\ key \in {"free", "busy", "kept"}
  BY DEF Arrive, Accept, Reject, Lose, tableVars, InProgress, Always, EmailTypeOK
<1>2. ReplaysOpen'
  BY <1>1 DEF Windowed, ReplaysOpen
<1>3. PICK x \in Post : posts' = [posts EXCEPT ![n] = x]
  BY DEF Arrive, Accept, Reject, Lose, Post
<1>4. posts'[n] = x /\ \A m \in PostIds : m # n => posts'[m] = posts[m]
  BY <1>3, PostReplaced DEF Always
<1>5. \A m \in PostIds : InProgress(m)' => InProgress(m)
  BY <1>1, <1>4 DEF InProgress
<1>6. ~(emails = 1 /\ key = "free")
  BY <1>1 DEF Windowed, WindowOK
<1>7. CASE Arrive(n)
  <2>1. emails' = emails /\ key' = IF key = "free" THEN "busy" ELSE key
    BY <1>7 DEF Arrive
  <2> QED
    BY <1>1, <1>2, <1>5, <1>6, <2>1 DEF Windowed, OneAtMost, WindowOK
<1>8. CASE Accept(n)
  <2>1. key = "busy" /\ emails = 0
    BY <1>8 DEF Accept, Always, KeyOK, Windowed, OneAtMost
  <2>2. emails' = 1 /\ key' = "kept" /\ ~InProgress(n)'
    BY <1>4, <1>8, <2>1 DEF Accept, InProgress, Always, EmailTypeOK
  <2> QED
    BY <1>1, <1>2, <1>5, <2>2 DEF Windowed, OneAtMost, WindowOK
<1>9. CASE Reject(n)
  <2>1. key = "busy" /\ emails = 0
    BY <1>9 DEF Reject, Always, KeyOK, Windowed, OneAtMost
  <2>2. emails' = 0 /\ key' = "free"
    BY <1>9, <2>1 DEF Reject
  <2> QED
    BY <1>1, <1>2, <1>5, <2>2 DEF Windowed, OneAtMost, WindowOK
<1>10. CASE Lose(n)
  <2>1. emails' = emails /\ key' = key
    BY <1>10 DEF Lose
  <2> QED
    BY <1>1, <1>2, <1>5, <1>6, <2>1 DEF Windowed, OneAtMost, WindowOK
<1> QED
  BY <1>7, <1>8, <1>9, <1>10

LEMMA WindowedForget == ASSUME Always, Windowed, Forget PROVE Windowed'
<1>1. /\ key = "kept" /\ key' = "free" /\ \A a \in RowIds : ~rows[a].open
      /\ UNCHANGED <<rows, proc, posts, emails>>
  BY DEF Forget, tableVars
<1>2. emails = 1
  BY <1>1 DEF Always, KeyOK, EmailTypeOK, Windowed, OneAtMost
<1>3. \A n \in PostIds : ~InProgress(n)
  BY <1>1, <1>2 DEF Windowed, WindowOK
<1> QED
  BY <1>1, <1>2, <1>3 DEF Windowed, OneAtMost, ReplaysOpen, WindowOK, InProgress

LEMMA WindowedCloses == ASSUME NoStall, Always, Windowed, NEW a \in RowIds, WindowCloses(a) PROVE Windowed'
<1>1. UNCHANGED <<proc, posts, emails, key>> /\ Quiet
  BY DEF WindowCloses, providerVars, NoStall
<1>2. \A b \in RowIds : rows'[b].open => rows[b].open
  BY DEF WindowCloses, Always, EmailTypeOK, Row
<1> QED
  BY <1>1, <1>2 DEF Windowed, OneAtMost, ReplaysOpen, WindowOK, Quiet, InProgress

LEMMA WindowedElse ==
  ASSUME Always, Windowed, Supersede \/ UNCHANGED emailVars \/ \E a \in RowIds : WriteReceipt(a) PROVE Windowed'
<1>1. UNCHANGED <<proc, posts, emails, key>>
  BY DEF Supersede, WriteReceipt, emailVars, providerVars
<1>2. \A b \in RowIds : rows'[b].open = rows[b].open
  BY DEF Supersede, WriteReceipt, emailVars, Always, EmailTypeOK, Row
<1>3. ReplaysOpen'
  BY <1>1, <1>2, ReplaysStayOpen
<1> QED
  BY <1>1, <1>2, <1>3, WindowedAlone

LEMMA WindowedStep ==
  ASSUME NoStall, Always, Uncrossed, Windowed, [EmailNext]_emailVars PROVE Windowed'
<1>1. ASSUME NEW p \in Dispatchers, DispatcherStep(p) PROVE Windowed'
  BY <1>1, BothKinds, WindowedClaim, WindowedDispatcher, WindowedSend, WindowedFiled DEF DispatcherStep
<1>2. ASSUME NEW p \in Reconcilers, ReconcilerStep(p) PROVE Windowed'
  BY <1>2, BothKinds, WindowedReconcile, WindowedReconciliation, WindowedReplay, WindowedFiled DEF ReconcilerStep
<1>3. CASE ProviderStep
  BY <1>3, WindowedProvider, WindowedForget DEF ProviderStep
<1>4. CASE WorldStep
  <2>1. \A p \in Procs : Crash(p) => Windowed'
    BY WindowedStops DEF Crash, tableVars, providerVars
  <2> QED
    BY <1>4, <2>1, WindowedCloses, WindowedElse DEF WorldStep
<1>5. CASE UNCHANGED emailVars
  BY <1>5, WindowedElse
<1> QED
  BY <1>1, <1>2, <1>3, <1>4, <1>5 DEF EmailNext

LEMMA WindowedTrue == ASSUME NoStall PROVE EmailSpec => [](crossed \/ Windowed)
<1>1. EmailInit => crossed \/ Windowed
  <2> SUFFICES ASSUME EmailInit PROVE Windowed
    OBVIOUS
  <2>1. /\ \A p \in Procs : proc[p].pc = "idle"
        /\ \A n \in PostIds : ~InProgress(n)
        /\ emails = 0
    BY IdleTyped DEF EmailInit, InProgress
  <2> QED
    BY <2>1, BothKinds DEF Windowed, OneAtMost, ReplaysOpen, WindowOK
<1>2. Always /\ (crossed \/ Uncrossed) /\ (crossed \/ Windowed) /\ [EmailNext]_emailVars => (crossed \/ Windowed)'
  BY WindowedStep, CrossedStays DEF Always, EmailTypeOK
<1> QED
  BY <1>1, <1>2, AlwaysTrue, UncrossedTrue, PTL DEF EmailSpec

\* When no request outlives its window, one email at most is created for a
\* manifest up to a crossing, whatever is replayed.
THEOREM OneEmail == ASSUME NoStall PROVE EmailSpec => [](crossed \/ AtMostOneEmail)
<1>1. Windowed => AtMostOneEmail
  BY DEF Windowed, OneAtMost, AtMostOneEmail
<1> QED
  BY <1>1, WindowedTrue, PTL

-----------------------------------------------------------------------------
(* The promise.                                                            *)

LEMMA NetworkKept ==
  ASSUME Always, NEW a \in RowIds, NEW r, r.network = rows[a].network, rows' = [rows EXCEPT ![a] = r]
  PROVE  Announced' = Announced
<1>1. rows'[a] = r /\ \A b \in RowIds : b # a => rows'[b] = rows[b]
  BY DEF Always, EmailTypeOK
<1>2. \A b \in RowIds : rows'[b].network = rows[b].network
  BY <1>1
<1> QED
  BY <1>2 DEF Announced

\* What a step says of the manifest: nothing, that its contact is announced,
\* that it was made, or that it is settled.
Unmoved == UNCHANGED <<emails, sentEvents>> /\ Announced' = Announced
Announces == UNCHANGED <<emails, sentEvents>> /\ sentEvents = 0 /\ Announced'
Contacts == UNCHANGED <<rows, sentEvents>> /\ emails = 0 /\ emails' = 1 /\ Announced
Settling == UNCHANGED emails /\ Announced' = Announced /\ sentEvents' >= sentEvents

LEMMA DispatcherMoves ==
  ASSUME Always, Uncrossed, NEW p \in Dispatchers, DispatcherStep(p) PROVE Unmoved \/ Announces \/ Settling
<1>1. ASSUME NEW a \in RowIds, Claim(p, a) PROVE Unmoved
  <2> DEFINE r == [NoRow EXCEPT !.status = "CLAIMED", !.open = TRUE]
  <2>1. r.network = rows[a].network
    <3>1. ~r.network /\ r.network \in BOOLEAN
      BY DEF NoRow
    <3>2. rows[a] \in Row /\ ~rows[a].network
      BY <1>1 DEF Claim, Available, Always, EmailTypeOK, RowsInOrder
    <3> QED
      BY <3>1, <3>2 DEF Row
  <2>2. rows' = [rows EXCEPT ![a] = r] /\ UNCHANGED <<emails, sentEvents>>
    BY <1>1 DEF Claim, providerVars
  <2> HIDE DEF r
  <2> QED
    BY <2>1, <2>2, NetworkKept DEF Unmoved
<1>2. ASSUME MarkNetwork(p) PROVE Announces
  <2>1. proc[p].pc = "claimed" /\ UNCHANGED <<emails, sentEvents>>
    BY <1>2 DEF MarkNetwork, In, providerVars
  <2>2. proc[p].row \in RowIds /\ rows[proc[p].row].status = "CLAIMED"
    BY <2>1, AloneAtWork DEF Active
  <2>3. rows'[proc[p].row].network
    BY <1>2, <2>2 DEF MarkNetwork, Always, EmailTypeOK, Row
  <2>4. emails = 0
    BY <2>1 DEF Uncrossed, FirstRequest, NothingDone
  <2>5. sentEvents = 0
    BY <2>4 DEF Always, EmailTypeOK, SentOnce
  <2> QED
    BY <2>1, <2>2, <2>3, <2>5 DEF Announces, Announced
<1>3. ASSUME File(p) PROVE Settling
  <2>1. proc[p].pc = "answered" /\ UNCHANGED emails /\ sentEvents' >= sentEvents
    BY <1>3 DEF File, In, providerVars, Always, EmailTypeOK
  <2>2. proc[p].row \in RowIds /\ rows[proc[p].row].status = "CLAIMED"
    BY <2>1, AloneAtWork DEF Active
  <2> DEFINE r == Filed(rows[proc[p].row], proc[p].outcome)
  <2>3. r.network = rows[proc[p].row].network
    BY <2>2 DEF Filed, Always, EmailTypeOK, Row
  <2>4. rows' = [rows EXCEPT ![proc[p].row] = r] \/ rows' = rows
    BY <1>3, <2>2 DEF File
  <2> HIDE DEF r
  <2>5. Announced' = Announced
    <3>1. CASE rows' = rows
      BY <3>1 DEF Announced
    <3> QED
      BY <2>2, <2>3, <2>4, <3>1, NetworkKept
  <2> QED
    BY <2>1, <2>5 DEF Settling
<1>4. (Send(p) \/ Receive(p)) => Unmoved
  BY DEF Send, Receive, Unmoved, tableVars, providerVars, Announced
<1> QED
  BY <1>1, <1>2, <1>3, <1>4 DEF DispatcherStep

LEMMA ReconcilerMoves ==
  ASSUME Always, Uncrossed, NEW p \in Reconcilers, ReconcilerStep(p) PROVE Unmoved \/ Settling
<1>1. ASSUME Confirm(p) PROVE Settling
  <2>1. Active(p) /\ proc[p].pc = "confirming" /\ UNCHANGED emails /\ sentEvents' >= sentEvents
    BY <1>1 DEF Confirm, In, Active, providerVars, Always, EmailTypeOK
  <2>2. proc[p].row \in RowIds
    BY <2>1, ReconcilerAtWork
  <2> DEFINE r == IF rows[proc[p].row].status \in {"CLAIMED", "AMBIGUOUS"}
                  THEN Filed(rows[proc[p].row], "SENT") ELSE rows[proc[p].row]
  <2>3. r.network = rows[proc[p].row].network
    BY <2>2 DEF Filed, Always, EmailTypeOK, Row
  <2>4. rows' = [rows EXCEPT ![proc[p].row] = r] \/ rows' = rows
    BY <1>1, <2>2 DEF Confirm
  <2> HIDE DEF r
  <2>5. Announced' = Announced
    <3>1. CASE rows' = rows
      BY <3>1 DEF Announced
    <3> QED
      BY <2>2, <2>3, <2>4, <3>1, NetworkKept
  <2> QED
    BY <2>1, <2>5 DEF Settling
<1>2. (Reconcile(p) \/ Retrieve(p) \/ Send(p) \/ Receive(p) \/ JudgeReplay(p)) => Unmoved
  BY DEF Reconcile, Retrieve, Send, Receive, JudgeReplay, Unmoved, tableVars, providerVars, Announced
<1> QED
  BY <1>1, <1>2 DEF ReconcilerStep

LEMMA OthersMove ==
  ASSUME Always, Uncrossed, Windowed, ProviderStep \/ WorldStep \/ UNCHANGED emailVars PROVE Unmoved \/ Contacts
<1>1. ASSUME NEW n \in PostIds, Accept(n) PROVE Contacts
  <2>1. posts[n] = "processing" /\ emails = 0
    BY <1>1 DEF Accept, Always, KeyOK, Windowed, OneAtMost
  <2>2. Announced
    BY <2>1 DEF Uncrossed, PostsAnnounced
  <2> QED
    BY <1>1, <2>1, <2>2 DEF Accept, Contacts, tableVars
<1>2. ASSUME NEW n \in PostIds, Arrive(n) \/ Reject(n) \/ Lose(n) PROVE Unmoved
  BY <1>2 DEF Arrive, Reject, Lose, Unmoved, tableVars, Announced
<1>3. (Forget \/ UNCHANGED emailVars) => Unmoved
  BY DEF Forget, Unmoved, tableVars, emailVars, Announced
<1>4. (Supersede \/ \E p \in Procs : Crash(p)) => Unmoved
  BY DEF Supersede, Crash, Unmoved, tableVars, providerVars, Announced
<1>5. ASSUME NEW a \in RowIds, NEW r, r.network = rows[a].network, rows' = [rows EXCEPT ![a] = r],
             UNCHANGED <<emails, sentEvents>>
      PROVE  Unmoved
  BY <1>5, NetworkKept DEF Unmoved
<1>6. ASSUME NEW a \in RowIds, WindowCloses(a) \/ WriteReceipt(a) PROVE Unmoved
  <2>1. UNCHANGED <<emails, sentEvents>>
    BY <1>6 DEF WindowCloses, WriteReceipt, providerVars
  <2>2. \A x : /\ [rows[a] EXCEPT !.open = x].network = rows[a].network
               /\ [rows[a] EXCEPT !.receipt = x].network = rows[a].network
    BY DEF Always, EmailTypeOK, Row
  <2>3. CASE rows' = [rows EXCEPT ![a] = [rows[a] EXCEPT !.open = FALSE]]
    BY <1>5, <2>1, <2>2, <2>3
  <2>4. CASE rows' = [rows EXCEPT ![a] = [rows[a] EXCEPT !.receipt = TRUE]]
    BY <1>5, <2>1, <2>2, <2>4
  <2> QED
    BY <1>6, <2>3, <2>4 DEF WindowCloses, WriteReceipt
<1> QED
  BY <1>1, <1>2, <1>3, <1>4, <1>6 DEF ProviderStep, WorldStep

\* The register's story of the manifest moves as SendOnce lets it.
LEMMA StoryStep ==
  ASSUME Always, Uncrossed, Windowed, Always', Windowed', [EmailNext]_emailVars
  PROVE  \/ EmailStory' = EmailStory
         \/ Promise!Announce(EmailStory, EmailStory')
         \/ Promise!Contact(EmailStory, EmailStory')
         \/ Promise!Settle(EmailStory, EmailStory')
<1>1. Unmoved \/ Announces \/ Contacts \/ Settling
  BY DispatcherMoves, ReconcilerMoves, OthersMove DEF EmailNext
<1> DEFINE out == IF sentEvents = 0 THEN "none" ELSE "SENT"
<1>2. /\ sentEvents \in {0, 1} /\ sentEvents' \in {0, 1}
      /\ sentEvents' <= emails' /\ emails' \in {0, 1}
      /\ Announced \in BOOLEAN /\ Announced' \in BOOLEAN
  BY DEF Always, EmailTypeOK, SentOnce, Windowed, OneAtMost, Announced
<1>3. EmailStory = [announced |-> Announced, contacts |-> emails, outcome |-> out]
  BY DEF EmailStory
<1>4. EmailStory' = [announced |-> Announced', contacts |-> emails', outcome |-> out']
  BY DEF EmailStory
<1>5. \A x : /\ [EmailStory EXCEPT !.announced = x] = [announced |-> x, contacts |-> emails, outcome |-> out]
             /\ [EmailStory EXCEPT !.contacts = x] = [announced |-> Announced, contacts |-> x, outcome |-> out]
             /\ [EmailStory EXCEPT !.outcome = x] = [announced |-> Announced, contacts |-> emails, outcome |-> x]
  BY <1>3
<1>6. /\ EmailStory.announced = Announced /\ EmailStory.contacts = emails /\ EmailStory.outcome = out
  BY <1>3
<1>7. CASE Unmoved
  <2>1. out' = out /\ emails' = emails /\ Announced' = Announced
    BY <1>7 DEF Unmoved
  <2> HIDE DEF out
  <2> QED
    BY <1>3, <1>4, <2>1
<1>8. CASE Announces
  <2>1. out = "none" /\ out' = "none" /\ emails' = emails /\ Announced' = TRUE
    BY <1>2, <1>8 DEF Announces
  <2>2. CASE Announced
    <3>1. Announced = TRUE
      BY <1>2, <2>2
    <3> HIDE DEF out
    <3> QED
      BY <1>3, <1>4, <2>1, <3>1
  <2>3. CASE ~Announced
    <3> HIDE DEF out
    <3> QED
      BY <1>4, <1>5, <1>6, <2>1, <2>3 DEF Promise!Announce
  <2> QED
    BY <2>2, <2>3
<1>9. CASE Contacts
  <2>1. out' = out /\ emails = 0 /\ emails' = 1 /\ Announced' = Announced /\ Announced
    BY <1>9 DEF Contacts, Announced
  <2> HIDE DEF out
  <2> QED
    BY <1>4, <1>5, <1>6, <2>1 DEF Promise!Contact
<1>10. CASE Settling
  <2>1. emails' = emails /\ Announced' = Announced
    BY <1>10 DEF Settling
  <2>2. CASE out' = out
    <3> HIDE DEF out
    <3> QED
      BY <1>3, <1>4, <2>1, <2>2
  <2>3. CASE sentEvents = 0 /\ sentEvents' = 1
    <3>1. out = "none" /\ out' = "SENT" /\ emails = 1
      BY <1>2, <2>1, <2>3
    <3>2. Promise!Settles(EmailStory, "SENT") /\ "SENT" \in Promise!Outcomes
      BY <1>6, <3>1 DEF Promise!Settles, Promise!Outcomes
    <3> HIDE DEF out
    <3> QED
      BY <1>4, <1>5, <1>6, <2>1, <3>1, <3>2 DEF Promise!Settle
  <2>4. CASE sentEvents = 1 /\ sentEvents' = 0
    BY <1>10, <2>4 DEF Settling
  <2> QED
    BY <1>2, <2>2, <2>3, <2>4
<1> QED
  BY <1>1, <1>7, <1>8, <1>9, <1>10

\* When no request outlives its window, and up to a crossing, a manifest is
\* announced before the provider is called, contacted once at most and settled
\* once: the email path implements SendOnce.
THEOREM EmailPromise == ASSUME NoStall PROVE EmailSpec => EmailKeepsItsPromise
<1>1. EmailInit => Promise!Init
  <2> SUFFICES ASSUME EmailInit PROVE EmailStory = Promise!Untold
    BY DEF Promise!Init
  <2>1. ~Announced
    BY DEF EmailInit, Announced, NoRow
  <2>2. emails = 0 /\ sentEvents = 0 /\ Announced = FALSE
    BY <2>1 DEF EmailInit, Announced
  <2> QED
    BY <2>2 DEF EmailStory, Promise!Untold
<1>2. /\ Always /\ (crossed \/ Uncrossed) /\ (crossed \/ Windowed)
      /\ Always' /\ (crossed \/ Windowed)' /\ [EmailNext]_emailVars
      => [crossed' \/ Promise!Next]_EmailStory
  <2> SUFFICES ASSUME /\ Always /\ (crossed \/ Uncrossed) /\ (crossed \/ Windowed)
                      /\ Always' /\ (crossed \/ Windowed)' /\ [EmailNext]_emailVars
                      /\ ~crossed'
               PROVE  Promise!Next
    OBVIOUS
  <2>1. ~crossed
    BY CrossedStays DEF Always, EmailTypeOK
  <2> QED
    BY <2>1, StoryStep DEF Promise!Next
<1> QED
  BY <1>1, <1>2, AlwaysTrue, UncrossedTrue, WindowedTrue, PTL DEF EmailSpec, EmailKeepsItsPromise

=============================================================================
