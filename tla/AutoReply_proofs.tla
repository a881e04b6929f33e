-------------------------- MODULE AutoReply_proofs --------------------------
(***************************************************************************)
(* One message gets one answer at most, announced before it is made and    *)
(* settled once; what the register says of it is what the trace says; and  *)
(* a plan that is over stays over - for any number of messages, analyses,  *)
(* runtimes and operators, whatever leases run out and whoever dies.       *)
(*                                                                         *)
(* The argument: one plan at most is live, and once a plan of a message    *)
(* bears the mark, no other plan of that message is live or will be.  So   *)
(* the worker that sets the mark is alone, from there to the verdict, in   *)
(* answering the message - even after its lease ran out and its plan was   *)
(* closed by another - and the facts it goes by stay true.                 *)
(***************************************************************************)
EXTENDS AutoReply, TLAPS

\* What was received, in which order.
InboxOK ==
    /\ \A m \in Messages : m \in Arrived => 1..(m - 1) \subseteq Arrived
    /\ \A m \in Messages : instant[m] <= m /\ instant[m] <= LatestInboundAt
    /\ newest # 0 => newest \in Arrived
    /\ \A m \in Messages : reading[m].decision # "none" => reading[m].version \in 1..MaxReadings

InboxTyped ==
    /\ instant \in [Messages -> 0..MaxMessages]
    /\ newest \in 0..MaxMessages
    /\ reading \in [Messages -> Reading]
    /\ closed \in BOOLEAN
    /\ frontier \in 0..(MaxMessages + 1)

\* No two plans of one message bear the mark, and one that is not the marked one
\* is not live; a live plan knew of no message after its own.
MarkedAlone ==
    \A j, k \in PlanKey : j.msg = k.msg /\ plans[j].effect /\ (plans[k].effect \/ Live(k)) => j = k

LiveIsFresh == \A k \in PlanKey : Live(k) => k.msg \in Arrived /\ plans[k].mark = instant[k.msg]

PlansOK ==
    /\ plans \in [PlanKey -> Plan]
    /\ \A k \in PlanKey : PlanAccepted(plans[k])
    /\ OneLive
    /\ MarkedAlone
    /\ LiveIsFresh

\* What was done, and what is written of it.
EffectsOK ==
    /\ trace \in [PlanKey -> {"none", "SENT", "FAILED", "AMBIGUOUS"}]
    /\ clicks \in [Messages -> 0..1]
    /\ \A m \in Messages : clicks[m] = 1 => Attempted(m)
    /\ TraceBearsOutPlan

\* From the claim to the end, a worker has a plan in hand, of a message received.
Carrying == {"claimed", "hook", "gated", "cleared", "reserved", "clicked", "judged", "recorded"}

EffectVerdicts == {"SENT", "FAILED", "AMBIGUOUS"}

Key(r) == [msg |-> r.msg, reading |-> r.reading]

\* The worker that reserved the effect, until it forgets it.
Answering(r) == \/ r.pc \in {"reserved", "clicked"}
                \/ r.pc \in {"judged", "recorded"} /\ r.verdict \in EffectVerdicts

Knows(r) ==
    /\ r.pc \in {"selected", "assessed"} => r.msg \in Arrived
    /\ r.pc = "assessed" =>
         r.reading \in 1..MaxReadings /\ (r.decision = "ELIGIBLE" => r.mark = instant[r.msg])
    /\ r.pc \in Carrying => Key(r) \in PlanKey /\ r.msg \in Arrived /\ r.mark = instant[r.msg]
    /\ r.pc \in {"judged", "recorded"} => r.verdict # "none"

Answers(r) ==
    Answering(r) =>
        /\ plans[Key(r)].effect
        /\ plans[Key(r)].status \notin {"SENT", "FAILED"}
        /\ trace[Key(r)] = IF r.pc = "recorded" THEN r.verdict ELSE "none"
        /\ r.pc = "reserved" => clicks[r.msg] = 0
        /\ r.pc = "clicked" \/ (r.pc \in {"judged", "recorded"} /\ r.verdict \in {"SENT", "FAILED"})
             => clicks[r.msg] = 1

\* One worker at most is answering a message.
OneAnswers ==
    \A v, w \in Workers :
        Answering(work[v]) /\ Answering(work[w]) /\ work[v].msg = work[w].msg => v = w

WorkersOK ==
    /\ work \in [Workers -> Work]
    /\ \A w \in Workers : Knows(work[w]) /\ Answers(work[w])
    /\ OneAnswers

ReplyInv == InboxTyped /\ InboxOK /\ PlansOK /\ EffectsOK /\ WorkersOK

\* A plan that is over is not written any more; the mark is set on one that is held,
\* and never taken off.
PlansMove ==
    \A k \in PlanKey :
        /\ plans[k].status \in TerminalPlanStatuses => plans'[k] = plans[k]
        /\ \/ plans'[k].effect = plans[k].effect
           \/ ~plans[k].effect /\ plans'[k].effect /\ plans'[k].status = "CLAIMED"

-----------------------------------------------------------------------------
(* The statements on the plans *)

LEMMA RowsRewritten ==
  ASSUME NEW p \in Plan
  PROVE  /\ \A s \in {"PLANNED", "SKIPPED", "SUPERSEDED", "CANCELLED", "BLOCKED", "FAILED", "SENT", "AMBIGUOUS"} :
              /\ Unclaimed(p, s) \in Plan
              /\ Unclaimed(p, s).status = s /\ Unclaimed(p, s).effect = p.effect
              /\ Unclaimed(p, s).mark = p.mark
              /\ (s \in {"SENT", "AMBIGUOUS"} => p.effect) => PlanAccepted(Unclaimed(p, s))
         /\ RecoveredPlan(p) \in Plan
         /\ RecoveredPlan(p).effect = p.effect /\ RecoveredPlan(p).mark = p.mark
         /\ RecoveredPlan(p).status = IF p.effect THEN "AMBIGUOUS" ELSE "PLANNED"
         /\ PlanAccepted(RecoveredPlan(p))
  BY DEF Plan, Unclaimed, RecoveredPlan, PlanAccepted, LivePlanStatuses, TerminalPlanStatuses

\* A statement that marks no plan and says SENT or FAILED of none.
QuietPlans ==
    \A k \in PlanKey :
        /\ plans'[k].effect = plans[k].effect
        /\ plans'[k].status \in {"SENT", "FAILED"} => plans'[k].status = plans[k].status
        /\ plans[k].status \in {"SENT", "FAILED"} => plans'[k].status = plans[k].status

\* A plan that is live stays so or not; none becomes live.
NoNewLive ==
    \A k \in PlanKey : Live(k)' => Live(k) /\ plans'[k].mark = plans[k].mark

LEMMA NoNewLiveKeeps ==
  ASSUME PlansOK, plans' \in [PlanKey -> Plan], \A k \in PlanKey : PlanAccepted(plans'[k]),
         \A k \in PlanKey : plans'[k].effect = plans[k].effect,
         NoNewLive, UNCHANGED instant
  PROVE  PlansOK'
<1>1. (\A k \in PlanKey : PlanAccepted(plans[k]))'
  BY DEF PlanAccepted
<1>2. OneLive'
  BY DEF PlansOK, OneLive, NoNewLive
<1>3. MarkedAlone'
  BY DEF PlansOK, MarkedAlone, NoNewLive
<1>4. LiveIsFresh'
  BY DEF PlansOK, LiveIsFresh, NoNewLive, Arrived
<1> QED
  BY <1>1, <1>2, <1>3, <1>4 DEF PlansOK

LEMMA RecordKeeps ==
  ASSUME PlansOK, NEW k \in PlanKey, NEW decision \in {"ELIGIBLE", "ESCALATE", "STOP", "none"},
         NEW mark \in 0..MaxMessages, k.msg \in Arrived,
         decision = "ELIGIBLE" => mark = instant[k.msg],
         RecordPlan(k, decision, mark), UNCHANGED instant
  PROVE  PlansOK' /\ QuietPlans /\ PlansMove
<1>1. CASE AlreadyActed(k)
  BY <1>1 DEF RecordPlan, PlansOK, OneLive, MarkedAlone, LiveIsFresh, Live, PlanAccepted, QuietPlans, PlansMove,
              Arrived
<1>2. CASE ~AlreadyActed(k)
  <2>1. plans' = Recorded(k, decision, mark)
    BY <1>2 DEF RecordPlan
  <2>2. ASSUME NEW j \in PlanKey
        PROVE  /\ Replaceable(j, k) => plans'[j] = Unclaimed(plans[j], "SUPERSEDED")
               /\ ~Replaceable(j, k) /\ ~(j = k /\ plans[k].status = "NONE") => plans'[j] = plans[j]
    <3> DEFINE first == [NoPlan EXCEPT !.status = StatusFor(decision), !.mark = mark]
    <3>1. plans'[j] = CASE Replaceable(j, k) -> Unclaimed(plans[j], "SUPERSEDED")
                        [] j = k /\ plans[k].status = "NONE" -> first
                        [] OTHER -> plans[j]
      BY <2>1 DEF Recorded
    <3> HIDE DEF first
    <3>2. j = k => ~Replaceable(j, k)
      BY DEF Replaceable
    <3> QED
      BY <3>1, <3>2
  <2> DEFINE new == [NoPlan EXCEPT !.status = StatusFor(decision), !.mark = mark]
  <2>3. /\ new \in Plan /\ PlanAccepted(new) /\ ~new.effect /\ new.mark = mark
        /\ new.status \in {"PLANNED", "BLOCKED", "CANCELLED"}
        /\ new.status = "PLANNED" => decision = "ELIGIBLE"
    BY DEF NoPlan, StatusFor, Plan, PlanAccepted, LivePlanStatuses, TerminalPlanStatuses
  <2>4. plans[k].status = "NONE" => plans'[k] = new
    BY <2>1 DEF Recorded, Replaceable, Live, LivePlanStatuses
  <2> HIDE DEF new
  <2>5. ASSUME NEW j \in PlanKey
        PROVE  plans'[j] \in Plan /\ PlanAccepted(plans'[j])
    BY <2>2, <2>3, <2>4, RowsRewritten DEF PlansOK, Replaceable
  <2>6. plans' \in [PlanKey -> Plan] /\ \A j \in PlanKey : PlanAccepted(plans'[j])
    <3>1. plans' = [j \in PlanKey |-> plans'[j]]
      BY <2>1 DEF Recorded
    <3> QED
      BY <2>5, <3>1
  <2>7. ~plans[k].effect
    BY <1>2 DEF AlreadyActed, Attempted
  <2>8. \A j \in PlanKey : plans'[j].effect = plans[j].effect
    <3>1. \A j \in PlanKey : plans[j] \in Plan /\ plans[j].effect \in BOOLEAN /\ new.effect \in BOOLEAN
      BY <2>3 DEF PlansOK, Plan
    <3>2. ASSUME NEW j \in PlanKey, Replaceable(j, k) PROVE plans'[j].effect = plans[j].effect
      BY <2>2, <3>1, <3>2, RowsRewritten
    <3>3. plans[k].status = "NONE" => plans'[k].effect = plans[k].effect
      BY <2>3, <2>4, <2>7, <3>1
    <3> QED
      BY <2>2, <3>2, <3>3
  <2>9. QuietPlans
    BY <2>2, <2>3, <2>4, <2>8, RowsRewritten DEF QuietPlans, Replaceable, Live, LivePlanStatuses, PlansOK
  <2>10. PlansMove
    BY <2>2, <2>8 DEF PlansMove, Replaceable, Live, LivePlanStatuses, TerminalPlanStatuses
  <2>11. \A j \in PlanKey : j # k /\ Live(j)' => Live(j) /\ plans'[j] = plans[j]
    BY <2>2, RowsRewritten DEF Live, LivePlanStatuses, PlansOK
  <2>12. CASE plans[k].status = "NONE" /\ decision = "ELIGIBLE"
    <3>1. \A j \in PlanKey : j # k => ~Live(j)'
      <4>1. ASSUME NEW j \in PlanKey, j # k, Live(j)' PROVE FALSE
        <5>1. Live(j) /\ plans'[j] = plans[j]
          BY <2>11, <4>1
        <5>2. ~plans[j].effect
          BY <1>2, <2>12, <4>1, <5>1 DEF RecordPlan, RecordRaises
        <5>3. plans'[j] = Unclaimed(plans[j], "SUPERSEDED")
          BY <2>2, <4>1, <5>1, <5>2 DEF Replaceable
        <5>4. plans'[j].status = "SUPERSEDED"
          BY <5>3, RowsRewritten DEF PlansOK
        <5> QED
          BY <4>1, <5>4 DEF Live, LivePlanStatuses
      <4> QED
        BY <4>1
    <3>2. OneLive'
      BY <3>1 DEF OneLive
    <3>3. MarkedAlone'
      BY <1>2, <2>8, <3>1 DEF MarkedAlone, PlansOK, AlreadyActed, Attempted
    <3>4. LiveIsFresh'
      BY <2>12, <2>3, <2>4, <3>1 DEF LiveIsFresh, Arrived
    <3>5. (\A j \in PlanKey : PlanAccepted(plans[j]))'
      BY <2>6 DEF PlanAccepted
    <3> QED
      BY <2>6, <2>9, <2>10, <3>2, <3>3, <3>4, <3>5 DEF PlansOK
  <2>13. CASE ~(plans[k].status = "NONE" /\ decision = "ELIGIBLE")
    <3>1. Live(k)' => plans'[k] = plans[k]
      BY <2>2, <2>3, <2>4, <2>13, RowsRewritten DEF Live, LivePlanStatuses, PlansOK
    <3>2. NoNewLive
      BY <2>11, <3>1 DEF NoNewLive, Live
    <3> QED
      BY <2>6, <2>8, <2>9, <2>10, <3>2, NoNewLiveKeeps
  <2> QED
    BY <2>12, <2>13
<1> QED
  BY <1>1, <1>2

LEMMA RecoverKeeps ==
  ASSUME PlansOK, RecoverExpiredLeases, UNCHANGED instant
  PROVE  PlansOK' /\ QuietPlans /\ PlansMove
<1>1. ASSUME NEW k \in PlanKey
      PROVE  /\ plans[k].lease = "expired" => plans'[k] = RecoveredPlan(plans[k]) /\ plans[k].status = "CLAIMED"
             /\ plans[k].lease # "expired" => plans'[k] = plans[k]
  BY DEF RecoverExpiredLeases, PlansOK, PlanAccepted
<1>2. plans' \in [PlanKey -> Plan]
  BY RowsRewritten DEF RecoverExpiredLeases, PlansOK
<1>3. /\ \A k \in PlanKey : PlanAccepted(plans'[k])
      /\ \A k \in PlanKey : plans'[k].effect = plans[k].effect
  BY <1>1, RowsRewritten DEF PlansOK
<1>4. NoNewLive
  BY <1>1, RowsRewritten DEF NoNewLive, PlansOK, Live, LivePlanStatuses
<1>5. QuietPlans
  BY <1>1, <1>3, RowsRewritten DEF QuietPlans, PlansOK
<1>6. PlansMove
  BY <1>1, <1>3 DEF PlansMove, TerminalPlanStatuses
<1> QED
  BY <1>2, <1>3, <1>4, <1>5, <1>6, NoNewLiveKeeps

\* One row is written, and what is written keeps the mark and is live only if the
\* row was.
LEMMA OneRowKeeps ==
  ASSUME PlansOK, NEW k \in PlanKey, NEW p \in Plan, PlanAccepted(p),
         plans' = [plans EXCEPT ![k] = p],
         p.effect = plans[k].effect, p.mark = plans[k].mark,
         p.status \in LivePlanStatuses => Live(k),
         plans[k].status \notin TerminalPlanStatuses \/ p = plans[k],
         UNCHANGED instant
  PROVE  PlansOK' /\ PlansMove /\ (p.status \notin {"SENT", "FAILED"} => QuietPlans)
<1>1. /\ plans' \in [PlanKey -> Plan]
      /\ \A j \in PlanKey : plans'[j] = IF j = k THEN p ELSE plans[j]
  BY DEF PlansOK
<1>2. /\ \A j \in PlanKey : PlanAccepted(plans'[j])
      /\ \A j \in PlanKey : plans'[j].effect = plans[j].effect
  BY <1>1 DEF PlansOK
<1>3. NoNewLive
  BY <1>1 DEF NoNewLive, Live
<1>4. PlansMove
  BY <1>1, <1>2 DEF PlansMove
<1>5. p.status \notin {"SENT", "FAILED"} => QuietPlans
  BY <1>1, <1>2 DEF QuietPlans, TerminalPlanStatuses
<1> QED
  BY <1>1, <1>2, <1>3, <1>4, <1>5, NoNewLiveKeeps

LEMMA ClaimKeeps ==
  ASSUME PlansOK, NEW k \in PlanKey, NEW w \in Workers, ClaimPlan(k, w), UNCHANGED instant
  PROVE  PlansOK' /\ QuietPlans /\ PlansMove
<1> DEFINE p == [plans[k] EXCEPT !.status = "CLAIMED", !.token = w, !.lease = "running"]
<1>0. plans[k] \in Plan /\ w # Nobody
  BY PlansAssumption DEF PlansOK
<1>1. p \in Plan /\ PlanAccepted(p)
  BY <1>0 DEF Plan, PlanAccepted, LivePlanStatuses
<1>2. plans' = [plans EXCEPT ![k] = p]
  BY DEF ClaimPlan, PlansOK
<1>3. p.effect = plans[k].effect /\ p.mark = plans[k].mark /\ p.status = "CLAIMED"
  BY <1>0 DEF Plan
<1>4. Live(k) /\ plans[k].status \notin TerminalPlanStatuses
  BY DEF ClaimPlan, CanClaimPlan, Live, ClaimablePlanStatuses, LivePlanStatuses, TerminalPlanStatuses
<1> HIDE DEF p
<1> QED
  BY <1>1, <1>2, <1>3, <1>4, OneRowKeeps

LEMMA ExpiryKeeps ==
  ASSUME PlansOK, NEW k \in PlanKey, LeaseExpires(k), UNCHANGED instant
  PROVE  PlansOK' /\ QuietPlans /\ PlansMove
<1> DEFINE p == [plans[k] EXCEPT !.lease = "expired"]
<1>0. plans[k] \in Plan /\ PlanAccepted(plans[k])
  BY DEF PlansOK
<1>1. p \in Plan /\ PlanAccepted(p)
  BY <1>0 DEF Plan, PlanAccepted, LeaseExpires
<1>2. plans' = [plans EXCEPT ![k] = p]
  BY DEF LeaseExpires, PlansOK
<1>3. p.effect = plans[k].effect /\ p.mark = plans[k].mark /\ p.status = plans[k].status
      /\ plans[k].status = "CLAIMED"
  BY <1>0 DEF Plan, PlanAccepted, LeaseExpires
<1>4. Live(k) /\ plans[k].status \notin TerminalPlanStatuses
  BY <1>3 DEF Live, LivePlanStatuses, TerminalPlanStatuses
<1> HIDE DEF p
<1> QED
  BY <1>1, <1>2, <1>3, <1>4, OneRowKeeps

LEMMA FinalizeKeeps ==
  ASSUME PlansOK, NEW k \in PlanKey, NEW w \in Workers,
         NEW status \in {"SENT", "FAILED", "AMBIGUOUS", "BLOCKED", "SKIPPED"},
         HoldsPlan(k, w), status \in {"SENT", "AMBIGUOUS"} => plans[k].effect,
         FinalizePlan(k, w, status), UNCHANGED instant
  PROVE  /\ PlansOK' /\ PlansMove /\ (status \notin {"SENT", "FAILED"} => QuietPlans)
         /\ plans' = [plans EXCEPT ![k] = Unclaimed(plans[k], status)]
<1> DEFINE p == Unclaimed(plans[k], status)
<1>0. plans[k] \in Plan
  BY DEF PlansOK
<1>1. /\ p \in Plan /\ PlanAccepted(p)
      /\ p.effect = plans[k].effect /\ p.mark = plans[k].mark /\ p.status = status
  BY <1>0, RowsRewritten
<1>2. plans' = [plans EXCEPT ![k] = p]
  BY DEF FinalizePlan
<1>3. Live(k) /\ plans[k].status \notin TerminalPlanStatuses
  BY DEF HoldsPlan, Live, LivePlanStatuses, TerminalPlanStatuses
<1> HIDE DEF p
<1>4. PlansOK' /\ PlansMove /\ (status \notin {"SENT", "FAILED"} => QuietPlans)
  BY <1>1, <1>2, <1>3, OneRowKeeps
<1> QED
  BY <1>2, <1>4 DEF p

\* The plan that gets the mark is live, so it is the only one of its message.
LEMMA ReserveKeeps ==
  ASSUME PlansOK, NEW k \in PlanKey, NEW w \in Workers, ReserveEffect(k, w), UNCHANGED instant
  PROVE  /\ PlansOK' /\ PlansMove
         /\ ~Attempted(k.msg)
         /\ plans'[k].effect /\ plans'[k].status = "CLAIMED" /\ plans[k].status = "CLAIMED"
         /\ \A j \in PlanKey : j # k => plans'[j] = plans[j]
<1>0. plans[k] \in Plan /\ PlanAccepted(plans[k]) /\ plans[k].status = "CLAIMED" /\ ~plans[k].effect /\ Live(k)
  BY DEF PlansOK, ReserveEffect, CanReserveEffect, HoldsPlan, Live, LivePlanStatuses
<1> DEFINE p == [plans[k] EXCEPT !.effect = TRUE]
<1>1. p \in Plan /\ PlanAccepted(p) /\ p.effect /\ p.status = "CLAIMED" /\ p.mark = plans[k].mark
  BY <1>0 DEF Plan, PlanAccepted
<1>2. plans' = [plans EXCEPT ![k] = p]
  BY DEF ReserveEffect, PlansOK
<1> HIDE DEF p
<1>3. /\ plans' \in [PlanKey -> Plan]
      /\ \A j \in PlanKey : plans'[j] = IF j = k THEN p ELSE plans[j]
  BY <1>1, <1>2 DEF PlansOK
<1>4. ~Attempted(k.msg)
  BY <1>0 DEF Attempted, PlansOK, MarkedAlone
<1>5. \A j \in PlanKey : Live(j)' <=> Live(j)
  BY <1>0, <1>1, <1>3 DEF Live, LivePlanStatuses
<1>6. OneLive'
  BY <1>5 DEF OneLive, PlansOK
<1>7. MarkedAlone'
  <2> SUFFICES ASSUME NEW i \in PlanKey, NEW j \in PlanKey, i.msg = j.msg, plans'[i].effect,
                      plans'[j].effect \/ Live(j)'
               PROVE  i = j
    BY DEF MarkedAlone
  <2>1. i # k => plans[i].effect
    BY <1>3
  <2>2. j # k => plans[j].effect \/ Live(j)
    BY <1>3, <1>5
  <2>3. CASE i = k /\ j # k
    <3>1. ~plans[j].effect /\ Live(j)
      BY <1>4, <2>2, <2>3 DEF Attempted
    <3> QED
      BY <1>0, <2>3, <3>1 DEF PlansOK, OneLive
  <2>4. CASE i # k /\ j = k
    BY <1>4, <2>1, <2>4 DEF Attempted
  <2>5. CASE i # k /\ j # k
    BY <2>1, <2>2, <2>5 DEF PlansOK, MarkedAlone
  <2> QED
    BY <2>3, <2>4, <2>5
<1>8. LiveIsFresh'
  BY <1>1, <1>3, <1>5 DEF LiveIsFresh, PlansOK, Arrived
<1>9. (\A j \in PlanKey : PlanAccepted(plans[j]))'
  BY <1>1, <1>3 DEF PlanAccepted, PlansOK
<1>10. PlansMove
  BY <1>0, <1>1, <1>3 DEF PlansMove, TerminalPlanStatuses
<1> QED
  BY <1>0, <1>1, <1>3, <1>4, <1>6, <1>7, <1>8, <1>9, <1>10 DEF PlansOK

-----------------------------------------------------------------------------
(* One worker takes a step *)

\* What a step does not disturb, it keeps.
LEMMA InboxStays ==
  ASSUME InboxTyped, InboxOK, UNCHANGED <<inboxVars, frontier>> PROVE InboxTyped' /\ InboxOK'
  BY DEF InboxTyped, InboxOK, inboxVars, Arrived, LatestInboundAt

LEMMA KnowsStays ==
  ASSUME UNCHANGED instant, NEW r, Knows(r) PROVE Knows(r)'
  BY DEF Knows, Arrived, Key

LEMMA AnsweringKey ==
  ASSUME NEW r, Knows(r), Answering(r) PROVE Key(r) \in PlanKey /\ r.msg \in Messages /\ Key(r).msg = r.msg
  BY DEF Knows, Answering, Carrying, Key, Arrived

LEMMA AnswersStays ==
  ASSUME NEW r, Knows(r), Answers(r), QuietPlans, UNCHANGED worldVars PROVE Answers(r)'
<1> SUFFICES ASSUME Answering(r) PROVE Answers(r)'
  BY DEF Answers, Answering
<1>1. Key(r) \in PlanKey
  BY AnsweringKey
<1> QED
  BY <1>1 DEF Answers, QuietPlans, worldVars, Answering, Key

LEMMA EffectsStay ==
  ASSUME PlansOK, EffectsOK, QuietPlans, UNCHANGED worldVars PROVE EffectsOK'
<1>1. \A m \in Messages : Attempted(m) => Attempted(m)'
  BY DEF Attempted, QuietPlans
<1>2. TraceBearsOutPlan'
  BY DEF EffectsOK, TraceBearsOutPlan, QuietPlans, worldVars
<1> QED
  BY <1>1, <1>2 DEF EffectsOK, worldVars

LEMMA OneWorkerMoves ==
  ASSUME WorkersOK, NEW w \in Workers, NEW r \in Work, work' = [work EXCEPT ![w] = r],
         Knows(r)', Answers(r)',
         \A v \in Workers \ {w} : Answering(work[v]) /\ Answering(r) => work[v].msg # r.msg,
         \A s \in Work : /\ Knows(s) /\ Answers(s)
                         /\ \E v \in Workers \ {w} : work[v] = s
                         => Knows(s)' /\ Answers(s)'
  PROVE  WorkersOK'
<1>1. work' \in [Workers -> Work] /\ work'[w] = r /\ \A v \in Workers \ {w} : work'[v] = work[v]
  BY DEF WorkersOK
<1>2. ASSUME NEW v \in Workers PROVE (Knows(work[v]) /\ Answers(work[v]))'
  <2>1. PICK s \in Work : s = work'[v]
    BY <1>1
  <2>2. Knows(s)' /\ Answers(s)'
    BY <1>1, <2>1 DEF WorkersOK
  <2> QED
    BY <2>1, <2>2
<1>3. OneAnswers'
  <2> SUFFICES ASSUME NEW u \in Workers, NEW v \in Workers,
                      Answering(work'[u]), Answering(work'[v]), work'[u].msg = work'[v].msg
               PROVE  u = v
    BY DEF OneAnswers
  <2> QED
    BY <1>1 DEF WorkersOK, OneAnswers
<1> QED
  BY <1>1, <1>2, <1>3 DEF WorkersOK

\* A step that contacts nobody and settles nothing.
LEMMA QuietStep ==
  ASSUME ReplyInv, PlansOK', QuietPlans, UNCHANGED <<inboxVars, frontier, worldVars>>,
         NEW w \in Workers, NEW r \in Work, work' = [work EXCEPT ![w] = r],
         Knows(r), Answers(r),
         Answering(r) => Answering(work[w]) /\ r.msg = work[w].msg
  PROVE  ReplyInv'
<1>1. UNCHANGED instant /\ UNCHANGED worldVars
  BY DEF inboxVars
<1>2. Knows(r)' /\ Answers(r)'
  BY <1>1, KnowsStays, AnswersStays
<1>3. \A s \in Work : Knows(s) /\ Answers(s) => Knows(s)' /\ Answers(s)'
  BY <1>1, KnowsStays, AnswersStays
<1>4. \A v \in Workers \ {w} : Answering(work[v]) /\ Answering(r) => work[v].msg # r.msg
  BY DEF ReplyInv, WorkersOK, OneAnswers
<1>5. WorkersOK'
  BY <1>2, <1>3, <1>4, OneWorkerMoves DEF ReplyInv
<1> QED
  BY <1>1, <1>5, EffectsStay, InboxStays DEF ReplyInv

LEMMA SamePlans ==
  ASSUME PlansOK, UNCHANGED <<plans, instant>> PROVE PlansOK' /\ QuietPlans /\ PlansMove
  BY DEF PlansOK, PlanAccepted, OneLive, MarkedAlone, LiveIsFresh, Live, Arrived, QuietPlans, PlansMove

LEMMA ComesToRest ==
  AtRest \in Work /\ Knows(AtRest) /\ ~Answering(AtRest) /\ Answers(AtRest)
<1>1. 0 \in 0..MaxMessages /\ 0 \in 0..MaxReadings
  BY PlansAssumption
<1> QED
  BY <1>1 DEF AtRest, Work, Knows, Answers, Answering, Steps, Verdicts, Carrying

LEMMA RestStep ==
  ASSUME ReplyInv, PlansOK', QuietPlans, UNCHANGED <<inboxVars, frontier, worldVars>>,
         NEW w \in Workers, Rest(w)
  PROVE  ReplyInv'
  BY ComesToRest, QuietStep DEF Rest

LEMMA Goes ==
  ASSUME WorkersOK, NEW w \in Workers, NEW step \in Steps, Goto(w, step)
  PROVE  \E r \in Work : /\ work' = [work EXCEPT ![w] = r]
                         /\ r.pc = step /\ r.msg = work[w].msg /\ r.reading = work[w].reading
                         /\ r.decision = work[w].decision /\ r.mark = work[w].mark
                         /\ r.verdict = work[w].verdict
<1> DEFINE r == [work[w] EXCEPT !.pc = step]
<1>1. work[w] \in Work
  BY DEF WorkersOK
<1>2. r \in Work /\ work' = [work EXCEPT ![w] = r]
  BY <1>1 DEF Work, Goto
<1> QED
  BY <1>1, <1>2 DEF Work

LEMMA Concludes ==
  ASSUME WorkersOK, NEW w \in Workers, NEW verdict \in Verdicts, Ends(w, verdict)
  PROVE  \E r \in Work : /\ work' = [work EXCEPT ![w] = r]
                         /\ r.pc = "judged" /\ r.msg = work[w].msg /\ r.reading = work[w].reading
                         /\ r.decision = work[w].decision /\ r.mark = work[w].mark
                         /\ r.verdict = verdict
<1> DEFINE r == [work[w] EXCEPT !.pc = "judged", !.verdict = verdict]
<1>1. work[w] \in Work
  BY DEF WorkersOK
<1>2. r \in Work
  BY <1>1 DEF Work, Steps
<1>3. work' = [work EXCEPT ![w] = r]
  BY DEF WorkersOK, Ends
<1> QED
  BY <1>1, <1>2, <1>3 DEF Work

LEMMA LatestIsLate ==
  ASSUME InboxTyped, InboxOK, NEW m \in Arrived
  PROVE  /\ m \in Messages /\ instant[m] \in 1..MaxMessages
         /\ LatestInboundAt \in 1..MaxMessages /\ instant[m] <= LatestInboundAt
         /\ ~NewerInboundExists(m) => LatestInboundAt = instant[m]
<1>1. m \in Messages /\ instant[m] \in 1..MaxMessages /\ instant[m] <= LatestInboundAt
  BY PlansAssumption DEF Arrived, Messages, InboxTyped, InboxOK
<1>2. LatestInboundAt \in 0..MaxMessages
  BY PlansAssumption DEF LatestInboundAt, InboxTyped, Messages
<1> QED
  BY <1>1, <1>2, PlansAssumption DEF NewerInboundExists

LEMMA SelectKeeps == ASSUME ReplyInv, NEW w \in Workers, Select(w) PROVE ReplyInv'
<1>1. PICK m \in Arrived : work' = [work EXCEPT ![w].pc = "selected", ![w].msg = m]
  BY DEF Select
<1> DEFINE r == [work[w] EXCEPT !.pc = "selected", !.msg = m]
<1>2. work[w] \in Work
  BY DEF ReplyInv, WorkersOK
<1>3. r \in Work /\ r.pc = "selected" /\ r.msg = m
  <2>1. m \in 0..MaxMessages
    BY PlansAssumption DEF Arrived, Messages
  <2> QED
    BY <1>2, <2>1 DEF Work, Steps
<1>4. work' = [work EXCEPT ![w] = r]
  BY <1>1 DEF ReplyInv, WorkersOK
<1> HIDE DEF r
<1>5. Knows(r) /\ ~Answering(r) /\ Answers(r)
  BY <1>3 DEF Knows, Answering, Answers, Carrying
<1> QED
  BY <1>3, <1>4, <1>5, QuietStep, SamePlans DEF Select, ReplyInv, inboxVars

LEMMA AssessKeeps == ASSUME ReplyInv, NEW w \in Workers, Assess(w) PROVE ReplyInv'
<1>0. PlansOK' /\ QuietPlans
  BY SamePlans DEF Assess, ReplyInv, inboxVars
<1>1. CASE Rest(w)
  BY <1>0, <1>1, RestStep DEF Assess
<1>2. ASSUME reading[work[w].msg].decision # "none",
             NEW decision \in Assessments(work[w].msg) \ {"SKIP"},
             work' = [work EXCEPT ![w].pc = "assessed", ![w].decision = decision,
                                  ![w].reading = reading[work[w].msg].version,
                                  ![w].mark = LatestInboundAt]
      PROVE  ReplyInv'
  <2>1. work[w] \in Work /\ work[w].msg \in Arrived
    BY DEF ReplyInv, WorkersOK, Assess, At, Knows
  <2>2. PICK m \in Messages : m = work[w].msg /\ m \in Arrived
    BY <2>1 DEF Arrived
  <2>3. reading[m] \in Reading /\ reading[m].version \in 1..MaxReadings
    BY <1>2, <2>2 DEF ReplyInv, InboxTyped, InboxOK
  <2>4. decision \in Decisions \cup {"none", "STOP"} /\ (decision = "ELIGIBLE" => LatestInboundAt = instant[m])
    <3>1. reading[m].decision \in Decisions
      BY <1>2, <2>2, <2>3 DEF Reading
    <3>2. closed => Assessments(m) = {"STOP"}
      BY DEF Assessments
    <3>3. ~closed /\ reading[m].decision = "ELIGIBLE" =>
            Assessments(m) = IF NewerInboundExists(m) THEN {"SKIP"} ELSE {"ELIGIBLE", "SKIP"}
      BY DEF Assessments
    <3>4. ~closed /\ reading[m].decision # "ELIGIBLE" => Assessments(m) = {reading[m].decision, "SKIP"}
      BY DEF Assessments
    <3> QED
      BY <1>2, <2>2, <3>1, <3>2, <3>3, <3>4, LatestIsLate DEF ReplyInv
  <2>5. PICK mark \in 0..MaxMessages : mark = LatestInboundAt
    BY <2>2, LatestIsLate, PlansAssumption DEF ReplyInv
  <2>6. PICK version \in 1..MaxReadings : version = reading[work[w].msg].version
    BY <2>2, <2>3
  <2> DEFINE r == [work[w] EXCEPT !.pc = "assessed", !.decision = decision, !.reading = version, !.mark = mark]
  <2>7. version \in 0..MaxReadings
    BY PlansAssumption
  <2>8. r \in Work /\ r.pc = "assessed" /\ r.msg = m /\ r.reading = version /\ r.decision = decision /\ r.mark = mark
    BY <2>1, <2>2, <2>4, <2>7 DEF Work, Steps
  <2>9. work' = [work EXCEPT ![w] = r]
    BY <1>2, <2>5, <2>6 DEF ReplyInv, WorkersOK
  <2> HIDE DEF r
  <2>10. Knows(r) /\ ~Answering(r) /\ Answers(r)
    BY <2>2, <2>4, <2>5, <2>8 DEF Knows, Answering, Answers, Carrying
  <2> QED
    BY <1>0, <2>8, <2>9, <2>10, QuietStep DEF Assess
<1> QED
  BY <1>1, <1>2 DEF Assess

\* A step that only changes what the worker is at.
LEMMA GoingKeeps ==
  ASSUME ReplyInv, PlansOK', QuietPlans, UNCHANGED <<inboxVars, frontier, worldVars>>,
         NEW w \in Workers,
         NEW step \in {"raised", "claiming", "hook", "gated", "cleared"}, Goto(w, step),
         step \in {"hook", "gated", "cleared"} => work[w].pc \in {"claimed", "hook", "gated"}
  PROVE  ReplyInv'
<1>1. step \in Steps
  BY DEF Steps
<1>2. PICK r \in Work : /\ work' = [work EXCEPT ![w] = r]
                        /\ r.pc = step /\ r.msg = work[w].msg /\ r.reading = work[w].reading
                        /\ r.mark = work[w].mark
  BY <1>1, Goes DEF ReplyInv
<1>3. Knows(work[w])
  BY DEF ReplyInv, WorkersOK
<1>4. Knows(r) /\ ~Answering(r) /\ Answers(r)
  BY <1>2, <1>3 DEF Knows, Answering, Answers, Carrying, Key
<1> QED
  BY <1>2, <1>4, QuietStep

\* The verdict of a step that did not reach the effect.
LEMMA RefusalKeeps ==
  ASSUME ReplyInv, NEW w \in Workers, NEW verdict \in {"SKIPPED", "BLOCKED"},
         work[w].pc \in Carrying, Ends(w, verdict), UNCHANGED <<plans, inboxVars, frontier, worldVars>>
  PROVE  ReplyInv'
<1>1. verdict \in Verdicts
  BY DEF Verdicts
<1>2. PICK r \in Work : /\ work' = [work EXCEPT ![w] = r]
                        /\ r.pc = "judged" /\ r.msg = work[w].msg /\ r.reading = work[w].reading
                        /\ r.mark = work[w].mark /\ r.verdict = verdict
  BY <1>1, Concludes DEF ReplyInv
<1>3. Knows(work[w])
  BY DEF ReplyInv, WorkersOK
<1>4. Knows(r) /\ ~Answering(r) /\ Answers(r)
  BY <1>2, <1>3 DEF Knows, Answering, Answers, Carrying, Key, EffectVerdicts
<1> QED
  BY <1>2, <1>4, QuietStep, SamePlans DEF ReplyInv, inboxVars

\* What is concluded of an effect that was reserved, or clicked.
LEMMA EffectVerdictKeeps ==
  ASSUME ReplyInv, NEW w \in Workers, NEW verdict \in EffectVerdicts,
         work[w].pc \in {"reserved", "clicked"}, work[w].pc = "reserved" => verdict = "AMBIGUOUS",
         Ends(w, verdict), UNCHANGED <<plans, inboxVars, frontier, worldVars>>
  PROVE  ReplyInv'
<1>1. verdict \in Verdicts
  BY DEF Verdicts, EffectVerdicts
<1>2. PICK r \in Work : /\ work' = [work EXCEPT ![w] = r]
                        /\ r.pc = "judged" /\ r.msg = work[w].msg /\ r.reading = work[w].reading
                        /\ r.mark = work[w].mark /\ r.verdict = verdict
  BY <1>1, Concludes DEF ReplyInv
<1>3. Knows(work[w]) /\ Answers(work[w]) /\ Answering(work[w])
  BY DEF ReplyInv, WorkersOK, Answering
<1>4. Knows(r)
  BY <1>2, <1>3 DEF Knows, Carrying, Key, EffectVerdicts
<1>5. Key(r) = Key(work[w])
  BY <1>2 DEF Key
<1>6. Answers(r)
  BY <1>2, <1>3, <1>5 DEF Answers, EffectVerdicts
<1> QED
  BY <1>2, <1>3, <1>4, <1>6, QuietStep, SamePlans DEF ReplyInv, inboxVars

LEMMA RecordIntentionKeeps ==
  ASSUME ReplyInv, NEW w \in Workers, RecordIntention(w) PROVE ReplyInv' /\ PlansMove
<1>0. work[w] \in Work /\ Knows(work[w]) /\ work[w].pc = "assessed"
  BY DEF ReplyInv, WorkersOK, RecordIntention, At
<1>1. PICK k \in PlanKey : k = KeyOf(w) /\ k.msg = work[w].msg /\ k.msg \in Arrived
  <2>1. work[w].msg \in Messages /\ work[w].msg \in Arrived /\ work[w].reading \in 1..MaxReadings
    BY <1>0 DEF Knows, Arrived
  <2>2. KeyOf(w) \in PlanKey /\ KeyOf(w).msg = work[w].msg
    BY <2>1 DEF KeyOf, PlanKey
  <2> QED
    BY <2>1, <2>2
<1>2. CASE Goto(w, "raised") /\ UNCHANGED plans
  BY <1>2, GoingKeeps, SamePlans DEF RecordIntention, ReplyInv, inboxVars
<1>3. CASE RecordPlan(k, work[w].decision, work[w].mark)
  <2>1. PICK decision \in Decisions \cup {"none", "STOP"} : decision = work[w].decision
    BY <1>0 DEF Work
  <2>2. PICK mark \in 0..MaxMessages : mark = work[w].mark
    BY <1>0 DEF Work
  <2>3. decision = "ELIGIBLE" => mark = instant[k.msg]
    BY <1>0, <1>1, <2>1, <2>2 DEF Knows
  <2>4. UNCHANGED instant /\ UNCHANGED <<inboxVars, frontier, worldVars>>
    BY DEF RecordIntention, inboxVars
  <2>5. PlansOK' /\ QuietPlans /\ PlansMove
    <3>1. RecordPlan(k, decision, mark) /\ PlansOK
      BY <1>3, <2>1, <2>2 DEF ReplyInv
    <3>2. decision \in {"ELIGIBLE", "ESCALATE", "STOP", "none"}
      BY ReplyAssumption
    <3> QED
      BY <1>1, <2>3, <2>4, <3>1, <3>2, RecordKeeps
  <2>6. CASE work' = [work EXCEPT ![w].pc = "executing", ![w].decision = "none", ![w].mark = 0]
    <3> DEFINE r == [work[w] EXCEPT !.pc = "executing", !.decision = "none", !.mark = 0]
    <3>1. 0 \in 0..MaxMessages
      BY PlansAssumption
    <3>2. r \in Work /\ r.pc = "executing"
      BY <1>0, <3>1 DEF Work, Steps
    <3>3. work' = [work EXCEPT ![w] = r]
      BY <2>6 DEF ReplyInv, WorkersOK
    <3> HIDE DEF r
    <3>4. Knows(r) /\ ~Answering(r) /\ Answers(r)
      BY <3>2 DEF Knows, Answering, Answers, Carrying
    <3> QED
      BY <2>4, <2>5, <3>2, <3>3, <3>4, QuietStep
  <2>7. CASE Rest(w)
    BY <2>4, <2>5, <2>7, RestStep
  <2> QED
    BY <1>3, <2>5, <2>6, <2>7, <1>2 DEF RecordIntention
<1> QED
  BY <1>1, <1>2, <1>3 DEF RecordIntention

LEMMA RecoveryKeeps ==
  ASSUME ReplyInv, NEW w \in Workers, Recover(w) PROVE ReplyInv' /\ PlansMove
<1>1. PlansOK' /\ QuietPlans /\ PlansMove
  BY RecoverKeeps DEF ReplyInv, Recover, inboxVars
<1> QED
  BY <1>1, GoingKeeps DEF Recover

LEMMA TakeKeeps ==
  ASSUME ReplyInv, NEW w \in Workers, Take(w) PROVE ReplyInv' /\ PlansMove
<1>1. CASE Rest(w) /\ UNCHANGED plans
  BY <1>1, RestStep, SamePlans DEF Take, ReplyInv, inboxVars
<1>2. ASSUME NEW k \in PlanKey, ClaimPlan(k, w),
             work' = [work EXCEPT ![w].pc = "claimed", ![w].msg = k.msg, ![w].reading = k.reading,
                                  ![w].mark = plans[k].mark]
      PROVE  ReplyInv' /\ PlansMove
  <2>1. PlansOK' /\ QuietPlans /\ PlansMove
    BY <1>2, ClaimKeeps DEF ReplyInv, Take, inboxVars
  <2>2. work[w] \in Work /\ plans[k] \in Plan
    BY DEF ReplyInv, WorkersOK, PlansOK
  <2>3. k.msg \in Arrived /\ plans[k].mark = instant[k.msg]
    <3>1. Live(k)
      BY <1>2 DEF ClaimPlan, CanClaimPlan, Live, ClaimablePlanStatuses, LivePlanStatuses
    <3> QED
      BY <3>1 DEF ReplyInv, PlansOK, LiveIsFresh
  <2>4. PICK mark \in 0..MaxMessages : mark = plans[k].mark
    BY <2>2 DEF Plan
  <2>5. PICK msg \in Messages : msg = k.msg
    BY DEF PlanKey
  <2>6. PICK version \in 1..MaxReadings : version = k.reading
    BY DEF PlanKey
  <2> DEFINE r == [work[w] EXCEPT !.pc = "claimed", !.msg = msg, !.reading = version, !.mark = mark]
  <2>7. msg \in 0..MaxMessages /\ version \in 0..MaxReadings
    BY PlansAssumption DEF Messages
  <2>8. r \in Work /\ r.pc = "claimed" /\ r.msg = msg /\ r.reading = version /\ r.mark = mark
    BY <2>2, <2>7 DEF Work, Steps
  <2>9. work' = [work EXCEPT ![w] = r]
    BY <1>2, <2>4, <2>5, <2>6 DEF ReplyInv, WorkersOK
  <2> HIDE DEF r
  <2>10. Key(r) \in PlanKey
    BY <2>8 DEF Key, PlanKey
  <2>11. Knows(r) /\ ~Answering(r) /\ Answers(r)
    BY <2>3, <2>4, <2>5, <2>8, <2>10 DEF Knows, Answering, Answers, Carrying
  <2> QED
    BY <2>1, <2>8, <2>9, <2>11, QuietStep DEF Take
<1> QED
  BY <1>1, <1>2 DEF Take

LEMMA LooksKeep ==
  ASSUME ReplyInv, NEW w \in Workers, Approach(w) \/ Gate(w) \/ Replay(w) PROVE ReplyInv'
<1>1. /\ work[w].pc \in {"claimed", "hook", "gated"}
      /\ UNCHANGED <<plans, inboxVars, frontier, worldVars>>
      /\ \/ Goto(w, "hook") \/ Goto(w, "gated") \/ Goto(w, "cleared")
         \/ Ends(w, "SKIPPED") \/ Ends(w, "BLOCKED")
  BY DEF Approach, Gate, Replay, Replayed, At
<1>2. PlansOK' /\ QuietPlans
  BY <1>1, SamePlans DEF ReplyInv, inboxVars
<1>3. work[w].pc \in Carrying
  BY <1>1 DEF Carrying
<1> QED
  BY <1>1, <1>2, <1>3, GoingKeeps, RefusalKeeps

\* The mark: nobody has answered this message, and nobody else will.
LEMMA ReserveStep ==
  ASSUME ReplyInv, NEW w \in Workers, Reserve(w) PROVE ReplyInv' /\ PlansMove
<1>0. work[w].pc = "cleared" /\ work[w].pc \in Carrying /\ UNCHANGED <<inboxVars, frontier, worldVars>>
  BY DEF Reserve, At, Carrying
<1>1. CASE Ends(w, "SKIPPED") /\ UNCHANGED plans
  BY <1>0, <1>1, RefusalKeeps, SamePlans DEF ReplyInv, inboxVars
<1>2. CASE ReserveEffect(KeyOf(w), w) /\ Goto(w, "reserved")
  <2>1. Knows(work[w])
    BY DEF ReplyInv, WorkersOK
  <2>2. PICK k \in PlanKey : k = KeyOf(w) /\ k = Key(work[w]) /\ k.msg = work[w].msg
    BY <1>0, <2>1 DEF Knows, KeyOf, Key
  <2>3. /\ PlansOK' /\ PlansMove
        /\ ~Attempted(k.msg)
        /\ plans'[k].effect /\ plans'[k].status = "CLAIMED" /\ plans[k].status = "CLAIMED"
        /\ \A j \in PlanKey : j # k => plans'[j] = plans[j]
    BY <1>0, <1>2, <2>2, ReserveKeeps DEF ReplyInv, inboxVars
  <2>4. PICK r \in Work : /\ work' = [work EXCEPT ![w] = r]
                          /\ r.pc = "reserved" /\ r.msg = work[w].msg /\ r.reading = work[w].reading
                          /\ r.mark = work[w].mark
    BY <1>2, Goes DEF ReplyInv, Steps
  <2>5. UNCHANGED instant /\ UNCHANGED <<trace, clicks>>
    BY <1>0 DEF inboxVars, worldVars
  <2>6. k.msg \in Messages /\ ~plans[k].effect
    BY <2>3 DEF PlanKey, Attempted
  <2>7. clicks[k.msg] = 0 /\ trace[k] = "none"
    BY <2>3, <2>6 DEF ReplyInv, EffectsOK, TraceBearsOutPlan
  <2>8. Knows(r)' /\ Answers(r)'
    <3>1. Knows(r)
      BY <2>1, <1>0, <2>4 DEF Knows, Key
    <3>2. Key(r) = k
      BY <2>2, <2>4 DEF Key
    <3> QED
      BY <2>2, <2>3, <2>4, <2>5, <2>7, <3>1, <3>2, KnowsStays DEF Answers, Key
  <2>9. ASSUME NEW v \in Workers, Answering(work[v])
        PROVE  work[v].msg # r.msg
    BY <2>2, <2>3, <2>4, <2>9, AnsweringKey DEF Attempted, ReplyInv, WorkersOK, Answers
  <2>10. ASSUME NEW s \in Work, Knows(s), Answers(s)
         PROVE  Knows(s)' /\ Answers(s)'
    <3>1. Answering(s) => Key(s) \in PlanKey /\ Key(s) # k
      BY <2>10, <2>6, AnsweringKey DEF Answers
    <3> QED
      BY <2>3, <2>5, <2>10, <3>1, KnowsStays DEF Answers, Key, Answering
  <2>11. WorkersOK'
    BY <2>4, <2>8, <2>9, <2>10, OneWorkerMoves DEF ReplyInv
  <2>12. EffectsOK'
    <3>1. \A m \in Messages : Attempted(m) => Attempted(m)'
      BY <2>3 DEF Attempted
    <3>2. TraceBearsOutPlan'
      BY <2>3, <2>5 DEF ReplyInv, EffectsOK, TraceBearsOutPlan
    <3> QED
      BY <2>5, <3>1, <3>2 DEF ReplyInv, EffectsOK
  <2> QED
    BY <1>0, <2>3, <2>11, <2>12, InboxStays DEF ReplyInv
<1> QED
  BY <1>1, <1>2 DEF Reserve

LEMMA OthersAreElsewhere ==
  ASSUME ReplyInv, NEW w \in Workers, Answering(work[w]),
         NEW v \in Workers \ {w}, Answering(work[v])
  PROVE  /\ work[v].msg # work[w].msg
         /\ Key(work[v]) # Key(work[w])
  BY DEF ReplyInv, WorkersOK, OneAnswers, Key

LEMMA ClickKeeps ==
  ASSUME ReplyInv, NEW w \in Workers, Click(w) PROVE ReplyInv'
<1>0. work[w].pc = "reserved" /\ UNCHANGED <<plans, inboxVars, frontier, trace>>
  BY DEF Click, At
<1>1. Knows(work[w]) /\ Answers(work[w]) /\ Answering(work[w])
  BY <1>0 DEF ReplyInv, WorkersOK, Answering
<1>2. CASE Ends(w, "AMBIGUOUS") /\ UNCHANGED clicks
  BY <1>0, <1>2, EffectVerdictKeeps DEF EffectVerdicts, worldVars
<1>3. CASE clicks' = [clicks EXCEPT ![work[w].msg] = @ + 1] /\ Goto(w, "clicked")
  <2>1. PICK k \in PlanKey : k = Key(work[w]) /\ k.msg = work[w].msg /\ k.msg \in Messages
    BY <1>1, AnsweringKey
  <2>2. clicks[k.msg] = 0 /\ plans[k].effect /\ trace[k] = "none" /\ plans[k].status \notin {"SENT", "FAILED"}
    BY <1>0, <1>1, <2>1 DEF Answers
  <2>3. clicks' = [clicks EXCEPT ![k.msg] = 1]
    BY <1>3, <2>1, <2>2
  <2>4. /\ clicks' \in [Messages -> 0..1] /\ clicks'[k.msg] = 1
        /\ \A m \in Messages : m # k.msg => clicks'[m] = clicks[m]
    BY <2>1, <2>3 DEF ReplyInv, EffectsOK
  <2>5. PICK r \in Work : /\ work' = [work EXCEPT ![w] = r]
                          /\ r.pc = "clicked" /\ r.msg = work[w].msg /\ r.reading = work[w].reading
                          /\ r.mark = work[w].mark
    BY <1>3, Goes DEF ReplyInv, Steps
  <2>6. UNCHANGED instant /\ Key(r) = k
    BY <1>0, <2>1, <2>5 DEF inboxVars, Key
  <2>7. Knows(r)' /\ Answers(r)'
    <3>1. Knows(r)
      BY <1>0, <1>1, <2>5, <2>6, <2>1 DEF Knows, Carrying
    <3> QED
      BY <1>0, <2>1, <2>2, <2>4, <2>5, <2>6, <3>1, KnowsStays DEF Answers, Key
  <2>8. ASSUME NEW s \in Work, Knows(s), Answers(s), NEW v \in Workers \ {w}, work[v] = s
        PROVE  Knows(s)' /\ Answers(s)'
    <3>1. Answering(s) => s.msg # k.msg /\ s.msg \in Messages
      BY <1>1, <2>1, <2>8, OthersAreElsewhere, AnsweringKey
    <3> QED
      BY <1>0, <2>4, <2>6, <2>8, <3>1, KnowsStays DEF Answers, Answering, Key
  <2>9. WorkersOK'
    <3>1. \A v \in Workers \ {w} : Answering(work[v]) /\ Answering(r) => work[v].msg # r.msg
      BY <1>1, <2>5, OthersAreElsewhere
    <3>2. WorkersOK
      BY DEF ReplyInv
    <3> QED
      BY <2>5, <2>7, <2>8, <3>1, <3>2, OneWorkerMoves
  <2>10. EffectsOK'
    <3>1. TraceBearsOutPlan'
      BY <1>0, <2>4 DEF ReplyInv, EffectsOK, TraceBearsOutPlan, PlanKey
    <3>2. Attempted(k.msg)' /\ \A m \in Messages : Attempted(m) => Attempted(m)'
      BY <1>0, <2>2 DEF Attempted
    <3> QED
      BY <1>0, <2>4, <3>1, <3>2 DEF ReplyInv, EffectsOK
  <2> QED
    BY <1>0, <2>9, <2>10, SamePlans, InboxStays DEF ReplyInv, inboxVars
<1> QED
  BY <1>2, <1>3 DEF Click

LEMMA JudgeKeeps ==
  ASSUME ReplyInv, NEW w \in Workers, Judge(w) PROVE ReplyInv'
  BY EffectVerdictKeeps DEF Judge, At, EffectVerdicts

\* The trace is written, or an exception puts the plan off.
LEMMA RecordEffectKeeps ==
  ASSUME ReplyInv, NEW w \in Workers, RecordEffect(w) PROVE ReplyInv'
<1>0. work[w].pc = "judged" /\ UNCHANGED <<plans, inboxVars, frontier, clicks>>
  BY DEF RecordEffect, At
<1>1. Knows(work[w]) /\ Answers(work[w]) /\ work[w] \in Work
  BY DEF ReplyInv, WorkersOK
<1>2. PICK k \in PlanKey : k = Key(work[w]) /\ k = KeyOf(w) /\ k.msg = work[w].msg /\ k.msg \in Messages
  BY <1>0, <1>1 DEF Knows, Carrying, Key, KeyOf, Arrived
<1>3. CASE work' = [work EXCEPT ![w].pc = "recorded", ![w].verdict = "SKIPPED"] /\ UNCHANGED trace
  <2> DEFINE r == [work[w] EXCEPT !.pc = "recorded", !.verdict = "SKIPPED"]
  <2>1. /\ r \in Work /\ r.pc = "recorded" /\ r.verdict = "SKIPPED"
        /\ r.msg = work[w].msg /\ r.reading = work[w].reading /\ r.mark = work[w].mark
    BY <1>1 DEF Work, Steps, Verdicts
  <2>2. work' = [work EXCEPT ![w] = r]
    BY <1>3 DEF ReplyInv, WorkersOK
  <2> HIDE DEF r
  <2>3. Knows(r) /\ ~Answering(r) /\ Answers(r)
    BY <1>0, <1>1, <2>1 DEF Knows, Answering, Answers, Carrying, Key, EffectVerdicts
  <2> QED
    BY <1>0, <1>3, <2>1, <2>2, <2>3, QuietStep, SamePlans DEF ReplyInv, inboxVars, worldVars
<1>4. CASE Goto(w, "recorded") /\ work[w].verdict \notin EffectVerdicts
           /\ trace' = [trace EXCEPT ![k] = trace[k]]
  <2>1. UNCHANGED trace
    BY <1>4 DEF ReplyInv, EffectsOK
  <2>2. PICK r \in Work : /\ work' = [work EXCEPT ![w] = r]
                          /\ r.pc = "recorded" /\ r.msg = work[w].msg /\ r.reading = work[w].reading
                          /\ r.mark = work[w].mark /\ r.verdict = work[w].verdict
    BY <1>4, Goes DEF ReplyInv, Steps
  <2>3. Knows(r) /\ ~Answering(r) /\ Answers(r)
    BY <1>0, <1>1, <1>4, <2>2 DEF Knows, Answering, Answers, Carrying, Key
  <2> QED
    BY <1>0, <2>1, <2>2, <2>3, QuietStep, SamePlans DEF ReplyInv, inboxVars, worldVars
<1>5. CASE Goto(w, "recorded") /\ work[w].verdict \in EffectVerdicts
           /\ trace' = [trace EXCEPT ![k] = work[w].verdict]
  <2>1. Answering(work[w])
    BY <1>0, <1>5 DEF Answering
  <2>2. /\ plans[k].effect /\ plans[k].status \notin {"SENT", "FAILED"} /\ trace[k] = "none"
        /\ work[w].verdict \in {"SENT", "FAILED"} => clicks[k.msg] = 1
    BY <1>0, <1>1, <1>2, <2>1 DEF Answers
  <2>3. /\ trace' \in [PlanKey -> {"none", "SENT", "FAILED", "AMBIGUOUS"}]
        /\ trace'[k] = work[w].verdict
        /\ \A j \in PlanKey : j # k => trace'[j] = trace[j]
    BY <1>5 DEF ReplyInv, EffectsOK, EffectVerdicts
  <2>4. PICK r \in Work : /\ work' = [work EXCEPT ![w] = r]
                          /\ r.pc = "recorded" /\ r.msg = work[w].msg /\ r.reading = work[w].reading
                          /\ r.mark = work[w].mark /\ r.verdict = work[w].verdict
    BY <1>5, Goes DEF ReplyInv, Steps
  <2>5. UNCHANGED instant /\ Key(r) = k
    BY <1>0, <1>2, <2>4 DEF inboxVars, Key
  <2>6. Knows(r)' /\ Answers(r)'
    <3>1. Knows(r)
      BY <1>0, <1>1, <1>2, <2>4, <2>5 DEF Knows, Carrying
    <3>2. Answers(r)'
      BY <1>0, <1>2, <2>2, <2>3, <2>4, <2>5 DEF Answers, Key
    <3> QED
      BY <2>5, <3>1, <3>2, KnowsStays
  <2>7. ASSUME NEW s \in Work, Knows(s), Answers(s), NEW v \in Workers \ {w}, work[v] = s
        PROVE  Knows(s)' /\ Answers(s)'
    <3>1. Answering(s) => Key(s) # k /\ Key(s) \in PlanKey
      BY <1>2, <2>1, <2>7, OthersAreElsewhere, AnsweringKey
    <3> QED
      BY <1>0, <2>3, <2>5, <2>7, <3>1, KnowsStays DEF Answers, Answering, Key
  <2>8. \A v \in Workers \ {w} : Answering(work[v]) /\ Answering(r) => work[v].msg # r.msg
    BY <2>1, <2>4, OthersAreElsewhere
  <2>9. WorkersOK'
    <3>1. WorkersOK
      BY DEF ReplyInv
    <3> QED
      BY <2>4, <2>6, <2>7, <2>8, <3>1, OneWorkerMoves
  <2>10. EffectsOK'
    <3>1. TraceBearsOutPlan'
      BY <1>0, <2>2, <2>3 DEF ReplyInv, EffectsOK, TraceBearsOutPlan
    <3>2. \A m \in Messages : Attempted(m) => Attempted(m)'
      BY <1>0 DEF Attempted
    <3> QED
      BY <1>0, <2>3, <3>1, <3>2 DEF ReplyInv, EffectsOK
  <2> QED
    BY <1>0, <2>9, <2>10, SamePlans, InboxStays DEF ReplyInv, inboxVars
<1> QED
  BY <1>2, <1>3, <1>4, <1>5 DEF RecordEffect, EffectVerdicts

\* The plan is closed by whoever still holds it; SENT and FAILED are then written.
LEMMA FinishKeeps ==
  ASSUME ReplyInv, NEW w \in Workers, Finish(w) PROVE ReplyInv' /\ PlansMove
<1>0. work[w].pc = "recorded" /\ Rest(w) /\ UNCHANGED <<inboxVars, frontier, worldVars>>
  BY DEF Finish, At
<1>1. Knows(work[w]) /\ Answers(work[w]) /\ work[w] \in Work
  BY DEF ReplyInv, WorkersOK
<1>2. PICK k \in PlanKey : k = Key(work[w]) /\ k = KeyOf(w) /\ k.msg = work[w].msg /\ k.msg \in Messages
  BY <1>0, <1>1 DEF Knows, Carrying, Key, KeyOf, Arrived
<1>3. CASE ~HoldsPlan(k, w)
  <2>1. UNCHANGED plans
    BY <1>2, <1>3 DEF Finish, FinalizePlan
  <2> QED
    BY <1>0, <2>1, RestStep, SamePlans DEF ReplyInv, inboxVars
<1>4. CASE HoldsPlan(k, w)
  <2>1. PICK status \in {"SENT", "FAILED", "AMBIGUOUS", "BLOCKED", "SKIPPED"} : status = work[w].verdict
    BY <1>0, <1>1 DEF Knows, Work, Verdicts
  <2>2. status \in EffectVerdicts =>
          Answering(work[w]) /\ plans[k].effect /\ trace[k] = status
          /\ plans[k].status \notin {"SENT", "FAILED"}
    BY <1>0, <1>1, <1>2, <2>1 DEF Answers, Answering, Key
  <2>3. status \in {"SENT", "AMBIGUOUS"} => plans[k].effect
    BY <2>2 DEF EffectVerdicts
  <2>4. /\ PlansOK' /\ PlansMove /\ (status \notin {"SENT", "FAILED"} => QuietPlans)
        /\ plans' = [plans EXCEPT ![k] = Unclaimed(plans[k], status)]
    <3>1. FinalizePlan(k, w, status) /\ PlansOK /\ UNCHANGED instant
      BY <1>0, <1>2, <2>1 DEF Finish, ReplyInv, inboxVars
    <3> QED
      BY <1>4, <2>3, <3>1, FinalizeKeeps
  <2>5. CASE status \notin {"SENT", "FAILED"}
    BY <1>0, <2>4, <2>5, RestStep
  <2>6. CASE status \in {"SENT", "FAILED"}
    <3>1. Answering(work[w]) /\ plans[k].effect /\ trace[k] = status
      BY <2>2, <2>6 DEF EffectVerdicts
    <3>2. /\ plans'[k].effect = plans[k].effect /\ plans'[k].status = status
          /\ \A j \in PlanKey : j # k => plans'[j] = plans[j]
      BY <2>4, RowsRewritten DEF ReplyInv, PlansOK
    <3>3. UNCHANGED instant /\ UNCHANGED <<trace, clicks>>
      BY <1>0 DEF inboxVars, worldVars
    <3>4. Knows(AtRest)' /\ Answers(AtRest)'
      BY <3>3, ComesToRest, KnowsStays DEF Answers, Answering
    <3>5. ASSUME NEW s \in Work, Knows(s), Answers(s), NEW v \in Workers \ {w}, work[v] = s
          PROVE  Knows(s)' /\ Answers(s)'
      <4>1. Answering(s) => Key(s) # k /\ Key(s) \in PlanKey
        BY <1>2, <3>1, <3>5, OthersAreElsewhere, AnsweringKey
      <4> QED
        BY <3>2, <3>3, <3>5, <4>1, KnowsStays DEF Answers, Answering, Key
    <3>6. WorkersOK'
      <4>1. WorkersOK /\ work' = [work EXCEPT ![w] = AtRest]
        BY <1>0 DEF ReplyInv, Rest
      <4> QED
        BY <3>4, <3>5, <4>1, ComesToRest, OneWorkerMoves
    <3>7. EffectsOK'
      <4>1. TraceBearsOutPlan'
        BY <3>1, <3>2, <3>3 DEF ReplyInv, EffectsOK, TraceBearsOutPlan
      <4>2. \A m \in Messages : Attempted(m) => Attempted(m)'
        BY <3>2 DEF Attempted
      <4> QED
        BY <3>3, <4>1, <4>2 DEF ReplyInv, EffectsOK
    <3> QED
      BY <1>0, <2>4, <3>6, <3>7, InboxStays DEF ReplyInv
  <2> QED
    BY <2>5, <2>6
<1> QED
  BY <1>3, <1>4

LEMMA WorkerStepKeeps ==
  ASSUME ReplyInv, NEW w \in Workers, WorkerStep(w) PROVE ReplyInv' /\ PlansMove
<1>1. CASE Restart(w)
  BY <1>1, RestStep, SamePlans DEF Restart, ReplyInv, inboxVars
<1>2. CASE Select(w) \/ Assess(w) \/ RecordIntention(w)
  <2>1. Select(w) \/ Assess(w) => PlansMove
    BY SamePlans DEF Select, Assess, ReplyInv, inboxVars
  <2> QED
    BY <1>2, <2>1, SelectKeeps, AssessKeeps, RecordIntentionKeeps
<1>3. CASE Approach(w) \/ Gate(w) \/ Replay(w) \/ Click(w) \/ Judge(w) \/ RecordEffect(w)
  <2>1. PlansMove
    BY <1>3, SamePlans DEF Approach, Gate, Replay, Click, Judge, RecordEffect, ReplyInv, inboxVars
  <2> QED
    BY <1>3, <2>1, LooksKeep, ClickKeeps, JudgeKeeps, RecordEffectKeeps
<1>4. CASE Recover(w) \/ Take(w) \/ Reserve(w) \/ Finish(w)
  BY <1>4, RecoveryKeeps, TakeKeeps, ReserveStep, FinishKeeps
<1> QED
  BY <1>1, <1>2, <1>3, <1>4 DEF WorkerStep, Execute

-----------------------------------------------------------------------------
(* The world *)

LEMMA ArriveKeeps ==
  ASSUME ReplyInv, NEW m \in Messages, Arrive(m) PROVE ReplyInv' /\ PlansMove
<1>0. /\ InboxTyped /\ InboxOK
      /\ UNCHANGED <<plans, reading, closed, frontier, work, worldVars>>
      /\ m \notin Arrived /\ 1..(m - 1) \subseteq Arrived
  BY DEF ReplyInv, Arrive
<1>1. m \in 1..MaxMessages /\ MaxMessages \in Nat /\ \A n \in Messages : n \in Nat
  BY PlansAssumption DEF Messages
<1>2. \A n \in Messages : n >= m => n \notin Arrived
  BY <1>0, <1>1 DEF InboxOK
<1>3. /\ instant[m] = 0
      /\ newest # 0 => newest \in Messages /\ newest < m /\ instant[newest] \in 1..(m - 1)
      /\ LatestInboundAt \in 0..(m - 1)
  <2>1. instant[m] = 0
    BY <1>0 DEF InboxTyped, Arrived
  <2>2. ASSUME newest # 0 PROVE newest \in Messages /\ newest < m /\ instant[newest] \in 1..(m - 1)
    BY <1>0, <1>1, <1>2, <2>2 DEF InboxOK, InboxTyped, Arrived, Messages
  <2> QED
    BY <1>1, <2>1, <2>2 DEF LatestInboundAt
<1>4. PICK i \in 1..m : /\ instant' = [instant EXCEPT ![m] = i]
                        /\ \/ i = LatestInboundAt + 1 /\ newest' = m
                           \/ i = LatestInboundAt /\ newest # 0 /\ newest' \in {newest, m}
  <2>1. LatestInboundAt + 1 \in 1..m /\ (newest # 0 => LatestInboundAt \in 1..m)
    BY <1>1, <1>3 DEF LatestInboundAt
  <2> QED
    BY <2>1 DEF Arrive
<1>5. /\ instant' \in [Messages -> 0..MaxMessages] /\ instant'[m] = i
      /\ \A n \in Messages : n # m => instant'[n] = instant[n]
  BY <1>0, <1>1, <1>4 DEF InboxTyped
<1>6. /\ m \in Arrived'
      /\ \A n \in Messages : n \in Arrived' <=> n \in Arrived \/ n = m
      /\ \A n \in Arrived : n \in Arrived' /\ instant'[n] = instant[n]
  BY <1>0, <1>1, <1>4, <1>5 DEF Arrived
<1>7. newest' # 0 /\ newest' \in Messages /\ newest' \in Arrived' /\ newest' \in 0..MaxMessages
  <2>1. m # 0 /\ m \in 0..MaxMessages
    BY <1>1
  <2>2. newest # 0 => newest \in Messages /\ newest \in Arrived /\ newest \in 0..MaxMessages
    BY <1>0, <1>3 DEF InboxOK, InboxTyped
  <2>3. newest' = m \/ (newest # 0 /\ newest' = newest)
    BY <1>4
  <2> QED
    BY <1>6, <2>1, <2>2, <2>3
<1>8. LatestInboundAt' = i
  <2>1. LatestInboundAt' = instant'[newest']
    BY <1>7 DEF LatestInboundAt
  <2>2. newest # 0 /\ newest' = newest => newest # m /\ instant'[newest] = LatestInboundAt
    <3>1. newest # 0 => newest \in Messages /\ newest # m /\ LatestInboundAt = instant[newest]
      BY <1>1, <1>3 DEF LatestInboundAt
    <3> QED
      BY <1>5, <3>1
  <2>3. CASE i = LatestInboundAt + 1 /\ newest' = m
    BY <1>5, <2>1, <2>3
  <2>4. CASE i = LatestInboundAt /\ newest # 0 /\ newest' \in {newest, m}
    BY <1>5, <2>1, <2>2, <2>4
  <2> QED
    BY <1>4, <2>3, <2>4
<1>9. InboxTyped'
  BY <1>0, <1>5, <1>7 DEF InboxTyped
<1>10. InboxOK'
  <2>1. \A n \in Messages : instant'[n] <= n /\ instant'[n] <= i
    <3>1. \A n \in Messages : n # m => instant[n] <= n /\ instant[n] <= LatestInboundAt /\ instant[n] \in Nat
      BY <1>0, <1>1 DEF InboxOK, InboxTyped
    <3> QED
      BY <1>1, <1>3, <1>4, <1>5, <3>1
  <2>2. \A n \in Messages : n \in Arrived' => 1..(n - 1) \subseteq Arrived'
    <3>1. \A n \in Messages : 1..(n - 1) \subseteq Messages
      BY PlansAssumption DEF Messages
    <3> QED
      BY <1>0, <1>6, <3>1 DEF InboxOK
  <2> QED
    BY <1>0, <1>7, <1>8, <2>1, <2>2 DEF InboxOK
<1>11. PlansOK'
  <2>1. \A k \in PlanKey : k.msg \in Messages
    BY DEF PlanKey
  <2>2. LiveIsFresh'
    BY <1>0, <1>6, <2>1 DEF ReplyInv, PlansOK, LiveIsFresh, Live
  <2>3. (\A k \in PlanKey : PlanAccepted(plans[k]))'
    BY <1>0 DEF ReplyInv, PlansOK, PlanAccepted
  <2>4. OneLive' /\ MarkedAlone'
    BY <1>0 DEF ReplyInv, PlansOK, OneLive, MarkedAlone, Live
  <2> QED
    BY <1>0, <2>2, <2>3, <2>4 DEF ReplyInv, PlansOK
<1>12. EffectsOK'
  BY <1>0 DEF ReplyInv, EffectsOK, TraceBearsOutPlan, Attempted, worldVars
<1>13. ASSUME NEW s \in Work, Knows(s), Answers(s) PROVE Knows(s)' /\ Answers(s)'
  <2>1. Knows(s)'
    BY <1>6, <1>13 DEF Knows, Key
  <2>2. Answers(s)'
    BY <1>0, <1>13 DEF Answers, Answering, Key, worldVars
  <2> QED
    BY <2>1, <2>2
<1>14. WorkersOK'
  BY <1>0, <1>13 DEF ReplyInv, WorkersOK, OneAnswers
<1>15. PlansMove
  BY <1>0 DEF PlansMove
<1> QED
  BY <1>9, <1>10, <1>11, <1>12, <1>14, <1>15 DEF ReplyInv

\* What says nothing of the plans, the workers or the hours of the messages.
LEMMA ElsewhereKeeps ==
  ASSUME ReplyInv, UNCHANGED <<plans, instant, newest, work, worldVars>>, InboxTyped', InboxOK'
  PROVE  ReplyInv' /\ PlansMove
<1>1. PlansOK' /\ PlansMove /\ QuietPlans
  BY SamePlans DEF ReplyInv
<1>2. EffectsOK'
  BY <1>1, EffectsStay DEF ReplyInv
<1>3. ASSUME NEW s \in Work, Knows(s), Answers(s) PROVE Knows(s)' /\ Answers(s)'
  BY <1>1, <1>3, KnowsStays, AnswersStays
<1>4. WorkersOK'
  BY <1>3 DEF ReplyInv, WorkersOK, OneAnswers
<1> QED
  BY <1>1, <1>2, <1>4 DEF ReplyInv

LEMMA ReadingKeeps ==
  ASSUME ReplyInv, NEW m \in Messages, Analyse(m) \/ RetireAnalysis(m) PROVE ReplyInv' /\ PlansMove
<1>0. /\ InboxTyped /\ InboxOK /\ reading[m] \in Reading
      /\ UNCHANGED <<plans, instant, newest, closed, frontier, work, worldVars>>
  BY DEF ReplyInv, InboxTyped, Analyse, RetireAnalysis
<1>1. \E p \in Reading : /\ reading' = [reading EXCEPT ![m] = p]
                         /\ p.decision # "none" => p.version \in 1..MaxReadings
  <2>1. CASE Analyse(m)
    <3>1. PICK decision \in Decisions :
            reading' = [reading EXCEPT ![m] = [version |-> reading[m].version + 1, decision |-> decision]]
      BY <2>1 DEF Analyse
    <3>2. reading[m].version + 1 \in 1..MaxReadings /\ reading[m].version + 1 \in 0..MaxReadings
      BY <1>0, <2>1, PlansAssumption DEF Analyse, Reading
    <3> DEFINE p == [version |-> reading[m].version + 1, decision |-> decision]
    <3>3. p \in Reading /\ p.version \in 1..MaxReadings
      BY <3>2 DEF Reading
    <3> QED
      BY <3>1, <3>3
  <2>2. CASE RetireAnalysis(m)
    <3>1. [reading[m] EXCEPT !.decision = "none"] \in Reading
          /\ [reading[m] EXCEPT !.decision = "none"].decision = "none"
      BY <1>0 DEF Reading
    <3>2. reading' = [reading EXCEPT ![m] = [reading[m] EXCEPT !.decision = "none"]]
      BY <1>0, <2>2 DEF RetireAnalysis, InboxTyped
    <3> QED
      BY <3>1, <3>2
  <2> QED
    BY <2>1, <2>2
<1>2. InboxTyped'
  BY <1>0, <1>1 DEF InboxTyped
<1>3. InboxOK'
  BY <1>0, <1>1 DEF InboxOK, InboxTyped, Arrived, LatestInboundAt
<1> QED
  BY <1>0, <1>2, <1>3, ElsewhereKeeps

LEMMA WorldKeeps ==
  ASSUME ReplyInv, ReplyWorld PROVE ReplyInv' /\ PlansMove
<1>1. ASSUME NEW m \in Messages, Arrive(m) \/ Analyse(m) \/ RetireAnalysis(m)
      PROVE  ReplyInv' /\ PlansMove
  BY <1>1, ArriveKeeps, ReadingKeeps
<1>2. CASE CloseProspect
  <2>1. InboxTyped' /\ InboxOK'
    BY <1>2 DEF CloseProspect, ReplyInv, InboxTyped, InboxOK, Arrived, LatestInboundAt
  <2> QED
    BY <1>2, <2>1, ElsewhereKeeps DEF CloseProspect
<1>3. CASE Reactivate
  <2>1. LatestInboundAt \in 0..MaxMessages
    BY PlansAssumption DEF LatestInboundAt, ReplyInv, InboxTyped, InboxOK, Messages
  <2>2. frontier' \in 0..(MaxMessages + 1)
    BY <1>3, <2>1, PlansAssumption DEF Reactivate
  <2>3. InboxTyped' /\ InboxOK'
    BY <1>3, <2>2 DEF Reactivate, ReplyInv, InboxTyped, InboxOK, Arrived, LatestInboundAt, inboxVars
  <2> QED
    BY <1>3, <2>3, ElsewhereKeeps DEF Reactivate, inboxVars
<1>4. ASSUME NEW k \in PlanKey, LeaseRunsOut(k) PROVE ReplyInv' /\ PlansMove
  <2>1. PlansOK' /\ QuietPlans /\ PlansMove
    BY <1>4, ExpiryKeeps DEF LeaseRunsOut, ReplyInv, inboxVars
  <2>2. ASSUME NEW s \in Work, Knows(s), Answers(s) PROVE Knows(s)' /\ Answers(s)'
    BY <1>4, <2>1, <2>2, KnowsStays, AnswersStays DEF LeaseRunsOut, inboxVars
  <2>3. WorkersOK'
    BY <1>4, <2>2 DEF LeaseRunsOut, ReplyInv, WorkersOK, OneAnswers
  <2> QED
    BY <1>4, <2>1, <2>3, EffectsStay, InboxStays DEF LeaseRunsOut, ReplyInv
<1>5. ASSUME NEW w \in Workers, Crash(w) PROVE ReplyInv' /\ PlansMove
  BY <1>5, RestStep, SamePlans DEF Crash, ReplyInv, inboxVars
<1> QED
  BY <1>1, <1>2, <1>3, <1>4, <1>5 DEF ReplyWorld

LEMMA ReplyStepKeeps == ReplyInv /\ [ReplyNext]_replyVars => ReplyInv' /\ PlansMove
<1> SUFFICES ASSUME ReplyInv, [ReplyNext]_replyVars PROVE ReplyInv' /\ PlansMove
  OBVIOUS
<1>1. CASE UNCHANGED replyVars
  BY <1>1, ElsewhereKeeps, InboxStays DEF replyVars, ReplyInv, inboxVars
<1> QED
  BY <1>1, WorkerStepKeeps, WorldKeeps DEF ReplyNext

LEMMA ReplyInitInv == ReplyInit => ReplyInv
<1> SUFFICES ASSUME ReplyInit PROVE ReplyInv
  OBVIOUS
<1>0. 0 \in 0..MaxMessages /\ 0 \in 0..MaxReadings /\ 0 \in 0..(MaxMessages + 1)
  BY PlansAssumption
<1>1. Arrived = {} /\ \A m \in Messages : m \in Nat
  BY PlansAssumption DEF ReplyInit, Arrived, Messages
<1>2. InboxTyped /\ InboxOK
  <2>1. [version |-> 0, decision |-> "none"] \in Reading
    BY <1>0 DEF Reading
  <2>2. InboxTyped
    BY <1>0, <2>1 DEF ReplyInit, InboxTyped
  <2>3. LatestInboundAt = 0 /\ \A m \in Messages : instant[m] = 0 /\ reading[m].decision = "none" /\ 0 <= m
    BY PlansAssumption DEF ReplyInit, LatestInboundAt, Messages
  <2>4. newest = 0
    BY DEF ReplyInit
  <2>5. InboxOK
    BY <1>1, <2>3, <2>4 DEF InboxOK
  <2> QED
    BY <2>2, <2>5
<1>3. NoPlan \in Plan /\ PlanAccepted(NoPlan) /\ ~NoPlan.effect /\ NoPlan.status = "NONE"
  BY <1>0 DEF NoPlan, Plan, PlanAccepted
<1>4. plans = [k \in PlanKey |-> NoPlan]
  BY DEF ReplyInit, PlansInit
<1>5. PlansOK
  BY <1>3, <1>4 DEF PlansOK, OneLive, MarkedAlone, LiveIsFresh, Live, LivePlanStatuses
<1>6. EffectsOK
  BY <1>3, <1>4 DEF ReplyInit, EffectsOK, TraceBearsOutPlan, PlanKey
<1>7. WorkersOK
  BY ComesToRest DEF ReplyInit, WorkersOK, OneAnswers
<1> QED
  BY <1>2, <1>5, <1>6, <1>7 DEF ReplyInv

LEMMA ReplyInvariance == ReplySpec => []ReplyInv
  BY ReplyInitInv, ReplyStepKeeps, PTL DEF ReplySpec

-----------------------------------------------------------------------------
(* What follows *)

\* The plans pass the constraints of migration 0049, one at most is live, and every
\* process keeps its type.
THEOREM ReplyTypeCorrect == ReplySpec => []ReplyTypeOK
<1>1. ReplyInv => ReplyTypeOK
  BY DEF ReplyInv, InboxTyped, PlansOK, EffectsOK, WorkersOK, ReplyTypeOK
<1> QED
  BY <1>1, ReplyInvariance, PTL

\* The register never says more than the trace, nor the trace than what was done,
\* whichever process wrote last and whatever exception it met.
THEOREM TraceBearsOut == ReplySpec => []TraceBearsOutPlan
<1>1. ReplyInv => TraceBearsOutPlan
  BY DEF ReplyInv, EffectsOK
<1> QED
  BY <1>1, ReplyInvariance, PTL

\* Nobody writes on a plan that is over: not the worker that lost it, not a
\* recovery, not a new intention.
THEOREM ClosedStays == ReplySpec => ClosedStaysClosed
<1>1. ReplyInv /\ [ReplyNext]_replyVars
        => [\A k \in PlanKey : plans[k].status \in TerminalPlanStatuses => plans'[k] = plans[k]]_replyVars
  BY ReplyStepKeeps DEF PlansMove
<1> QED
  BY <1>1, ReplyInvariance, PTL DEF ReplySpec, ClosedStaysClosed

-----------------------------------------------------------------------------
(* The last look before the effect *)

LEMMA OnlyTheGate ==
  ASSUME ReplyInv, [ReplyNext]_replyVars, NEW w \in Workers,
         work[w].pc = "hook", work'[w].pc = "gated"
  PROVE  GateAllows(w)
<1>0. work \in [Workers -> Work]
  BY DEF ReplyInv, WorkersOK
<1>1. ASSUME NEW v \in Workers, WorkerStep(v) PROVE Gate(w)
  <2>1. \/ Select(v) \/ Assess(v) \/ RecordIntention(v) \/ Restart(v)
        \/ Recover(v) \/ Take(v) \/ Approach(v) \/ Gate(v) \/ Replay(v)
        \/ Reserve(v) \/ Click(v) \/ Judge(v) \/ RecordEffect(v) \/ Finish(v)
    BY <1>1 DEF WorkerStep, Execute
  <2>2. \A u \in Workers \ {v} : work'[u] = work[u]
    BY <1>0, <2>1 DEF Select, Assess, RecordIntention, Restart, Recover, Take, Approach, Gate, Replay, Reserve,
                      Click, Judge, RecordEffect, Finish, Goto, Ends, Rest
  <2>3. v = w
    BY <2>2
  <2>4. ~Select(w) /\ ~Assess(w) /\ ~RecordIntention(w) /\ ~Restart(w) /\ ~Recover(w) /\ ~Take(w) /\ ~Approach(w)
    BY DEF Select, Assess, RecordIntention, Restart, Recover, Take, Approach, At
  <2>5. ~Replay(w) /\ ~Reserve(w) /\ ~Click(w) /\ ~Judge(w) /\ ~RecordEffect(w) /\ ~Finish(w)
    BY DEF Replay, Reserve, Click, Judge, RecordEffect, Finish, At
  <2> QED
    BY <2>1, <2>3, <2>4, <2>5
<1>2. ~UNCHANGED work
  OBVIOUS
<1>3. ASSUME NEW v \in Workers, Crash(v) PROVE FALSE
  <2>1. work'[w] = work[w] \/ work'[w] = AtRest
    BY <1>0, <1>3 DEF Crash, Rest
  <2> QED
    BY <2>1 DEF AtRest
<1>4. ~ReplyWorld
  BY <1>2, <1>3 DEF ReplyWorld, Arrive, Analyse, RetireAnalysis, CloseProspect, Reactivate, LeaseRunsOut
<1>5. Gate(w)
  BY <1>1, <1>2, <1>4 DEF ReplyNext, replyVars
<1>6. ~Ends(w, "BLOCKED") /\ ~Ends(w, "SKIPPED")
  <2>1. ASSUME NEW verdict \in {"BLOCKED", "SKIPPED"}, Ends(w, verdict) PROVE FALSE
    <3>1. verdict \in Verdicts
      BY DEF Verdicts
    <3>2. PICK r \in Work : work' = [work EXCEPT ![w] = r] /\ r.pc = "judged"
      BY <2>1, <3>1, Concludes DEF ReplyInv
    <3> QED
      BY <1>0, <3>2
  <2> QED
    BY <2>1
<1> QED
  BY <1>5, <1>6 DEF Gate

\* The mark of the plan is the hour of its message: nothing received later passes.
LEMMA GateSeesNothingLater ==
  ASSUME ReplyInv, NEW w \in Workers, work[w].pc = "hook", GateAllows(w)
  PROVE  /\ work[w].msg \in Arrived
         /\ \A m \in Arrived : instant[m] <= instant[work[w].msg]
         /\ newest \in Arrived /\ instant[newest] = instant[work[w].msg]
<1>1. work[w].msg \in Arrived /\ work[w].mark = instant[work[w].msg]
  BY DEF ReplyInv, WorkersOK, Knows, Carrying
<1>2. PICK n \in Arrived : n = work[w].msg
  BY <1>1
<1>3. /\ instant[n] \in 1..MaxMessages /\ LatestInboundAt \in 1..MaxMessages
      /\ \A m \in Arrived : instant[m] \in 1..MaxMessages /\ instant[m] <= LatestInboundAt
  BY LatestIsLate DEF ReplyInv
<1>4. newest # 0 /\ newest \in Arrived /\ LatestInboundAt = instant[newest]
  BY <1>3 DEF LatestInboundAt, ReplyInv, InboxOK
<1>5. newest = n \/ LatestInboundAt <= instant[n]
  BY <1>1, <1>2, <1>3 DEF GateAllows, Stale
<1>6. LatestInboundAt = instant[n]
  BY <1>2, <1>3, <1>4, <1>5
<1> QED
  BY <1>2, <1>3, <1>4, <1>6

\* When the hook lets a reply pass, no message received later than the one it
\* answers is in the mailbox.
THEOREM NothingLater ==
  ReplySpec => [][\A w \in Workers :
                     At(w, "hook") /\ work'[w].pc = "gated" =>
                         \A m \in Arrived : instant[m] <= instant[work[w].msg]]_replyVars
<1>1. ReplyInv /\ [ReplyNext]_replyVars
        => [\A w \in Workers :
               At(w, "hook") /\ work'[w].pc = "gated" =>
                   \A m \in Arrived : instant[m] <= instant[work[w].msg]]_replyVars
  BY OnlyTheGate, GateSeesNothingLater DEF At
<1> QED
  BY <1>1, ReplyInvariance, PTL DEF ReplySpec

\* Where the page dates every message, no two were received at the same hour.
OneByOne == \A m, n \in Arrived : instant[m] = instant[n] => m = n

LEMMA OneByOneKept ==
  ASSUME "tie" \notin Incidents, ReplyInv, OneByOne, [ReplyNext]_replyVars PROVE OneByOne'
<1>1. ASSUME NEW m \in Messages, Arrive(m) PROVE OneByOne'
  <2>1. instant' = [instant EXCEPT ![m] = LatestInboundAt + 1]
    BY <1>1 DEF Arrive
  <2>2. \A n \in Arrived : instant[n] \in Nat /\ instant[n] < LatestInboundAt + 1 /\ n \in Messages
    BY LatestIsLate DEF ReplyInv
  <2>3. \A n \in Messages : instant'[n] = IF n = m THEN LatestInboundAt + 1 ELSE instant[n]
    BY <2>1 DEF ReplyInv, InboxTyped
  <2>4. \A n \in Arrived' : n \in Messages /\ (n = m \/ n \in Arrived)
    BY <2>3 DEF Arrived
  <2> QED
    BY <2>2, <2>3, <2>4 DEF OneByOne
<1>2. CASE UNCHANGED instant
  BY <1>2 DEF OneByOne, Arrived
<1>3. ASSUME NEW w \in Workers, WorkerStep(w) PROVE UNCHANGED instant
  BY <1>3 DEF WorkerStep, Execute, Select, Assess, RecordIntention, Restart, Recover, Take, Approach, Gate, Replay,
              Reserve, Click, Judge, RecordEffect, Finish, inboxVars
<1>4. ReplyWorld => UNCHANGED instant \/ \E m \in Messages : Arrive(m)
  BY DEF ReplyWorld, Analyse, RetireAnalysis, CloseProspect, Reactivate, LeaseRunsOut, Crash, inboxVars
<1> QED
  BY <1>1, <1>2, <1>3, <1>4 DEF ReplyNext, replyVars, inboxVars

\* Where no two messages bear the same hour, a reply that passes the hook answers
\* the last message received, whatever was received since it was planned.  With a
\* tie, TLC finds it passing beside a message nobody has answered.
THEOREM AnswersTheLast == "tie" \notin Incidents /\ ReplySpec => AnswersTheLastMessage
<1> SUFFICES ASSUME "tie" \notin Incidents PROVE ReplySpec => AnswersTheLastMessage
  OBVIOUS
<1>1. ReplyInit => OneByOne
  BY DEF ReplyInit, OneByOne, Arrived
<1>2. ReplyInv /\ OneByOne /\ [ReplyNext]_replyVars => OneByOne'
  BY OneByOneKept
<1>3. ASSUME ReplyInv, OneByOne, [ReplyNext]_replyVars,
             NEW w \in Workers, At(w, "hook"), work'[w].pc = "gated",
             NEW m \in Arrived, m # work[w].msg
      PROVE  instant[m] < instant[work[w].msg]
  <2>1. PICK n \in Arrived : n = work[w].msg /\ instant[m] <= instant[n]
    BY <1>3, OnlyTheGate, GateSeesNothingLater DEF At
  <2>2. instant[m] \in 1..MaxMessages /\ instant[n] \in 1..MaxMessages
    BY <1>3, LatestIsLate DEF ReplyInv
  <2>3. instant[m] # instant[n]
    BY <1>3, <2>1 DEF OneByOne
  <2> QED
    BY <2>1, <2>2, <2>3
<1>4. ReplyInv /\ OneByOne /\ [ReplyNext]_replyVars
        => [\A w \in Workers :
               At(w, "hook") /\ work'[w].pc = "gated" =>
                   \A m \in Arrived : m # work[w].msg => instant[m] < instant[work[w].msg]]_replyVars
  BY <1>3
<1> QED
  BY <1>1, <1>2, <1>4, ReplyInvariance, PTL DEF ReplySpec, AnswersTheLastMessage

-----------------------------------------------------------------------------
(* The reply rail implements SendOnce *)

\* What a settled plan says of its message.
Said(status) == IF status = "SENT" THEN "SENT"
                ELSE IF status = "FAILED" THEN "DELIVERY_FAILED"
                ELSE IF status = "AMBIGUOUS" THEN "REVIEW_REQUIRED"
                ELSE "none"

\* One plan tells the story of its message: the one that bears the mark.
LEMMA StoryOfTheMarked ==
  ASSUME MarkedAlone, NEW k \in PlanKey, plans[k].effect
  PROVE  StoryOfMessage(k.msg) = [announced |-> TRUE, contacts |-> clicks[k.msg], outcome |-> Said(plans[k].status)]
<1>1. \A j \in PlanKey : j.msg = k.msg /\ plans[j].effect <=> j = k
  BY DEF MarkedAlone
<1>2. ASSUME NEW status
      PROVE  (\E j \in PlanKey : j.msg = k.msg /\ plans[j].effect /\ plans[j].status = status)
               <=> plans[k].status = status
  BY <1>1
<1>3. Attempted(k.msg) = TRUE
  BY DEF Attempted
<1>4. StoryOfMessage(k.msg).outcome = Said(plans[k].status)
  BY <1>2 DEF StoryOfMessage, Said
<1> QED
  BY <1>3, <1>4 DEF StoryOfMessage

LEMMA StoryOfTheUnmarked ==
  ASSUME NEW m, ~Attempted(m)
  PROVE  StoryOfMessage(m) = [announced |-> FALSE, contacts |-> clicks[m], outcome |-> "none"]
<1>1. ~\E k \in PlanKey : k.msg = m /\ plans[k].effect
  BY DEF Attempted
<1> QED
  BY <1>1 DEF StoryOfMessage, Attempted

\* The same of the next state.
LEMMA StoryOfTheMarkedNext ==
  ASSUME MarkedAlone', NEW k \in PlanKey, plans'[k].effect
  PROVE  StoryOfMessage(k.msg)' = [announced |-> TRUE, contacts |-> clicks'[k.msg], outcome |-> Said(plans'[k].status)]
<1>1. \A j \in PlanKey : j.msg = k.msg /\ plans'[j].effect <=> j = k
  BY DEF MarkedAlone
<1>2. ASSUME NEW status
      PROVE  (\E j \in PlanKey : j.msg = k.msg /\ plans'[j].effect /\ plans'[j].status = status)
               <=> plans'[k].status = status
  BY <1>1
<1>3. Attempted(k.msg)' = TRUE
  BY DEF Attempted
<1>4. StoryOfMessage(k.msg)'.outcome = Said(plans'[k].status)
  BY <1>2 DEF StoryOfMessage, Said
<1> QED
  BY <1>3, <1>4 DEF StoryOfMessage

LEMMA StoryOfTheUnmarkedNext ==
  ASSUME NEW m, ~Attempted(m)'
  PROVE  StoryOfMessage(m)' = [announced |-> FALSE, contacts |-> clicks'[m], outcome |-> "none"]
<1>1. ~\E k \in PlanKey : k.msg = m /\ plans'[k].effect
  BY DEF Attempted
<1> QED
  BY <1>1 DEF StoryOfMessage, Attempted

\* Only a click adds to the clicks, and only of a message whose plan bears the mark.
LEMMA ClicksMove ==
  ASSUME ReplyInv, ReplyInv', [ReplyNext]_replyVars, NEW m \in Messages
  PROVE  \/ clicks'[m] = clicks[m]
         \/ clicks[m] = 0 /\ clicks'[m] = 1 /\ Attempted(m) /\ UNCHANGED plans
<1>1. ASSUME NEW w \in Workers, Click(w)
      PROVE  \/ clicks'[m] = clicks[m]
             \/ clicks[m] = 0 /\ clicks'[m] = 1 /\ Attempted(m) /\ UNCHANGED plans
  <2>1. Answering(work[w]) /\ Knows(work[w]) /\ Answers(work[w])
    BY <1>1 DEF ReplyInv, WorkersOK, Answering, Click, At
  <2>2. PICK k \in PlanKey : k = Key(work[w]) /\ k.msg = work[w].msg /\ plans[k].effect
    BY <2>1, AnsweringKey DEF Answers
  <2>3. clicks[m] \in 0..1 /\ clicks'[m] \in 0..1
    BY DEF ReplyInv, EffectsOK
  <2>4. clicks'[m] = clicks[m] \/ (m = k.msg /\ clicks'[m] = clicks[m] + 1)
    BY <1>1, <2>2 DEF Click, ReplyInv, EffectsOK
  <2>5. Attempted(k.msg)
    BY <2>2 DEF Attempted
  <2> QED
    BY <1>1, <2>3, <2>4, <2>5 DEF Click
<1>2. ASSUME NEW w \in Workers, WorkerStep(w), ~Click(w) PROVE UNCHANGED clicks
  BY <1>2 DEF WorkerStep, Execute, Select, Assess, RecordIntention, Restart, Recover, Take, Approach, Gate, Replay,
              Reserve, Judge, RecordEffect, Finish, worldVars
<1>3. ReplyWorld => UNCHANGED clicks
  BY DEF ReplyWorld, Arrive, Analyse, RetireAnalysis, CloseProspect, Reactivate, LeaseRunsOut, Crash, worldVars
<1> QED
  BY <1>1, <1>2, <1>3 DEF ReplyNext, replyVars, worldVars

\* A plan changes its status towards a verdict in a recovery, or when the worker that
\* holds it closes it.
LEMMA StatusMoves ==
  ASSUME ReplyInv, ReplyInv', [ReplyNext]_replyVars, NEW k \in PlanKey, plans[k].effect
  PROVE  \/ Said(plans'[k].status) = Said(plans[k].status)
         \/ /\ plans[k].status = "CLAIMED"
            /\ UNCHANGED clicks
            /\ \/ plans'[k].status \in {"SENT", "FAILED"} /\ clicks[k.msg] = 1
               \/ plans'[k].status = "AMBIGUOUS"
<1> DEFINE Same == Said(plans'[k].status) = Said(plans[k].status)
<1>0. plans[k] \in Plan
  BY DEF ReplyInv, PlansOK
<1>1. ASSUME NEW w \in Workers, RecordIntention(w) PROVE Same
  <2>2. ~Replaceable(k, KeyOf(w))
    BY DEF Replaceable
  <2>3. CASE k = KeyOf(w)
    <3>1. AlreadyActed(KeyOf(w))
      BY <2>3 DEF AlreadyActed, Attempted
    <3> QED
      BY <1>1, <3>1 DEF RecordIntention, RecordPlan
  <2>4. CASE k # KeyOf(w)
    <3>1. (Recorded(KeyOf(w), work[w].decision, work[w].mark))[k] = plans[k]
      BY <2>2, <2>4 DEF Recorded
    <3> QED
      BY <1>1, <3>1 DEF RecordIntention, RecordPlan
  <2> QED
    BY <2>3, <2>4
<1>2. ASSUME NEW w \in Workers, Recover(w)
      PROVE  Same \/ (plans[k].status = "CLAIMED" /\ UNCHANGED clicks /\ plans'[k].status = "AMBIGUOUS")
  <2>1. plans[k].lease = "expired" => plans[k].status = "CLAIMED" /\ plans'[k] = RecoveredPlan(plans[k])
    BY <1>2 DEF Recover, RecoverExpiredLeases, ReplyInv, PlansOK, PlanAccepted
  <2>2. plans[k].lease # "expired" => plans'[k] = plans[k]
    BY <1>2 DEF Recover, RecoverExpiredLeases
  <2> QED
    BY <1>0, <1>2, <2>1, <2>2, RowsRewritten DEF Recover, worldVars
<1>3. ASSUME NEW w \in Workers, Take(w) PROVE Same
  BY <1>0, <1>3 DEF Take, ClaimPlan, CanClaimPlan, ReplyInv, PlansOK
<1>4. ASSUME NEW w \in Workers, Reserve(w) PROVE Same
  BY <1>0, <1>4 DEF Reserve, ReserveEffect, CanReserveEffect, ReplyInv, PlansOK
<1>5. ASSUME NEW w \in Workers, Finish(w)
      PROVE  \/ Same
             \/ /\ plans[k].status = "CLAIMED" /\ UNCHANGED clicks
                /\ \/ plans'[k].status \in {"SENT", "FAILED"} /\ clicks[k.msg] = 1
                   \/ plans'[k].status = "AMBIGUOUS"
  <2>0. work[w].pc = "recorded" /\ work[w] \in Work /\ Knows(work[w]) /\ Answers(work[w]) /\ UNCHANGED clicks
    BY <1>5 DEF Finish, At, ReplyInv, WorkersOK, worldVars
  <2>1. CASE ~(k = KeyOf(w) /\ HoldsPlan(k, w))
    BY <1>5, <2>1 DEF Finish, FinalizePlan, ReplyInv, PlansOK
  <2>2. CASE k = KeyOf(w) /\ HoldsPlan(k, w)
    <3>1. PICK status \in {"SENT", "FAILED", "AMBIGUOUS", "BLOCKED", "SKIPPED"} : status = work[w].verdict
      BY <2>0 DEF Knows, Work, Verdicts
    <3>2. plans' = [plans EXCEPT ![k] = Unclaimed(plans[k], status)]
      BY <1>5, <2>2, <3>1 DEF Finish, FinalizePlan
    <3>3. plans'[k].status = status /\ plans[k].status = "CLAIMED"
      BY <1>0, <2>2, <3>2, RowsRewritten DEF HoldsPlan, ReplyInv, PlansOK
    <3>4. status \in {"SENT", "FAILED"} => clicks[k.msg] = 1
      BY <2>0, <2>2, <3>1 DEF Answers, Answering, EffectVerdicts, KeyOf, Key
    <3>5. status \in {"BLOCKED", "SKIPPED"} => Same
      BY <3>3 DEF Said
    <3> QED
      BY <2>0, <3>1, <3>3, <3>4, <3>5
  <2> QED
    BY <2>1, <2>2
<1>6. ASSUME NEW j \in PlanKey, LeaseRunsOut(j) PROVE Same
  BY <1>0, <1>6 DEF LeaseRunsOut, LeaseExpires, ReplyInv, PlansOK
<1>7. ASSUME NEW w \in Workers,
             \/ Select(w) \/ Assess(w) \/ Restart(w) \/ Approach(w) \/ Gate(w) \/ Replay(w)
             \/ Click(w) \/ Judge(w) \/ RecordEffect(w) \/ Crash(w)
      PROVE  UNCHANGED plans
  BY <1>7 DEF Select, Assess, Restart, Approach, Gate, Replay, Click, Judge, RecordEffect, Crash
<1>8. ASSUME NEW m \in Messages, Arrive(m) \/ Analyse(m) \/ RetireAnalysis(m) PROVE UNCHANGED plans
  BY <1>8 DEF Arrive, Analyse, RetireAnalysis
<1>9. CloseProspect \/ Reactivate \/ UNCHANGED replyVars => UNCHANGED plans
  BY DEF CloseProspect, Reactivate, replyVars
<1>10. UNCHANGED plans => Same
  OBVIOUS
<1> HIDE DEF Same
<1>11. CASE \E w \in Workers : WorkerStep(w)
  BY <1>1, <1>2, <1>3, <1>4, <1>5, <1>7, <1>10, <1>11 DEF WorkerStep, Execute, Same
<1>12. CASE ReplyWorld
  BY <1>6, <1>7, <1>8, <1>9, <1>10, <1>12 DEF ReplyWorld, Same
<1> QED
  BY <1>9, <1>10, <1>11, <1>12 DEF ReplyNext, Same

\* The steps of SendOnce, on a story written out.
LEMMA StoryMoves ==
  ASSUME NEW s, NEW t, NEW a, NEW b, NEW c,
         s = [announced |-> a, contacts |-> b, outcome |-> c]
  PROVE  /\ ~a /\ c = "none" /\ t = [announced |-> TRUE, contacts |-> b, outcome |-> c]
              => Promise!Announce(s, t)
         /\ a /\ b = 0 /\ t = [announced |-> a, contacts |-> 1, outcome |-> c]
              => Promise!Contact(s, t)
         /\ \A o \in Promise!Outcomes :
              /\ c = "none" /\ t = [announced |-> a, contacts |-> b, outcome |-> o]
              /\ (o = "REVIEW_REQUIRED" /\ a) \/ (o \in {"SENT", "DELIVERY_FAILED"} /\ b = 1)
              => Promise!Settle(s, t)
<1>1. \A x : /\ [s EXCEPT !.announced = x] = [announced |-> x, contacts |-> b, outcome |-> c]
             /\ [s EXCEPT !.contacts = x] = [announced |-> a, contacts |-> x, outcome |-> c]
             /\ [s EXCEPT !.outcome = x] = [announced |-> a, contacts |-> b, outcome |-> x]
  OBVIOUS
<1>2. s.announced = a /\ s.contacts = b /\ s.outcome = c
  OBVIOUS
<1>3. ASSUME ~a, c = "none", t = [announced |-> TRUE, contacts |-> b, outcome |-> c]
      PROVE  Promise!Announce(s, t)
  BY <1>1, <1>2, <1>3 DEF Promise!Announce
<1>4. ASSUME a, b = 0, t = [announced |-> a, contacts |-> 1, outcome |-> c]
      PROVE  Promise!Contact(s, t)
  BY <1>1, <1>2, <1>4 DEF Promise!Contact
<1>5. ASSUME NEW o \in Promise!Outcomes,
             c = "none", t = [announced |-> a, contacts |-> b, outcome |-> o],
             (o = "REVIEW_REQUIRED" /\ a) \/ (o \in {"SENT", "DELIVERY_FAILED"} /\ b = 1)
      PROVE  Promise!Settle(s, t)
  <2>1. Promise!Settles(s, o) /\ s.outcome = "none"
    BY <1>2, <1>5 DEF Promise!Settles
  <2> QED
    BY <1>1, <1>5, <2>1 DEF Promise!Settle
<1> QED
  BY <1>3, <1>4, <1>5

\* The story of each message moves as SendOnce lets it, or does not move.
LEMMA StoryStep ==
  ASSUME ReplyInv, ReplyInv', PlansMove, [ReplyNext]_replyVars, NEW m \in Messages
  PROVE  \/ StoryOfMessage(m)' = StoryOfMessage(m)
         \/ Promise!Announce(StoryOfMessage(m), StoryOfMessage(m)')
         \/ Promise!Contact(StoryOfMessage(m), StoryOfMessage(m)')
         \/ Promise!Settle(StoryOfMessage(m), StoryOfMessage(m)')
<1>0. MarkedAlone /\ MarkedAlone'
  BY DEF ReplyInv, PlansOK
<1>1. clicks[m] \in 0..1 /\ (clicks[m] = 1 => Attempted(m))
  BY DEF ReplyInv, EffectsOK
<1>2. ASSUME NEW k \in PlanKey, k.msg = m, plans[k].effect
      PROVE  \/ StoryOfMessage(m)' = StoryOfMessage(m)
             \/ Promise!Contact(StoryOfMessage(m), StoryOfMessage(m)')
             \/ Promise!Settle(StoryOfMessage(m), StoryOfMessage(m)')
  <2> DEFINE said == Said(plans[k].status)
             next == Said(plans'[k].status)
  <2>1. plans'[k].effect
    BY <1>2 DEF PlansMove
  <2>2. StoryOfMessage(m) = [announced |-> TRUE, contacts |-> clicks[m], outcome |-> said]
    BY <1>0, <1>2, StoryOfTheMarked
  <2>3. StoryOfMessage(m)' = [announced |-> TRUE, contacts |-> clicks'[m], outcome |-> next]
    BY <1>0, <1>2, <2>1, StoryOfTheMarkedNext
  <2>4. CASE clicks'[m] # clicks[m]
    <3>1. clicks[m] = 0 /\ clicks'[m] = 1 /\ next = said
      BY <2>4, ClicksMove
    <3> HIDE DEF said, next
    <3>2. /\ StoryOfMessage(m) = [announced |-> TRUE, contacts |-> 0, outcome |-> said]
          /\ StoryOfMessage(m)' = [announced |-> TRUE, contacts |-> 1, outcome |-> said]
      BY <2>2, <2>3, <3>1
    <3> QED
      BY <3>2, StoryMoves
  <2>5. CASE clicks'[m] = clicks[m] /\ next = said
    BY <2>2, <2>3, <2>5
  <2>6. CASE clicks'[m] = clicks[m] /\ next # said
    <3>1. /\ plans[k].status = "CLAIMED"
          /\ \/ plans'[k].status \in {"SENT", "FAILED"} /\ clicks[m] = 1
             \/ plans'[k].status = "AMBIGUOUS"
      BY <1>2, <2>6, StatusMoves
    <3>2. /\ said = "none" /\ next \in Promise!Outcomes
          /\ next = "REVIEW_REQUIRED" \/ (next \in {"SENT", "DELIVERY_FAILED"} /\ clicks[m] = 1)
      BY <3>1 DEF Said, Promise!Outcomes
    <3> HIDE DEF said, next
    <3>3. /\ StoryOfMessage(m) = [announced |-> TRUE, contacts |-> clicks[m], outcome |-> "none"]
          /\ StoryOfMessage(m)' = [announced |-> TRUE, contacts |-> clicks[m], outcome |-> next]
      BY <2>2, <2>3, <2>6, <3>2
    <3> QED
      BY <3>2, <3>3, StoryMoves
  <2> QED
    BY <2>4, <2>5, <2>6
<1>3. CASE ~Attempted(m)
  <2>1. clicks[m] = 0 /\ clicks'[m] = 0
    BY <1>1, <1>3, ClicksMove
  <2>2. StoryOfMessage(m) = [announced |-> FALSE, contacts |-> 0, outcome |-> "none"]
    BY <1>3, <2>1, StoryOfTheUnmarked
  <2>3. CASE ~Attempted(m)'
    <3>1. StoryOfMessage(m)' = [announced |-> FALSE, contacts |-> 0, outcome |-> "none"]
      BY <2>1, <2>3, StoryOfTheUnmarkedNext
    <3> QED
      BY <2>2, <3>1
  <2>4. CASE Attempted(m)'
    <3>1. PICK k \in PlanKey : k.msg = m /\ plans'[k].effect
      BY <2>4 DEF Attempted
    <3>2. plans'[k].status = "CLAIMED"
      BY <1>3, <3>1 DEF PlansMove, Attempted
    <3>3. StoryOfMessage(m)' = [announced |-> TRUE, contacts |-> 0, outcome |-> "none"]
      BY <1>0, <2>1, <3>1, <3>2, StoryOfTheMarkedNext DEF Said
    <3> QED
      BY <2>2, <3>3, StoryMoves
  <2> QED
    BY <2>3, <2>4
<1> QED
  BY <1>2, <1>3 DEF Attempted

\* One message gets one answer at most, announced before it is made and settled once,
\* however often it is read again, planned again, claimed again or abandoned, and
\* however many runtimes and operators work on it.
THEOREM ReplyPromise == ReplySpec => ReplyKeepsItsPromise
<1>1. ReplyInit => Promise!Init
  <2> SUFFICES ASSUME ReplyInit, NEW m \in Messages PROVE StoryOfMessage(m) = Promise!Untold
    BY DEF Promise!Init
  <2>1. ~Attempted(m)
    BY DEF ReplyInit, PlansInit, NoPlan, Attempted
  <2> QED
    BY <2>1, StoryOfTheUnmarked DEF ReplyInit, Promise!Untold
<1>2. ReplyInv /\ [ReplyNext]_replyVars => [Promise!Next]_[m \in Messages |-> StoryOfMessage(m)]
  <2> SUFFICES ASSUME ReplyInv, [ReplyNext]_replyVars
               PROVE  Promise!Next
    OBVIOUS
  <2>1. ReplyInv' /\ PlansMove
    BY ReplyStepKeeps
  <2>2. ASSUME NEW m \in Messages
        PROVE  LET s == StoryOfMessage(m) IN
                 \/ s' = s \/ Promise!Announce(s, s') \/ Promise!Contact(s, s') \/ Promise!Settle(s, s')
    BY <2>1, StoryStep
  <2> QED
    BY <2>2 DEF Promise!Next
<1> QED
  BY <1>1, <1>2, ReplyInvariance, PTL DEF ReplySpec, ReplyKeepsItsPromise, Promise!Spec
=============================================================================
