----------------------------- MODULE AutoReply -----------------------------
(***************************************************************************)
(* The automatic reply to one prospect, from the message to the verdict:   *)
(* the runtime's cycle (lib/autoreply/runtime.ts), the assessment and the  *)
(* plan it records, and executeConversationReply (lib/conversation/        *)
(* replyExecution.ts), which the runtime and the operator's command        *)
(* `conversation:reply` both call.  One step per statement, transaction or *)
(* page visit, while messages arrive, are read again, and processes die.   *)
(***************************************************************************)
EXTENDS ConversationPlans

CONSTANTS
    Runtimes,    \* processes running `autoreply:worker`
    Operators,   \* processes running `conversation:reply --live`
    Decisions,   \* what an analysis may lead to, within ELIGIBLE, ESCALATE, STOP
    Budget,      \* max_effects of the activation
    Incidents    \* which of "crash", "raise", "tie", "retire", "close", "revoke" happen

ASSUME ReplyAssumption ==
    /\ Workers = Runtimes \cup Operators
    /\ Runtimes \cap Operators = {}
    /\ Decisions \subseteq {"ELIGIBLE", "ESCALATE", "STOP"}
    /\ Budget \in Nat

VARIABLES
    instant,    \* received_at of each message, 0 before it arrives
    newest,     \* the message `order by received_at desc, id desc` puts first
    reading,    \* the active analysis of each message
    closed,     \* the prospect is suppressed, or in a terminal state
    frontier,   \* frontier_at of the living activation
    work,       \* the local state of each process
    trace,      \* hermes_conversation_effects: the attempts it tells of
    clicks      \* clicks made in answer to each message

inboxVars == <<instant, newest, reading, closed>>
worldVars == <<trace, clicks>>
replyVars == <<plans, inboxVars, frontier, work, worldVars>>

Arrived == {m \in Messages : instant[m] > 0}

\* `version` counts the analyses; `decision` is "none" when none is active.
Reading == [version : 0..MaxReadings, decision : Decisions \cup {"none"}]

Verdicts == {"none", "SENT", "FAILED", "AMBIGUOUS", "BLOCKED", "SKIPPED"}

Steps == {"idle", "selected", "assessed", "executing", "claiming", "claimed",
          "hook", "gated", "cleared", "reserved", "clicked",
          "judged", "recorded", "raised"}

\* The message of the turn, the plan in hand, what the assessment said, and the
\* status the plan is to get.
Work == [ pc : Steps, msg : 0..MaxMessages, reading : 0..MaxReadings,
          decision : Decisions \cup {"none", "STOP"}, mark : 0..MaxMessages, verdict : Verdicts ]

AtRest == [pc |-> "idle", msg |-> 0, reading |-> 0, decision |-> "none", mark |-> 0, verdict |-> "none"]

ReplyInit ==
    /\ PlansInit
    /\ instant = [m \in Messages |-> 0]
    /\ newest = 0
    /\ reading = [m \in Messages |-> [version |-> 0, decision |-> "none"]]
    /\ closed = FALSE
    /\ frontier = 0
    /\ work = [w \in Workers |-> AtRest]
    /\ trace = [k \in PlanKey |-> "none"]
    /\ clicks = [m \in Messages |-> 0]

At(w, step) == work[w].pc = step
Goto(w, step) == work' = [work EXCEPT ![w].pc = step]
Rest(w) == work' = [work EXCEPT ![w] = AtRest]
Ends(w, verdict) == work' = [work EXCEPT ![w].pc = "judged", ![w].verdict = verdict]
KeyOf(w) == [msg |-> work[w].msg, reading |-> work[w].reading]

LatestInboundAt == IF newest = 0 THEN 0 ELSE instant[newest]
LatestInboundTies == Cardinality({m \in Arrived : instant[m] = LatestInboundAt})

-----------------------------------------------------------------------------
(* runAutoReplyCycle: what is to be done *)

\* countActivationEffects, assessRolloutBudget.
BudgetOpen ==
    Cardinality({k \in PlanKey : plans[k].effect /\ instant[k.msg] >= frontier}) < Budget

\* assessAutoReplyEligibility, on the one message the query of candidates returns.
Eligible(m) ==
    /\ m = newest /\ LatestInboundTies = 1
    /\ instant[m] >= frontier
    /\ ~closed
    /\ reading[m].decision # "none"
    /\ ~Attempted(m)

Select(w) ==
    /\ w \in Runtimes /\ At(w, "idle")
    /\ BudgetOpen
    /\ \E m \in Arrived :
         /\ Eligible(m)
         /\ work' = [work EXCEPT ![w].pc = "selected", ![w].msg = m]
    /\ UNCHANGED <<plans, inboxVars, frontier, worldVars>>

NewerInboundExists(m) == LatestInboundAt > instant[m]

\* What decideAutonomousReply may say of message m.  A reply may always be held
\* back: its burst is open, its text is not written yet, a version has changed.
Assessments(m) ==
    IF closed THEN {"STOP"}
    ELSE IF reading[m].decision # "ELIGIBLE" THEN {reading[m].decision, "SKIP"}
    ELSE IF NewerInboundExists(m) THEN {"SKIP"} ELSE {"ELIGIBLE", "SKIP"}

\* assessInboundMessage.  What is not decided yet is not recorded.
Assess(w) ==
    /\ At(w, "selected")
    /\ \/ /\ reading[work[w].msg].decision # "none"
          /\ \E decision \in Assessments(work[w].msg) \ {"SKIP"} :
               work' = [work EXCEPT ![w].pc = "assessed", ![w].decision = decision,
                                    ![w].reading = reading[work[w].msg].version,
                                    ![w].mark = LatestInboundAt]
       \/ /\ reading[work[w].msg].decision = "none" \/ "SKIP" \in Assessments(work[w].msg)
          /\ Rest(w)
    /\ UNCHANGED <<plans, inboxVars, frontier, worldVars>>

\* planConversationReply, then assessPlanReclaim on what it returned: the turn
\* goes on with a plan that may be claimed, once it is due.  A refusal of the
\* database leaves through runAutoReplyRuntime, which ends.
RecordIntention(w) ==
    /\ At(w, "assessed")
    /\ LET k == KeyOf(w) IN
       \/ /\ RecordRaises(k, work[w].decision)
          /\ Goto(w, "raised")
          /\ UNCHANGED plans
       \/ /\ RecordPlan(k, work[w].decision, work[w].mark)
          /\ \/ ~AlreadyActed(k) /\ plans'[k].status \in ClaimablePlanStatuses
                /\ work' = [work EXCEPT ![w].pc = "executing", ![w].decision = "none", ![w].mark = 0]
             \/ Rest(w)
    /\ UNCHANGED <<inboxVars, frontier, worldVars>>

\* The supervisor starts it again.
Restart(w) ==
    /\ At(w, "raised")
    /\ Rest(w)
    /\ UNCHANGED <<plans, inboxVars, frontier, worldVars>>

-----------------------------------------------------------------------------
(* executeConversationReply *)

\* The leases first; an operator starts here, with no plan in mind.
Recover(w) ==
    /\ At(w, "executing") \/ (w \in Operators /\ At(w, "idle"))
    /\ RecoverExpiredLeases
    /\ Goto(w, "claiming")
    /\ UNCHANGED <<inboxVars, frontier, worldVars>>

\* The plan asked for, or any; or none, if it was lost or is not due.
Take(w) ==
    /\ At(w, "claiming")
    /\ \/ \E k \in PlanKey :
            /\ w \in Runtimes => k = KeyOf(w)
            /\ ClaimPlan(k, w)
            /\ work' = [work EXCEPT ![w].pc = "claimed", ![w].msg = k.msg, ![w].reading = k.reading,
                                    ![w].mark = plans[k].mark]
       \/ Rest(w) /\ UNCHANGED plans
    /\ UNCHANGED <<inboxVars, frontier, worldVars>>

\* Mutated: the plan's mark is not looked at.
Stale_TriggerOnly(msg, mark) == newest = msg /\ LatestInboundTies > 1

\* replyStaleness: the last message is this one, alone, or is no later than what
\* the plan knew.
Stale(msg, mark) ==
    IF newest = msg THEN LatestInboundTies > 1 ELSE LatestInboundAt > mark

\* evaluateConversationEffectGate, on the plan as it was claimed.  Kill switch,
\* caps and windows put the plan off.
GateAllows(w) == ~closed /\ ~Stale(work[w].msg, work[w].mark)

\* replayDecision: what is decided today, for the text of the plan.  An analysis
\* made since has its own text, which may be the same.
Replayed(w) ==
    LET today == IF reading[work[w].msg].decision = "none" THEN {"none"} ELSE Assessments(work[w].msg)
    IN  (IF "ELIGIBLE" \in today THEN {"go on"} ELSE {})
        \cup (IF "SKIP" \in today \/ work[w].reading # reading[work[w].msg].version THEN {"SKIPPED"} ELSE {})
        \cup (IF today \cap {"none", "ESCALATE", "STOP"} # {} THEN {"BLOCKED"} ELSE {})

\* The first look - the target, the gate, the decision - and sendThreadReply up
\* to its hook: any of them refuses for now or for good.
Approach(w) ==
    /\ At(w, "claimed")
    /\ \/ GateAllows(w) /\ "go on" \in Replayed(w) /\ Goto(w, "hook")
       \/ Ends(w, "SKIPPED") \/ Ends(w, "BLOCKED")
    /\ UNCHANGED <<plans, inboxVars, frontier, worldVars>>

\* onBeforeExternalEffect: everything again, the gate and then the decision.
Gate(w) ==
    /\ At(w, "hook")
    /\ \/ GateAllows(w) /\ Goto(w, "gated")
       \/ ~GateAllows(w) /\ Ends(w, "BLOCKED")
       \/ Ends(w, "SKIPPED")
    /\ UNCHANGED <<plans, inboxVars, frontier, worldVars>>

Replay(w) ==
    /\ At(w, "gated")
    /\ \E verdict \in Replayed(w) :
         IF verdict = "go on" THEN Goto(w, "cleared") ELSE Ends(w, verdict)
    /\ UNCHANGED <<plans, inboxVars, frontier, worldVars>>

\* The reservation, or its refusal: a cap, a lost lease.
Reserve(w) ==
    /\ At(w, "cleared")
    /\ \/ ReserveEffect(KeyOf(w), w) /\ Goto(w, "reserved")
       \/ Ends(w, "SKIPPED") /\ UNCHANGED plans
    /\ UNCHANGED <<inboxVars, frontier, worldVars>>

\* clickOnce; it may fail before or after the click.
Click(w) ==
    /\ At(w, "reserved")
    /\ \/ clicks' = [clicks EXCEPT ![work[w].msg] = @ + 1] /\ Goto(w, "clicked")
       \/ Ends(w, "AMBIGUOUS") /\ UNCHANGED clicks
    /\ UNCHANGED <<plans, inboxVars, frontier, trace>>

\* judgeReplyOutcome and planStatusFor, or what is concluded of an exception.
Judge(w) ==
    /\ At(w, "clicked")
    /\ \E verdict \in {"SENT", "FAILED", "AMBIGUOUS"} : Ends(w, verdict)
    /\ UNCHANGED <<plans, inboxVars, frontier, worldVars>>

\* recordReplyEffect; if it raises, executeConversationReply puts the plan off.
RecordEffect(w) ==
    /\ At(w, "judged")
    /\ \/ /\ trace' = [trace EXCEPT ![KeyOf(w)] =
                  IF work[w].verdict \in {"SENT", "FAILED", "AMBIGUOUS"} THEN work[w].verdict ELSE @]
          /\ Goto(w, "recorded")
       \/ /\ "raise" \in Incidents
          /\ work' = [work EXCEPT ![w].pc = "recorded", ![w].verdict = "SKIPPED"]
          /\ UNCHANGED trace
    /\ UNCHANGED <<plans, inboxVars, frontier, clicks>>

Finish(w) ==
    /\ At(w, "recorded")
    /\ FinalizePlan(KeyOf(w), w, work[w].verdict)
    /\ Rest(w)
    /\ UNCHANGED <<inboxVars, frontier, worldVars>>

-----------------------------------------------------------------------------
(* The world *)

\* A message is read in the mailbox.  One the page does not date bears the hour
\* of the reading, like its neighbours; then a uuid says which comes first.
Arrive(m) ==
    /\ m \notin Arrived /\ 1..(m - 1) \subseteq Arrived
    /\ \/ instant' = [instant EXCEPT ![m] = LatestInboundAt + 1] /\ newest' = m
       \/ /\ "tie" \in Incidents /\ newest # 0
          /\ instant' = [instant EXCEPT ![m] = LatestInboundAt]
          /\ newest' \in {newest, m}
    /\ UNCHANGED <<plans, reading, closed, frontier, work, worldVars>>

\* A message is understood, or understood again under another analysis.
Analyse(m) ==
    /\ m \in Arrived
    /\ reading[m].version < MaxReadings
    /\ \E decision \in Decisions :
         reading' = [reading EXCEPT ![m] = [version |-> @.version + 1, decision |-> decision]]
    /\ UNCHANGED <<plans, instant, newest, closed, frontier, work, worldVars>>

RetireAnalysis(m) ==
    /\ "retire" \in Incidents
    /\ reading[m].decision # "none"
    /\ reading' = [reading EXCEPT ![m].decision = "none"]
    /\ UNCHANGED <<plans, instant, newest, closed, frontier, work, worldVars>>

CloseProspect ==
    /\ "close" \in Incidents
    /\ ~closed
    /\ closed' = TRUE
    /\ UNCHANGED <<plans, instant, newest, reading, frontier, work, worldVars>>

\* revokeAutoReplyActivation and activateAutoReply, whose frontier is now.  In
\* between the runtime rests, as it may at any time.  With no message yet it
\* would change nothing.
Reactivate ==
    /\ "revoke" \in Incidents
    /\ newest # 0 /\ frontier <= LatestInboundAt
    /\ frontier' = LatestInboundAt + 1
    /\ UNCHANGED <<plans, inboxVars, work, worldVars>>

LeaseRunsOut(k) ==
    /\ LeaseExpires(k)
    /\ UNCHANGED <<inboxVars, frontier, work, worldVars>>

Crash(w) ==
    /\ "crash" \in Incidents
    /\ work[w].pc \notin {"idle", "raised"}
    /\ Rest(w)
    /\ UNCHANGED <<plans, inboxVars, frontier, worldVars>>

-----------------------------------------------------------------------------
Execute(w) ==
    \/ Recover(w) \/ Take(w)
    \/ Approach(w) \/ Gate(w) \/ Replay(w)
    \/ Reserve(w) \/ Click(w) \/ Judge(w) \/ RecordEffect(w) \/ Finish(w)

WorkerStep(w) ==
    \/ Select(w) \/ Assess(w) \/ RecordIntention(w) \/ Restart(w)
    \/ Execute(w)

ReplyWorld ==
    \/ \E m \in Messages : Arrive(m) \/ Analyse(m) \/ RetireAnalysis(m)
    \/ CloseProspect \/ Reactivate
    \/ \E k \in PlanKey : LeaseRunsOut(k)
    \/ \E w \in Workers : Crash(w)

ReplyNext ==
    \/ \E w \in Workers : WorkerStep(w)
    \/ ReplyWorld

ReplySpec == ReplyInit /\ [][ReplyNext]_replyVars

\* Time passes; the processes run, and are run again.
FairReplySpec ==
    /\ ReplySpec
    /\ \A k \in PlanKey : WF_replyVars(LeaseRunsOut(k))
    /\ \A w \in Workers : WF_replyVars(WorkerStep(w))

-----------------------------------------------------------------------------
(* Properties *)

\* Every variable has its type, every plan passes the constraints of 0049, and
\* one plan at most is live.
ReplyTypeOK ==
    /\ plans \in [PlanKey -> Plan]
    /\ \A k \in PlanKey : PlanAccepted(plans[k])
    /\ OneLive
    /\ instant \in [Messages -> 0..MaxMessages]
    /\ newest \in 0..MaxMessages
    /\ reading \in [Messages -> Reading]
    /\ closed \in BOOLEAN
    /\ frontier \in 0..(MaxMessages + 1)
    /\ work \in [Workers -> Work]
    /\ trace \in [PlanKey -> {"none", "SENT", "FAILED", "AMBIGUOUS"}]
    /\ clicks \in [Messages -> Nat]

\* SendOnce for each message received: announced by the attempt of any plan for
\* it; put off, superseded or refused plans say nothing of the message.
StoryOfMessage(m) ==
    [ announced |-> Attempted(m),
      contacts  |-> clicks[m],
      outcome   |-> CASE \E k \in PlanKey : k.msg = m /\ plans[k].effect /\ plans[k].status = "SENT" -> "SENT"
                      [] \E k \in PlanKey : k.msg = m /\ plans[k].effect /\ plans[k].status = "FAILED" -> "DELIVERY_FAILED"
                      [] \E k \in PlanKey : k.msg = m /\ plans[k].effect /\ plans[k].status = "AMBIGUOUS" -> "REVIEW_REQUIRED"
                      [] OTHER -> "none" ]

Promise == INSTANCE SendOnce WITH
    Intents <- Messages, story <- [m \in Messages |-> StoryOfMessage(m)]

\* The reply rail implements the abstract rail: one message gets one answer at
\* most, announced before it is made and settled once, however often it is read
\* again, planned again, claimed again or abandoned.
ReplyKeepsItsPromise == Promise!Spec

\* A plan that is over - superseded by another message or another analysis,
\* refused, cancelled or settled - stays as it is, whoever still works on it.
ClosedStaysClosed ==
    [][\A k \in PlanKey : plans[k].status \in TerminalPlanStatuses => plans'[k] = plans[k]]_replyVars

\* The register never says more than the trace of the attempt: SENT and FAILED
\* after a click were written as such before the plan was closed, and no trace
\* tells of an attempt the plan does not bear.
TraceBearsOutPlan ==
    \A k \in PlanKey :
        /\ plans[k].status \in {"SENT", "FAILED"} => trace[k] = plans[k].status
        /\ trace[k] # "none" => plans[k].effect
        /\ trace[k] \in {"SENT", "FAILED"} => clicks[k.msg] = 1

\* When the hook lets a reply pass, the message it answers is the last one, and
\* no other was received at the same hour.
AnswersTheLastMessage ==
    [][\A w \in Workers :
          At(w, "hook") /\ work'[w].pc = "gated" =>
              \A m \in Arrived : m # work[w].msg => instant[m] < instant[work[w].msg]]_replyVars

\* No process of the runtime ends in an exception: recording an intention first
\* supersedes what the index would refuse it for.
CycleEndsInAResult == \A w \in Workers : ~At(w, "raised")

\* A plan that has acted is never left among those that may start again.
AttemptedNeverWaits == \A k \in PlanKey : plans[k].effect => plans[k].status \notin ClaimablePlanStatuses

\* A plan does not stay claimed: its holder closes it, or its lease runs out and
\* whoever executes next recovers it.
EveryPlanIsLetGo == \A k \in PlanKey : plans[k].status = "CLAIMED" ~> plans[k].status # "CLAIMED"
=============================================================================
