------------------------- MODULE ConversationPlans -------------------------
(***************************************************************************)
(* hermes_conversation_plans for one prospect and the kind AUTO_REPLY:     *)
(* migration 0049 and the statements of lib/conversation/plan.ts, each of  *)
(* which is one transaction.  A plan is named by its idempotency key, that *)
(* is by the message it answers and the analysis it was understood under.  *)
(* `not_before` is left to the environment: a plan is due at any moment.   *)
(***************************************************************************)
EXTENDS Integers, FiniteSets

CONSTANTS
    Workers,      \* processes that may hold a plan
    Nobody,
    MaxMessages,  \* bound: messages of the prospect
    MaxReadings   \* bound: analyses of one message

ASSUME PlansAssumption ==
    /\ Nobody \notin Workers
    /\ MaxMessages \in Nat /\ MaxReadings \in Nat

VARIABLE plans

Messages == 1..MaxMessages

PlanKey == [msg : Messages, reading : 1..MaxReadings]

LivePlanStatuses == {"PLANNED", "CLAIMED", "SKIPPED"}
ClaimablePlanStatuses == {"PLANNED", "SKIPPED"}
TerminalPlanStatuses == {"SUPERSEDED", "CANCELLED", "BLOCKED", "FAILED", "SENT", "AMBIGUOUS"}

\* `token` stands for the four columns of the claim, which the code writes
\* together; a token is fresh, but its worker has no other on the same plan.
Plan == [ status : {"NONE"} \cup LivePlanStatuses \cup TerminalPlanStatuses,
          effect : BOOLEAN,                   \* external_effect_attempted
          token  : Workers \cup {Nobody},
          lease  : {"none", "running", "expired"},
          mark   : 0..MaxMessages ]           \* conversation_watermark

NoPlan == [status |-> "NONE", effect |-> FALSE, token |-> Nobody, lease |-> "none", mark |-> 0]

\* The CHECK constraints that relate two columns.
PlanAccepted(p) ==
    /\ (p.status = "CLAIMED") = (p.token # Nobody)
    /\ (p.token = Nobody) = (p.lease = "none")
    /\ p.status \in {"SENT", "AMBIGUOUS"} => p.effect

Live(k) == plans[k].status \in LivePlanStatuses

\* hermes_plan_one_live_per_prospect_kind.
OneLive == \A j, k \in PlanKey : Live(j) /\ Live(k) => j = k

PlansInit == plans = [k \in PlanKey |-> NoPlan]

Attempted(m) == \E k \in PlanKey : k.msg = m /\ plans[k].effect

Unclaimed(p, status) == [p EXCEPT !.status = status, !.token = Nobody, !.lease = "none"]

-----------------------------------------------------------------------------
(* recordConversationPlan *)

\* A live plan under another key that has touched nothing, held or not.
Replaceable(k, new) == k # new /\ Live(k) /\ ~plans[k].effect

\* planStaysLive, closedStatusFor.
StatusFor(decision) ==
    CASE decision = "ELIGIBLE" -> "PLANNED"
      [] decision = "ESCALATE" -> "BLOCKED"
      [] OTHER                 -> "CANCELLED"

\* Mutated: the key alone is trusted to keep a message from being answered twice.
AlreadyActed_KeyOnly(k) == plans[k].effect

\* The message bears an attempt, under whatever key.
AlreadyActed(k) == Attempted(k.msg)

Recorded(k, decision, mark) ==
    [j \in PlanKey |->
        CASE Replaceable(j, k) -> Unclaimed(plans[j], "SUPERSEDED")
          [] j = k /\ plans[k].status = "NONE"
                 -> [NoPlan EXCEPT !.status = StatusFor(decision), !.mark = mark]
          [] OTHER -> plans[j]]

\* The insertion meets the index: a live plan that has acted is still there.
RecordRaises(k, decision) ==
    /\ ~AlreadyActed(k)
    /\ plans[k].status = "NONE"
    /\ decision = "ELIGIBLE"
    /\ \E j \in PlanKey : j # k /\ Live(j) /\ plans[j].effect

RecordPlan(k, decision, mark) ==
    /\ ~RecordRaises(k, decision)
    /\ plans' = IF AlreadyActed(k) THEN plans ELSE Recorded(k, decision, mark)

-----------------------------------------------------------------------------
(* Claim, finalization, recovery, reservation *)

CanClaimPlan(k) == plans[k].status \in ClaimablePlanStatuses /\ ~plans[k].effect

ClaimPlan(k, w) ==
    /\ CanClaimPlan(k)
    /\ plans' = [plans EXCEPT ![k].status = "CLAIMED", ![k].token = w, ![k].lease = "running"]

\* Mutated: the row is written whoever holds it by then.
HoldsPlan_Unchecked(k, w) == TRUE

HoldsPlan(k, w) == plans[k].status = "CLAIMED" /\ plans[k].token = w

\* finalizeConversationPlan, which does nothing to a plan the worker has lost.
FinalizePlan(k, w, status) ==
    plans' = IF HoldsPlan(k, w)
             THEN [plans EXCEPT ![k] = Unclaimed(@, status)]
             ELSE plans

\* Mutated: only the plans that may start again are taken back.
RecoveredPlan_UnlessActed(p) == IF p.effect THEN p ELSE Unclaimed(p, "PLANNED")

RecoveredPlan(p) == Unclaimed(p, IF p.effect THEN "AMBIGUOUS" ELSE "PLANNED")

\* recoverExpiredConversationLeases.
RecoverExpiredLeases ==
    plans' = [k \in PlanKey |-> IF plans[k].lease = "expired" THEN RecoveredPlan(plans[k]) ELSE plans[k]]

\* reserveConversationEffectSlot, past the caps, which are a refusal like others.
CanReserveEffect(k, w) == HoldsPlan(k, w) /\ ~plans[k].effect

ReserveEffect(k, w) ==
    /\ CanReserveEffect(k, w)
    /\ plans' = [plans EXCEPT ![k].effect = TRUE]

LeaseExpires(k) ==
    /\ plans[k].lease = "running"
    /\ plans' = [plans EXCEPT ![k].lease = "expired"]
=============================================================================
