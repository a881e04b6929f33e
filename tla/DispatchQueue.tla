--------------------------- MODULE DispatchQueue ---------------------------
(***************************************************************************)
(* The table ig_dispatch_jobs and the statements of lib/instagram/queue.ts *)
(* that write it.  One row per locked manifest: the unique constraint on   *)
(* (manifest_id, action) and the single action 'first_touch_dm' make the   *)
(* manifest, the intent and the job one identity, so a job is named by its *)
(* manifest.                                                               *)
(*                                                                         *)
(* Every operator below is ONE SQL statement or one transaction, hence one *)
(* atomic step.  Time is abstracted: a lease is running or expired, a job  *)
(* is due or not, and the clock is the pair of actions at the end.         *)
(***************************************************************************)
EXTENDS RailParameters

CONSTANT MaxClaims    \* bound: how often one job may be claimed

ASSUME QueueAssumption == MaxClaims \in Nat

VARIABLE jobs

ClaimableStatuses == {"PENDING", "DRY_RUN_VALIDATED", "BLOCKED", "FAILED", "SKIPPED"}
TerminalStatuses  == {"SENT", "REVIEW_REQUIRED", "DELIVERY_FAILED", "INELIGIBLE"}
JobStatuses       == ClaimableStatuses \cup TerminalStatuses \cup {"CLAIMED"}

\* A row.  "ABSENT" is the row that does not exist; token 0 and canary 0 are
\* null columns.  The lease columns (claimed_by, claimed_at,
\* lease_expires_at) are `by` and `lease`; a claim token is a fresh uuid, and
\* the attempt counter it is issued with is just as fresh within a row.
JobRow == [ status   : JobStatuses \cup {"ABSENT"},
            token    : 0..MaxClaims,
            attempts : 0..MaxClaims,
            by       : Workers \cup {Nobody},
            lease    : {"none", "running", "expired"},
            due      : BOOLEAN,
            skip     : {"none", "TEMPORARY", "TERMINAL"},
            effect   : BOOLEAN,
            canary   : Nat ]

AbsentRow == [ status |-> "ABSENT", token |-> 0, attempts |-> 0, by |-> Nobody,
               lease |-> "none", due |-> FALSE, skip |-> "none",
               effect |-> FALSE, canary |-> 0 ]

\* Mutated: without ig_job_ineligible_has_no_effect.
RowAccepted_IneligibleUnchecked(r) ==
    /\ r.status = "SENT" => r.effect
    /\ r.skip = "TERMINAL" => r.status \in TerminalStatuses
    /\ r.effect => r.canary # 0

\* The CHECK constraints of ig_dispatch_jobs that relate two columns (0029,
\* 0031, 0039).  A statement whose new row breaks one of them raises.
RowAccepted(r) ==
    /\ r.status = "SENT" => r.effect
    /\ r.status = "INELIGIBLE" => ~r.effect /\ r.skip = "TERMINAL"
    /\ r.skip = "TERMINAL" => r.status \in TerminalStatuses
    /\ r.effect => r.canary # 0

QueueInit == jobs = [j \in Jobs |-> AbsentRow]

-----------------------------------------------------------------------------
(* Statements *)

\* enqueueInstagramJob: insert ... on conflict do nothing.  The eligibility
\* gate in front of it is the caller's guard.
Enqueue(j) ==
    /\ jobs[j].status = "ABSENT"
    /\ jobs' = [jobs EXCEPT ![j] = [AbsentRow EXCEPT !.status = "PENDING", !.due = TRUE]]

\* The `where` of the claim's inner select.
CanClaim(j, ignoreSchedule) ==
    /\ jobs[j].status \in ClaimableStatuses
    /\ ignoreSchedule \/ jobs[j].due

\* claimNextInstagramJob on job j.  Nothing here reads the effect flag.
Claim(j, w, ignoreSchedule) ==
    /\ CanClaim(j, ignoreSchedule)
    /\ jobs[j].attempts < MaxClaims
    /\ jobs' = [jobs EXCEPT ![j].status   = "CLAIMED",
                            ![j].token    = jobs[j].attempts + 1,
                            ![j].attempts = jobs[j].attempts + 1,
                            ![j].by       = w,
                            ![j].lease    = "running"]

\* Mutated: the final write without its `where claim_token =`.
HoldsLease_Unchecked(j, token) == TRUE

HoldsLease(j, token) == jobs[j].status = "CLAIMED" /\ jobs[j].token = token

\* The row finalizeInstagramJob writes.  A null skip reason leaves the skip
\* class as it was.
Finalized(j, status, skip, due) ==
    [jobs[j] EXCEPT !.status = status,
                    !.token  = 0,
                    !.by     = Nobody,
                    !.lease  = "none",
                    !.due    = due,
                    !.skip   = IF skip = "none" THEN @ ELSE skip]

\* finalizeInstagramJob: writes only under the token it was given, and
\* reports "not yours any more" (no row updated) otherwise.
Finalize(j, token, status, skip, due) ==
    IF HoldsLease(j, token)
    THEN /\ RowAccepted(Finalized(j, status, skip, due))
         /\ jobs' = [jobs EXCEPT ![j] = Finalized(j, status, skip, due)]
    ELSE UNCHANGED jobs

\* The statement raises: the row it would write breaks a CHECK.
FinalizeRaises(j, token, status, skip, due) ==
    /\ HoldsLease(j, token)
    /\ ~RowAccepted(Finalized(j, status, skip, due))

\* The update at the end of reserveExternalEffectSlot.  It is guarded by the
\* effect flag alone: neither the claim token nor the status is read.
Marked(j, c) == [jobs[j] EXCEPT !.effect = TRUE, !.canary = c]

\* Mutated: the mark may be set again.
CanMarkEffect_Again(j, c) == RowAccepted(Marked(j, c))

CanMarkEffect(j, c) == ~jobs[j].effect /\ RowAccepted(Marked(j, c))

MarkEffect(j, c) ==
    /\ CanMarkEffect(j, c)
    /\ jobs' = [jobs EXCEPT ![j] = Marked(j, c)]

\* Mutated: the recovery leaves attempted jobs to someone else.
LeaseLapsed_NotAttempted(j) ==
    jobs[j].status = "CLAIMED" /\ jobs[j].lease = "expired" /\ ~jobs[j].effect

LeaseLapsed(j) == jobs[j].status = "CLAIMED" /\ jobs[j].lease = "expired"

\* Mutated: the recovery forgets the claim token.
RecoveredRow_KeepsToken(r) ==
    [r EXCEPT !.status = IF r.effect THEN "REVIEW_REQUIRED" ELSE "PENDING",
              !.by     = Nobody,
              !.lease  = "none",
              !.skip   = IF r.effect THEN "TERMINAL" ELSE @]

\* recoverExpiredLeases: one update over every expired lease.
RecoveredRow(r) ==
    [r EXCEPT !.status = IF r.effect THEN "REVIEW_REQUIRED" ELSE "PENDING",
              !.token  = 0,
              !.by     = Nobody,
              !.lease  = "none",
              !.skip   = IF r.effect THEN "TERMINAL" ELSE @]

RecoverExpiredLeases ==
    jobs' = [j \in Jobs |-> IF LeaseLapsed(j) THEN RecoveredRow(jobs[j]) ELSE jobs[j]]

-----------------------------------------------------------------------------
(* The clock, as far as this table can see it *)

LeaseExpires(j) ==
    /\ jobs[j].status = "CLAIMED"
    /\ jobs[j].lease = "running"
    /\ jobs' = [jobs EXCEPT ![j].lease = "expired"]

BecomesDue(j) ==
    /\ jobs[j].status \in ClaimableStatuses
    /\ ~jobs[j].due
    /\ jobs' = [jobs EXCEPT ![j].due = TRUE]

-----------------------------------------------------------------------------
QueueTypeOK == jobs \in [Jobs -> JobRow]

\* The lease columns are all set or all null, and set exactly while the job
\* is claimed (ig_job_claim_lease_coherent).
LeaseCoherent ==
    \A j \in Jobs :
        LET claimed == jobs[j].status = "CLAIMED"
        IN  /\ claimed <=> jobs[j].token # 0
            /\ claimed <=> jobs[j].by # Nobody
            /\ claimed <=> jobs[j].lease # "none"
            /\ claimed => jobs[j].token = jobs[j].attempts
=============================================================================
