------------------------ MODULE CanaryAuthorization ------------------------
(***************************************************************************)
(* The table ig_live_canary_authorizations and the statements of           *)
(* lib/instagram/canary.ts that write it: the named, one-shot permission   *)
(* without which no first contact is ever clicked.                         *)
(*                                                                         *)
(* Authorizations are numbered in arming order, so "the latest armed_at"   *)
(* is the largest number.  The digests, the handle and the action an       *)
(* authorization repeats are functions of its manifest and are abstracted  *)
(* into it.                                                                *)
(***************************************************************************)
EXTENDS RailParameters

CONSTANTS
    NoManifest,  \* the manifest of a row not inserted yet
    MaxCanaries  \* bound: authorizations ever armed

ASSUME CanaryAssumption == /\ NoManifest \notin Jobs
                           /\ MaxCanaries \in Nat

VARIABLE canaries

CanaryIds == 1..MaxCanaries

LiveStates == {"ARMED", "RESERVED"}

\* "NEW" is a row not inserted yet.  `overdue` is expires_at <= now().
\* `by` is reserved_by, kept by CONSUMED and EXPIRED rows; `used` is
\* external_attempts_used, and max_external_attempts is 1 by constraint.
Canary == [ state    : LiveStates \cup {"NEW", "CONSUMED", "EXPIRED", "REVOKED"},
            manifest : Jobs \cup {NoManifest},
            kind     : {"HUMAN", "AUTONOMOUS_POLICY"},
            by       : Workers \cup {Nobody},
            used     : 0..1,
            overdue  : BOOLEAN ]

ArmedRow(m, kind) == [ state |-> "ARMED", manifest |-> m, kind |-> kind,
                       by |-> Nobody, used |-> 0, overdue |-> FALSE ]

CanaryInit ==
    canaries = [c \in CanaryIds |-> [ArmedRow(NoManifest, "HUMAN") EXCEPT !.state = "NEW"]]

-----------------------------------------------------------------------------
(* Statements *)

IsStale(c) == canaries[c].state \in LiveStates /\ canaries[c].overdue

\* expireStaleCanaryAuthorizations.
Swept(c) == IF IsStale(c) THEN [canaries[c] EXCEPT !.state = "EXPIRED"] ELSE canaries[c]

ExpireStale == canaries' = [c \in CanaryIds |-> Swept(c)]

\* ig_live_canary_one_live_idx: at most one ARMED or RESERVED row, globally.
SlotFree == \A c \in CanaryIds : Swept(c).state \notin LiveStates

Fresh(c) == /\ canaries[c].state = "NEW"
            /\ \A d \in CanaryIds : d < c => canaries[d].state # "NEW"

\* armCanaryAuthorization.  `attempted` is the answer of its query on
\* ig_dispatch_jobs: an effect was already attempted for this manifest.  The
\* sweep in front of the insert stays even when the insert is refused.
Arm(m, kind, attempted) ==
    \/ /\ ~attempted
       /\ SlotFree
       /\ \E c \in CanaryIds :
            /\ Fresh(c)
            /\ canaries' = [d \in CanaryIds |->
                              IF d = c
                              THEN ArmedRow(m, kind)
                              ELSE Swept(d)]
    \/ /\ attempted \/ ~SlotFree
       /\ ExpireStale

\* loadCanaryForManifest: the live one first, then the latest armed.
IssuedFor(m) == {c \in CanaryIds : canaries[c].state # "NEW" /\ canaries[c].manifest = m}

LoadedFor(m, c) ==
    /\ c \in IssuedFor(m)
    /\ \/ canaries[c].state \in LiveStates
       \/ /\ \A d \in IssuedFor(m) : canaries[d].state \notin LiveStates
          /\ \A d \in IssuedFor(m) : d <= c

\* isReplaceableCanaryAuthorization: dead without ever having been spent.
IsReplaceable(c) == canaries[c].state \in {"REVOKED", "EXPIRED"} /\ canaries[c].used = 0

\* checkCanaryAuthorization says ok.
CheckPasses(c) == canaries[c].state = "ARMED" /\ ~canaries[c].overdue /\ canaries[c].used < 1

CanReserve(c, m) ==
    /\ canaries[c].state = "ARMED"
    /\ ~canaries[c].overdue
    /\ canaries[c].used < 1
    /\ canaries[c].manifest = m

\* reserveCanaryAuthorization.
Reserve(c, m, w) ==
    /\ CanReserve(c, m)
    /\ canaries' = [canaries EXCEPT ![c].state = "RESERVED", ![c].by = w]

HoldsReservation(c, m, w) ==
    canaries[c].state = "RESERVED" /\ canaries[c].by = w /\ canaries[c].manifest = m

CanConsume(c, m, w) ==
    HoldsReservation(c, m, w) /\ ~canaries[c].overdue /\ canaries[c].used < 1

\* Mutated: the attempt is counted, the state is left.
Consume_CountsOnly(c, m, w) ==
    /\ CanConsume(c, m, w)
    /\ canaries' = [canaries EXCEPT ![c].used = @ + 1]

\* consumeCanaryReservation: the last statement that can still say no to a
\* permission that lapsed or changed hands.
Consume(c, m, w) ==
    /\ CanConsume(c, m, w)
    /\ canaries' = [canaries EXCEPT ![c].state = "CONSUMED", ![c].used = @ + 1]

\* Mutated: the release does not look whether the reservation is still held.
Release_Unchecked(c, m, w) ==
    canaries' = [canaries EXCEPT ![c].state = "ARMED", ![c].by = Nobody]

\* releaseCanaryReservation: gives back only a reservation still held.
Release(c, m, w) ==
    canaries' = IF HoldsReservation(c, m, w)
                THEN [canaries EXCEPT ![c].state = "ARMED", ![c].by = Nobody]
                ELSE canaries

\* revokeCanaryAuthorization: an ARMED one only.
Revoke(c) ==
    /\ canaries[c].state = "ARMED"
    /\ canaries' = [canaries EXCEPT ![c].state = "REVOKED"]

\* Time passes over expires_at.
TtlElapses(c) ==
    /\ canaries[c].state \in LiveStates
    /\ ~canaries[c].overdue
    /\ canaries' = [canaries EXCEPT ![c].overdue = TRUE]

-----------------------------------------------------------------------------
CanaryTypeOK == canaries \in [CanaryIds -> Canary]
=============================================================================
