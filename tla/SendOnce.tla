------------------------------ MODULE SendOnce ------------------------------
(***************************************************************************)
(* What the first-contact rail promises about one intent, without workers, *)
(* leases, permissions or clocks (src/lib/instagram/queue.ts, header of    *)
(* "l'inscription durable d'une tentative d'effet"):                       *)
(*                                                                         *)
(*   - a contact is announced before it is made, and made at most once;    *)
(*   - an intent is settled once; SENT and DELIVERY_FAILED are said of a   *)
(*     contact made, REVIEW_REQUIRED of one that may have been, and        *)
(*     INELIGIBLE of one that never was and never will be.                 *)
(***************************************************************************)
EXTENDS Naturals

CONSTANT Intents

VARIABLE story

Outcomes == {"none", "SENT", "REVIEW_REQUIRED", "DELIVERY_FAILED", "INELIGIBLE"}

Story == [announced : BOOLEAN, contacts : 0..1, outcome : Outcomes]

Untold == [announced |-> FALSE, contacts |-> 0, outcome |-> "none"]

Settles(s, outcome) ==
    \/ outcome \in {"SENT", "DELIVERY_FAILED"} /\ s.contacts = 1
    \/ outcome = "REVIEW_REQUIRED" /\ s.announced
    \/ outcome = "INELIGIBLE" /\ ~s.announced

\* One intent moves from s to t.
Announce(s, t) == ~s.announced /\ s.outcome = "none" /\ t = [s EXCEPT !.announced = TRUE]

Contact(s, t) == s.announced /\ s.contacts = 0 /\ t = [s EXCEPT !.contacts = 1]

Settle(s, t) ==
    /\ s.outcome = "none"
    /\ \E outcome \in Outcomes : Settles(s, outcome) /\ t = [s EXCEPT !.outcome = outcome]

Init == story = [i \in Intents |-> Untold]

\* Any number of intents may move at once: a recovery settles them together.
Next ==
    \A i \in Intents :
        \/ story'[i] = story[i]
        \/ Announce(story[i], story'[i])
        \/ Contact(story[i], story'[i])
        \/ Settle(story[i], story'[i])

Spec == Init /\ [][Next]_story
=============================================================================
