----------------------------- MODULE MCBooking -----------------------------
(* Instances of Booking for TLC. *)
EXTENDS Booking, TLC
CONSTANTS w1, w2, p1, p2, m1, m2, m3

Full(s) == [clarity |-> "full", slots |-> {s}]

\* Slot 2 overlaps both its neighbours, which do not overlap each other; "yes"
\* alone accepts what was offered.
SomeWordings == {Full(1), Full(2), Full(3), [clarity |-> "absent", slots |-> {}]}

BookingSymmetry == Permutations(Processes) \cup Permutations(Prospects) \cup Permutations(Messages)
=============================================================================
