----------------------------- MODULE MCReplies -----------------------------
(* Instances of Replies for TLC. *)
EXTENDS Replies
CONSTANTS w1, w2

\* Two bubbles in one breath, or a silence between them.
OneClock == {<<1, 2>>}
TwoClocks == {<<1, 2>>, <<1, 4>>}
ThreeClocks == {<<1, 2, 3>>, <<1, 2, 5>>, <<1, 4, 5>>}
=============================================================================
