----------------------------- MODULE MCServices -----------------------------
(***************************************************************************)
(* The services on small instances.  The queue's ring of three slots wraps *)
(* its indices at different times; three timers are due at once, and in    *)
(* turn; the rest is two of everything that can collide.                   *)
(***************************************************************************)
EXTENDS Services

\* What follows when a part has left what its property speaks of is not explored.
Explored == ~strayed /\ ~raced /\ ~slipped /\ ~overtaken /\ ~muddled
=============================================================================
