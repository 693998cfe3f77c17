---------------------------- MODULE BoundedFifo ----------------------------
(***************************************************************************)
(* What a microPOSIX message queue promises to its callers: a first-in     *)
(* first-out queue of at most Capacity messages whose calls never block    *)
(* and say by their return code whether they took effect.                  *)
(***************************************************************************)
EXTENDS Integers, Sequences

CONSTANTS Msgs,     \* the messages callers exchange
          Capacity  \* the most messages the queue holds

VARIABLES queue,    \* the messages accepted and not yet delivered, oldest first
          answer    \* what the last call returned to its caller

vars == <<queue, answer>>

Nothing == [op |-> "none", ret |-> 0, msg |-> {}]

Accepted(m)  == [op |-> "send",    ret |-> 0,  msg |-> {m}]
Refused      == [op |-> "send",    ret |-> -1, msg |-> {}]
Delivered(m) == [op |-> "receive", ret |-> 0,  msg |-> {m}]
Absent       == [op |-> "receive", ret |-> -1, msg |-> {}]
Reset        == [op |-> "init",    ret |-> 0,  msg |-> {}]

Init == /\ queue = << >>
        /\ answer = Nothing

Send(m) == /\ Len(queue) < Capacity
           /\ queue' = Append(queue, m)
           /\ answer' = Accepted(m)

Refuse == /\ Len(queue) = Capacity
          /\ answer' = Refused
          /\ UNCHANGED queue

Receive == /\ queue # << >>
           /\ queue' = Tail(queue)
           /\ answer' = Delivered(Head(queue))

Miss == /\ queue = << >>
        /\ answer' = Absent
        /\ UNCHANGED queue

Clear == /\ queue' = << >>
         /\ answer' = Reset

Next == \/ \E m \in Msgs : Send(m)
        \/ Refuse
        \/ Receive
        \/ Miss
        \/ Clear

Spec == Init /\ [][Next]_vars
=============================================================================
