---------------------------- MODULE MessageQueue ----------------------------
(***************************************************************************)
(* The fixed-depth message queue of src/src/kernel/mq.c: a ring of         *)
(* max_msgs slots in a buffer its owner supplies, with a write index, a    *)
(* read index and a count.  One action per call, each the whole call: this *)
(* is the queue as callers that take turns see it.  MessageQueueIsr splits *)
(* the calls where an interrupt can fall.                                  *)
(***************************************************************************)
EXTENDS Integers, Sequences

CONSTANTS Msgs,      \* the contents a slot can be given by memcpy
          Junk,      \* what the supplied buffer holds before the first send
          max_msgs   \* the depth given to mp_mq_init

ASSUME DepthAssumption == max_msgs \in Nat \ {0}
ASSUME JunkAssumption == Junk \notin Msgs

VARIABLES buffer,    \* slot -> contents
          head,      \* slot the next send writes
          tail,      \* slot the next receive reads
          cur_msgs,  \* how many messages the queue holds
          answer     \* what the last call returned to its caller

vars == <<buffer, head, tail, cur_msgs, answer>>

Slots == 0 .. max_msgs - 1

\* The index after i on the ring.
After(i) == (i + 1) % max_msgs

Init == /\ buffer = [i \in Slots |-> Junk]
        /\ head = 0
        /\ tail = 0
        /\ cur_msgs = 0
        /\ answer = [op |-> "none", ret |-> 0, msg |-> {}]

\* Mutant of MqInit: the read index is not reset.
MqInitKeepsTail == /\ head' = 0
                   /\ cur_msgs' = 0
                   /\ answer' = [op |-> "init", ret |-> 0, msg |-> {}]
                   /\ UNCHANGED <<buffer, tail>>

(***************************************************************************)
(* mp_mq_init on a queue already in use: the indices and the count go back *)
(* to 0, the slots keep what they hold.                                    *)
(***************************************************************************)
MqInit == /\ head' = 0
          /\ tail' = 0
          /\ cur_msgs' = 0
          /\ answer' = [op |-> "init", ret |-> 0, msg |-> {}]
          /\ UNCHANGED buffer

\* Mutant of Full: off by one.
FullLate == cur_msgs > max_msgs

Full == cur_msgs >= max_msgs

MqSend(m) == /\ ~Full
             /\ buffer' = [buffer EXCEPT ![head] = m]
             /\ head' = After(head)
             /\ cur_msgs' = cur_msgs + 1
             /\ answer' = [op |-> "send", ret |-> 0, msg |-> {m}]
             /\ UNCHANGED tail

\* A full queue refuses at once, whatever timeout the caller gave.
MqSendFull == /\ Full
              /\ answer' = [op |-> "send", ret |-> -1, msg |-> {}]
              /\ UNCHANGED <<buffer, head, tail, cur_msgs>>

\* Mutant of MqReceive: it reads at the write index.
MqReceiveAtHead == /\ cur_msgs # 0
                   /\ answer' = [op |-> "receive", ret |-> 0, msg |-> {buffer[head]}]
                   /\ tail' = After(tail)
                   /\ cur_msgs' = cur_msgs - 1
                   /\ UNCHANGED <<buffer, head>>

MqReceive == /\ cur_msgs # 0
             /\ answer' = [op |-> "receive", ret |-> 0, msg |-> {buffer[tail]}]
             /\ tail' = After(tail)
             /\ cur_msgs' = cur_msgs - 1
             /\ UNCHANGED <<buffer, head>>

\* An empty queue answers at once, whatever timeout the caller gave.
MqReceiveEmpty == /\ cur_msgs = 0
                  /\ answer' = [op |-> "receive", ret |-> -1, msg |-> {}]
                  /\ UNCHANGED <<buffer, head, tail, cur_msgs>>

Next == \/ \E m \in Msgs : MqSend(m)
        \/ MqSendFull
        \/ MqReceive
        \/ MqReceiveEmpty
        \/ MqInit

Spec == Init /\ [][Next]_vars
-----------------------------------------------------------------------------
\* Every variable of mq.c's queue keeps its type, the indices on the ring.
TypeOK == /\ buffer \in [Slots -> Msgs \cup {Junk}]
          /\ head \in Slots
          /\ tail \in Slots
          /\ cur_msgs \in 0 .. max_msgs
          /\ answer \in [op : {"none", "init", "send", "receive"},
                         ret : {0, -1},
                         msg : SUBSET (Msgs \cup {Junk})]

(***************************************************************************)
(* The write index is the read index advanced by the count: mq.c keeps the *)
(* three apart and updates two of them in each call, and every later call  *)
(* goes wrong once they disagree.                                          *)
(***************************************************************************)
RingConsistent == head = (tail + cur_msgs) % max_msgs

\* The slot of the i-th oldest message.
SlotOf(i) == (tail + i - 1) % max_msgs

(***************************************************************************)
(* The slots between the read and the write index hold messages callers    *)
(* sent, never what the buffer held before: receive hands out no Junk.     *)
(***************************************************************************)
OnlySentMessages == \A i \in 1 .. cur_msgs : buffer[SlotOf(i)] \in Msgs

\* The queue a caller would describe: the counted slots, oldest first.
Contents == [i \in 1 .. cur_msgs |-> buffer[SlotOf(i)]]

Fifo == INSTANCE BoundedFifo WITH queue <- Contents, Capacity <- max_msgs

(***************************************************************************)
(* mq.c implements BoundedFifo: calls that take turns see one FIFO queue,  *)
(* lose no message, get none twice, and are refused only when it is full   *)
(* or empty.                                                               *)
(***************************************************************************)
ImplementsFifo == Fifo!Spec
=============================================================================
