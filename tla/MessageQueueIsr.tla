--------------------------- MODULE MessageQueueIsr ---------------------------
(***************************************************************************)
(* The same queue when a thread's call is interrupted.  The critical       *)
(* sections of src/src/kernel/mq.c are commented out, so an interrupt      *)
(* handler that sends or receives can run between any two memory accesses  *)
(* of the thread's call.  On one core the handler's own call is not        *)
(* interrupted by the thread: it is an action of MessageQueue, whole.      *)
(* The thread's call is a sequence of steps, one per access to a field     *)
(* that the handler's call also uses; cur_msgs++ and cur_msgs-- are a load *)
(* and a store.                                                            *)
(***************************************************************************)
EXTENDS MessageQueue

CONSTANT SizeMod  \* cur_msgs is a size_t: it counts modulo SizeMod > max_msgs

VARIABLES pc,     \* where the thread's call is, "out" between calls
          carry,  \* the message it sends or has copied out
          loaded  \* the value of cur_msgs it has in a register

isrVars == <<buffer, head, tail, cur_msgs, answer, pc, carry, loaded>>

IsrInit == /\ Init
           /\ pc = "out"
           /\ carry = Junk
           /\ loaded = 0

Step(from, to) == pc = from /\ pc' = to

\* Both calls read cur_msgs first, and answer -1 at once on a refusal.
ThreadRefused == /\ pc = "out"
                 /\ MqSendFull \/ MqReceiveEmpty
                 /\ UNCHANGED <<pc, carry, loaded>>

ThreadSendTest(m) == /\ Step("out", "write")
                     /\ ~Full
                     /\ carry' = m
                     /\ UNCHANGED <<buffer, head, tail, cur_msgs, answer, loaded>>

ThreadSendWrite == /\ Step("write", "head")
                   /\ buffer' = [buffer EXCEPT ![head] = carry]
                   /\ UNCHANGED <<head, tail, cur_msgs, answer, carry, loaded>>

ThreadSendHead == /\ Step("head", "load_inc")
                  /\ head' = After(head)
                  /\ UNCHANGED <<buffer, tail, cur_msgs, answer, carry, loaded>>

ThreadReceiveTest == /\ Step("out", "read")
                     /\ cur_msgs # 0
                     /\ UNCHANGED <<buffer, head, tail, cur_msgs, answer, carry, loaded>>

ThreadReceiveRead == /\ Step("read", "tail")
                     /\ carry' = buffer[tail]
                     /\ UNCHANGED <<buffer, head, tail, cur_msgs, answer, loaded>>

ThreadReceiveTail == /\ Step("tail", "load_dec")
                     /\ tail' = After(tail)
                     /\ UNCHANGED <<buffer, head, cur_msgs, answer, carry, loaded>>

ThreadLoadCount == /\ \/ Step("load_inc", "inc")
                      \/ Step("load_dec", "dec")
                   /\ loaded' = cur_msgs
                   /\ UNCHANGED <<buffer, head, tail, cur_msgs, answer, carry>>

ThreadSendCount == /\ Step("inc", "out")
                   /\ cur_msgs' = (loaded + 1) % SizeMod
                   /\ answer' = [op |-> "send", ret |-> 0, msg |-> {carry}]
                   /\ UNCHANGED <<buffer, head, tail, carry, loaded>>

ThreadReceiveCount == /\ Step("dec", "out")
                      /\ cur_msgs' = (loaded - 1) % SizeMod
                      /\ answer' = [op |-> "receive", ret |-> 0, msg |-> {carry}]
                      /\ UNCHANGED <<buffer, head, tail, carry, loaded>>

\* The interrupt handler's call, at any point of the thread's.
HandlerCall == /\ \/ \E m \in Msgs : MqSend(m)
                  \/ MqSendFull
                  \/ MqReceive
                  \/ MqReceiveEmpty
               /\ UNCHANGED <<pc, carry, loaded>>

IsrNext == \/ ThreadRefused
           \/ \E m \in Msgs : ThreadSendTest(m)
           \/ ThreadSendWrite
           \/ ThreadSendHead
           \/ ThreadReceiveTest
           \/ ThreadReceiveRead
           \/ ThreadReceiveTail
           \/ ThreadLoadCount
           \/ ThreadSendCount
           \/ ThreadReceiveCount
           \/ HandlerCall

IsrSpec == IsrInit /\ [][IsrNext]_isrVars
-----------------------------------------------------------------------------
(***************************************************************************)
(* An ISR-safe queue (Architecture document, 4.8) is consistent whenever   *)
(* no call is under way, whoever called: the write index is the read index *)
(* advanced by the count.                                                  *)
(***************************************************************************)
IsrSafe == pc = "out" => RingConsistent
=============================================================================
