--------------------------- MODULE ServiceProofs ----------------------------
(***************************************************************************)
(* What the message queue and the services driven by the tick, the         *)
(* software timers and the software watchdog, prove for every value of     *)
(* their constants.                                                        *)
(***************************************************************************)
EXTENDS MessageQueue, Timer, Watchdog, Chains, FiniteSetTheorems, SequenceTheorems

-----------------------------------------------------------------------------
(***************************************************************************)
(* Advancing less than one turn around a ring of N slots needs no          *)
(* division: the sum itself, or the sum less one turn.                     *)
(***************************************************************************)
LEMMA ModTurn ==
  ASSUME NEW N \in Nat \ {0}, NEW x \in 0 .. 2 * N - 1
  PROVE  x % N = IF x < N THEN x ELSE x - N
<1>1. x % N \in 0 .. N - 1 /\ x = N * (x \div N) + (x % N) /\ x \div N \in Int
  OBVIOUS
<1>2. CASE x < N
  <2>1. x \div N = 0
    BY <1>1, <1>2
  <2> QED
    BY <1>1, <1>2, <2>1
<1>3. CASE x >= N
  <2>1. x \div N = 1
    BY <1>1, <1>3
  <2> QED
    BY <1>1, <1>3, <2>1
<1> QED
  BY <1>2, <1>3

(***************************************************************************)
(* The slot n places after slot i, for n at most one turn of the ring.     *)
(***************************************************************************)
Turn(i, n) == IF i + n < max_msgs THEN i + n ELSE i + n - max_msgs

LEMMA SlotAfter ==
  ASSUME NEW i \in Slots, NEW n \in 0 .. max_msgs
  PROVE  (i + n) % max_msgs = Turn(i, n) /\ Turn(i, n) \in Slots
<1>1. i + n \in 0 .. 2 * max_msgs - 1
  BY DepthAssumption DEF Slots
<1>2. \A x \in 0 .. 2 * max_msgs - 1 :
         x % max_msgs = IF x < max_msgs THEN x ELSE x - max_msgs
  BY DepthAssumption, ModTurn
<1>3. PICK x \in 0 .. 2 * max_msgs - 1 : x = i + n
  BY <1>1
<1>4. x % max_msgs = IF x < max_msgs THEN x ELSE x - max_msgs
  BY <1>2
<1> QED
  BY <1>3, <1>4, DepthAssumption DEF Turn, Slots

LEMMA AfterIsOn == ASSUME NEW i \in Slots
                   PROVE  After(i) = Turn(i, 1) /\ After(i) \in Slots
<1>1. 1 \in 0 .. max_msgs
  BY DepthAssumption
<1> QED
  BY <1>1, SlotAfter DEF After
-----------------------------------------------------------------------------
(***************************************************************************)
(* Every variable keeps its type and the count is what the two indices     *)
(* say: the part of the argument that TypeOK and RingConsistent need of    *)
(* each other, since only a count below max_msgs keeps head = tail from    *)
(* meaning both full and empty.                                            *)
(***************************************************************************)
RingInv == TypeOK /\ RingConsistent

LEMMA InitRingInv == Init => RingInv
<1> SUFFICES ASSUME Init PROVE RingInv
  OBVIOUS
<1>1. TypeOK
  BY DepthAssumption DEF Init, TypeOK, Slots
<1>2. head = Turn(tail, cur_msgs)
  BY DepthAssumption DEF Init, Turn
<1> QED
  BY <1>1, <1>2, SlotAfter DEF RingInv, RingConsistent, TypeOK

LEMMA NextRingInv == RingInv /\ [Next]_vars => RingInv'
<1> SUFFICES ASSUME RingInv, [Next]_vars PROVE RingInv'
  OBVIOUS
<1>t. TypeOK /\ head = Turn(tail, cur_msgs)
  BY SlotAfter DEF RingInv, RingConsistent, TypeOK
<1>s. SUFFICES TypeOK' /\ head' = Turn(tail', cur_msgs')
  BY SlotAfter DEF RingInv, RingConsistent, TypeOK
<1>1. ASSUME NEW m \in Msgs, MqSend(m)
      PROVE  TypeOK' /\ head' = Turn(tail', cur_msgs')
  <2>1. TypeOK'
    BY <1>t, <1>1, AfterIsOn, DepthAssumption DEF MqSend, Full, TypeOK
  <2>2. head' = Turn(head, 1) /\ tail' = tail /\ cur_msgs' = cur_msgs + 1
    BY <1>t, <1>1, AfterIsOn DEF MqSend, TypeOK
  <2>3. cur_msgs < max_msgs
    BY <1>t, <1>1, DepthAssumption DEF MqSend, Full, TypeOK
  <2> QED
    BY <1>t, <2>1, <2>2, <2>3, DepthAssumption DEF Turn, TypeOK, Slots
<1>2. ASSUME MqReceive
      PROVE  TypeOK' /\ head' = Turn(tail', cur_msgs')
  <2>1. TypeOK'
    BY <1>t, <1>2, AfterIsOn, DepthAssumption DEF MqReceive, TypeOK
  <2>2. head' = head /\ tail' = Turn(tail, 1) /\ cur_msgs' = cur_msgs - 1
    BY <1>t, <1>2, AfterIsOn DEF MqReceive, TypeOK
  <2>3. cur_msgs # 0
    BY <1>2 DEF MqReceive
  <2> QED
    BY <1>t, <2>1, <2>2, <2>3, DepthAssumption DEF Turn, TypeOK, Slots
<1>3. CASE MqSendFull
  BY <1>t, <1>3 DEF MqSendFull, TypeOK
<1>4. CASE MqReceiveEmpty
  BY <1>t, <1>4 DEF MqReceiveEmpty, TypeOK
<1>5. CASE MqInit
  BY <1>t, <1>5, DepthAssumption DEF MqInit, TypeOK, Turn, Slots
<1>6. CASE UNCHANGED vars
  BY <1>t, <1>6 DEF vars, TypeOK
<1> QED
  BY <1>1, <1>2, <1>3, <1>4, <1>5, <1>6 DEF Next

\* The queue's fields keep their types, whatever the depth and the messages.
THEOREM TypeCorrect == Spec => []TypeOK
<1>1. RingInv => TypeOK
  BY DEF RingInv
<1> QED
  BY <1>1, InitRingInv, NextRingInv, PTL DEF Spec

\* The two indices and the count never disagree, whatever the depth.
THEOREM RingStaysConsistent == Spec => []RingConsistent
<1>1. RingInv => RingConsistent
  BY DEF RingInv
<1> QED
  BY <1>1, InitRingInv, NextRingInv, PTL DEF Spec
-----------------------------------------------------------------------------
(***************************************************************************)
(* The i-th oldest message sits i - 1 places after the read index, and     *)
(* distinct places less than a turn apart are distinct slots.              *)
(***************************************************************************)
LEMMA SlotOfPlace ==
  ASSUME TypeOK, NEW i \in 1 .. max_msgs
  PROVE  SlotOf(i) = Turn(tail, i - 1) /\ SlotOf(i) \in Slots
<1>1. i - 1 \in 0 .. max_msgs /\ tail + i - 1 = tail + (i - 1)
  BY DepthAssumption DEF TypeOK, Slots
<1> QED
  BY <1>1, SlotAfter DEF SlotOf, TypeOK

LEMMA PlacesDiffer ==
  ASSUME NEW t \in Slots, NEW i \in 0 .. max_msgs - 1,
         NEW j \in 0 .. max_msgs - 1, i # j
  PROVE  Turn(t, i) # Turn(t, j)
  BY DepthAssumption DEF Turn, Slots

\* RingInv, and every counted slot holds a message somebody sent.
MqInv == RingInv /\ OnlySentMessages

\* A send leaves the counted slots alone and fills the next one.
LEMMA SendAppends ==
  ASSUME RingInv, RingInv', NEW m \in Msgs, MqSend(m)
  PROVE  /\ cur_msgs' = cur_msgs + 1
         /\ \A i \in 1 .. cur_msgs' :
               buffer'[SlotOf(i)'] = IF i <= cur_msgs THEN buffer[SlotOf(i)] ELSE m
<1>1. /\ TypeOK /\ tail' = tail /\ cur_msgs' = cur_msgs + 1
      /\ cur_msgs \in 0 .. max_msgs - 1 /\ head = Turn(tail, cur_msgs)
      /\ buffer' = [buffer EXCEPT ![head] = m]
  BY SlotAfter, DepthAssumption
     DEF MqSend, Full, RingInv, RingConsistent, TypeOK
<1>2. ASSUME NEW i \in 1 .. cur_msgs'
      PROVE  buffer'[SlotOf(i)'] = IF i <= cur_msgs THEN buffer[SlotOf(i)] ELSE m
  <2>1. i \in 1 .. max_msgs /\ i - 1 \in 0 .. max_msgs - 1
        /\ (i <= cur_msgs <=> i - 1 # cur_msgs)
    BY <1>1, DepthAssumption DEF TypeOK
  <2>2. SlotOf(i) = Turn(tail, i - 1) /\ SlotOf(i) \in Slots /\ SlotOf(i)' = SlotOf(i)
    BY <1>1, <2>1, SlotOfPlace DEF SlotOf
  <2>3. SlotOf(i) # head <=> i - 1 # cur_msgs
    BY <1>1, <2>1, <2>2, PlacesDiffer DEF TypeOK
  <2> QED
    BY <1>1, <2>1, <2>2, <2>3 DEF TypeOK
<1> QED
  BY <1>1, <1>2

\* A receive takes the oldest message and moves every other one up a place.
LEMMA ReceiveShifts ==
  ASSUME RingInv, MqReceive
  PROVE  /\ cur_msgs' = cur_msgs - 1
         /\ SlotOf(1) = tail
         /\ \A i \in 1 .. cur_msgs' : buffer'[SlotOf(i)'] = buffer[SlotOf(i + 1)]
<1>1. /\ TypeOK /\ TypeOK' /\ tail' = Turn(tail, 1) /\ cur_msgs' = cur_msgs - 1
      /\ cur_msgs \in 1 .. max_msgs /\ buffer' = buffer
  BY AfterIsOn, NextRingInv, DepthAssumption
     DEF MqReceive, RingInv, TypeOK, Next
<1>2. SlotOf(1) = tail
  BY <1>1, SlotOfPlace, DepthAssumption DEF Turn, TypeOK, Slots
<1>3. ASSUME NEW i \in 1 .. cur_msgs'
      PROVE  buffer'[SlotOf(i)'] = buffer[SlotOf(i + 1)]
  <2>1. i \in 1 .. max_msgs /\ i + 1 \in 1 .. max_msgs /\ i - 1 \in 0 .. max_msgs
    BY <1>1, DepthAssumption DEF TypeOK
  <2>2. SlotOf(i + 1) = Turn(tail, i)
    BY <1>1, <2>1, SlotOfPlace
  <2>3. SlotOf(i)' = Turn(tail', i - 1)
    <3>1. i - 1 \in 0 .. max_msgs /\ tail' + i - 1 = tail' + (i - 1) /\ tail' \in Slots
      BY <1>1, <2>1, DepthAssumption DEF TypeOK, Slots
    <3> QED
      BY <3>1, SlotAfter DEF SlotOf
  <2>4. Turn(tail', i - 1) = Turn(tail, i)
    BY <1>1, <2>1, DepthAssumption DEF Turn, TypeOK, Slots
  <2> QED
    BY <1>1, <2>2, <2>3, <2>4
<1> QED
  BY <1>1, <1>2, <1>3
-----------------------------------------------------------------------------
LEMMA InitMqInv == Init => MqInv
  BY InitRingInv, DepthAssumption DEF MqInv, OnlySentMessages, Init

LEMMA NextMqInv == MqInv /\ [Next]_vars => MqInv'
<1> SUFFICES ASSUME MqInv, [Next]_vars PROVE MqInv'
  OBVIOUS
<1>0. RingInv /\ RingInv' /\ TypeOK /\ OnlySentMessages
  BY NextRingInv DEF MqInv, RingInv
<1>1. ASSUME NEW m \in Msgs, MqSend(m) PROVE OnlySentMessages'
  <2>1. \A i \in 1 .. cur_msgs' : i <= cur_msgs => i \in 1 .. cur_msgs
    BY <1>0, <1>1 DEF MqSend, TypeOK
  <2> QED
    BY <1>0, <1>1, <2>1, SendAppends DEF OnlySentMessages
<1>2. ASSUME MqReceive PROVE OnlySentMessages'
  <2>1. \A i \in 1 .. cur_msgs' : i + 1 \in 1 .. cur_msgs
    BY <1>0, <1>2, DepthAssumption DEF MqReceive, TypeOK
  <2> QED
    BY <1>0, <1>2, <2>1, ReceiveShifts DEF OnlySentMessages
<1>3. ASSUME MqInit PROVE OnlySentMessages'
  <2>1. cur_msgs' = 0
    BY <1>3 DEF MqInit
  <2> QED
    BY <2>1 DEF OnlySentMessages
<1>4. ASSUME UNCHANGED <<buffer, head, tail, cur_msgs>> PROVE OnlySentMessages'
  BY <1>0, <1>4 DEF OnlySentMessages, SlotOf
<1> QED
  BY <1>0, <1>1, <1>2, <1>3, <1>4
     DEF MqInv, Next, MqSendFull, MqReceiveEmpty, vars

\* Receive never hands out what the buffer held before the first send.
THEOREM NoJunkDelivered == Spec => []OnlySentMessages
<1>1. MqInv => OnlySentMessages
  BY DEF MqInv
<1> QED
  BY <1>1, InitMqInv, NextMqInv, PTL DEF Spec
-----------------------------------------------------------------------------
\* The counted slots are a sequence of as many messages.
LEMMA ContentsIsSeq ==
  ASSUME MqInv
  PROVE  /\ Contents \in Seq(Msgs)
         /\ Len(Contents) = cur_msgs
         /\ \A i \in 1 .. cur_msgs : Contents[i] = buffer[SlotOf(i)]
<1>1. cur_msgs \in Nat
  BY DepthAssumption DEF MqInv, RingInv, TypeOK
<1> QED
  BY <1>1 DEF MqInv, OnlySentMessages, Contents

(***************************************************************************)
(* A step of the ring is the step of the FIFO queue of the same name, or   *)
(* leaves it alone.                                                        *)
(***************************************************************************)
LEMMA StepsMap ==
  MqInv /\ MqInv' /\ [Next]_vars => [Fifo!Next]_(Fifo!vars)
<1> SUFFICES ASSUME MqInv, MqInv', [Next]_vars
             PROVE  [Fifo!Next]_(Fifo!vars)
  OBVIOUS
<1>0. RingInv /\ RingInv' /\ TypeOK /\ cur_msgs \in Nat /\ cur_msgs <= max_msgs
  BY DepthAssumption DEF MqInv, RingInv, TypeOK
<1>c. /\ Contents \in Seq(Msgs) /\ Len(Contents) = cur_msgs
      /\ \A i \in 1 .. cur_msgs : Contents[i] = buffer[SlotOf(i)]
  BY ContentsIsSeq
<1>d. /\ Contents' \in Seq(Msgs) /\ Len(Contents') = cur_msgs'
      /\ \A i \in 1 .. cur_msgs' : Contents'[i] = buffer'[SlotOf(i)']
  <2>1. cur_msgs' \in Nat
    BY DepthAssumption DEF MqInv, RingInv, TypeOK
  <2> QED
    BY <2>1 DEF MqInv, OnlySentMessages, Contents
<1>1. ASSUME NEW m \in Msgs, MqSend(m) PROVE Fifo!Send(m)
  <2>1. Contents' = Append(Contents, m)
    <3>1. cur_msgs' = cur_msgs + 1 /\
          \A i \in 1 .. cur_msgs' :
             buffer'[SlotOf(i)'] = IF i <= cur_msgs THEN buffer[SlotOf(i)] ELSE m
      BY <1>0, <1>1, SendAppends
    <3>2. /\ Append(Contents, m) \in Seq(Msgs)
          /\ Len(Append(Contents, m)) = cur_msgs + 1
          /\ \A i \in 1 .. cur_msgs + 1 :
               Append(Contents, m)[i] = IF i <= cur_msgs THEN Contents[i] ELSE m
      BY <1>c, <1>1, <1>0
    <3>3. \A i \in 1 .. Len(Contents') : Contents'[i] = Append(Contents, m)[i]
      BY <1>0, <1>c, <1>d, <3>1, <3>2
    <3> QED
      BY <1>d, <3>1, <3>2, <3>3, SeqEqual
  <2>2. Len(Contents) < max_msgs
    BY <1>0, <1>1, <1>c, DepthAssumption DEF MqSend, Full
  <2> QED
    BY <1>1, <2>1, <2>2 DEF MqSend, Fifo!Send, Fifo!Accepted
<1>2. ASSUME MqReceive PROVE Fifo!Receive
  <2>0. cur_msgs' = cur_msgs - 1 /\ SlotOf(1) = tail /\ cur_msgs >= 1
        /\ \A i \in 1 .. cur_msgs' : buffer'[SlotOf(i)'] = buffer[SlotOf(i + 1)]
    BY <1>0, <1>2, ReceiveShifts DEF MqReceive
  <2>1. Contents' = Tail(Contents)
    <3>2. /\ Tail(Contents) \in Seq(Msgs)
          /\ Len(Tail(Contents)) = cur_msgs - 1
          /\ \A i \in 1 .. cur_msgs - 1 : Tail(Contents)[i] = Contents[i + 1]
      BY <1>c, <1>0, <2>0
    <3>3. \A i \in 1 .. Len(Contents') : Contents'[i] = Tail(Contents)[i]
      BY <1>0, <1>c, <1>d, <2>0, <3>2
    <3> QED
      BY <1>d, <2>0, <3>2, <3>3, SeqEqual
  <2>2. Contents # << >> /\ Head(Contents) = buffer[tail]
    BY <1>0, <1>c, <2>0
  <2> QED
    BY <1>2, <2>1, <2>2 DEF MqReceive, Fifo!Receive, Fifo!Delivered
<1>3. ASSUME UNCHANGED <<buffer, head, tail, cur_msgs>>
      PROVE  Contents' = Contents
  BY <1>3 DEF Contents, SlotOf
<1>4. ASSUME MqSendFull PROVE Fifo!Refuse
  BY <1>0, <1>c, <1>3, <1>4, DepthAssumption
     DEF MqSendFull, Full, Fifo!Refuse, Fifo!Refused
<1>5. ASSUME MqReceiveEmpty PROVE Fifo!Miss
  BY <1>0, <1>c, <1>3, <1>5, EmptySeq
     DEF MqReceiveEmpty, Fifo!Miss, Fifo!Absent
<1>6. ASSUME MqInit PROVE Fifo!Clear
  BY <1>d, <1>6, EmptySeq DEF MqInit, Fifo!Clear, Fifo!Reset
<1>7. ASSUME UNCHANGED vars PROVE UNCHANGED Fifo!vars
  BY <1>3, <1>7 DEF vars, Fifo!vars
<1> QED
  BY <1>1, <1>2, <1>4, <1>5, <1>6, <1>7 DEF Next, Fifo!Next

\* The ring of mq.c implements the bounded FIFO queue, whatever its depth.
THEOREM RingImplementsFifo == Spec => ImplementsFifo
<1>1. Init => Fifo!Init
  BY EmptySeq DEF Init, Fifo!Init, Fifo!Nothing, Contents
<1> QED
  BY <1>1, InitMqInv, NextMqInv, StepsMap, PTL
     DEF Spec, ImplementsFifo, Fifo!Spec

-----------------------------------------------------------------------------
(***************************************************************************)
(* The timers.  The timers started are a chain from timer_list.  Unless it *)
(* lost its place, the walk is at a timer of the chain, or in the callback *)
(* of one that left it and whose link still leads into the chain; and the  *)
(* timers that were due when the walk began and still wait are ahead.      *)
(***************************************************************************)
TimerChain(s) == IsChain(s, Timers, timer_list, next, NULL) /\ Members(s) = started

WalkIsOn == /\ curr \in Timers \cup {NULL}
            /\ stage \in {"idle", "visit", "callback"}
            /\ lost \in BOOLEAN
            /\ stage = "visit" /\ ~lost => curr \in started \cup {NULL}
            /\ stage = "callback" => curr \in Timers
            /\ stage = "callback" /\ ~lost => \/ curr \in started
                                             \/ next[curr] \in started \cup {NULL}

WaitersDue == /\ waiting \subseteq started
              /\ \A t \in waiting : due[t] = 0
              /\ stage = "idle" => waiting = {}
              /\ stage = "callback" => curr \notin waiting

WaitersAhead(s) == /\ stage = "visit" /\ ~lost => waiting \subseteq Ahead(s, curr)
                   /\ stage = "callback" /\ ~lost => waiting \subseteq Ahead(s, next[curr])

TimerInv == /\ started \subseteq Timers
            /\ next \in [Timers -> Timers \cup {NULL}]
            /\ due \in [Timers -> Int] /\ period \in [Timers -> Int]
            /\ WalkIsOn
            /\ WaitersDue
            /\ \E s : TimerChain(s) /\ WaitersAhead(s)

LEMMA TimersCount == Cardinality(Timers) \in Nat
  BY TimersAssumption, FS_CardinalityType

\* The recursion of Place has a solution: the walk along the chain.
LEMMA TimerPlaceGoesAlong ==
  ASSUME NEW s, TimerChain(s)
  PROVE  /\ DOMAIN Place = 0 .. Cardinality(Timers)
         /\ \A n \in 0 .. Cardinality(Timers) : Place[n] = Along(s, n, NULL)
<1> DEFINE N == Cardinality(Timers)
           F(p, n) == IF n = 0 THEN timer_list
                      ELSE IF p[n - 1] = NULL THEN NULL ELSE next[p[n - 1]]
           g == [n \in 0 .. N |-> Along(s, n, NULL)]
<1>0. N \in Nat BY TimersCount
<1>1. /\ s \in Seq(Timers) /\ timer_list = FirstOf(s, NULL) /\ NULL \notin Timers
      /\ \A i \in 1 .. Len(s) : next[s[i]] = Follower(s, i, NULL)
  BY DEF TimerChain, IsChain
<1>2. ASSUME NEW n \in 0 .. N PROVE Along(s, n, NULL) = F(g, n)
  <2> HIDE DEF N
  <2>1. CASE n = 0 BY <1>1, <2>1 DEF Along, FirstOf
  <2>2. CASE n # 0 /\ n \in 1 .. Len(s)
    <3>1. n - 1 \in 0 .. N /\ g[n - 1] = s[n] BY <1>0, <1>1, <2>2 DEF Along
    <3>2. s[n] \in Timers BY <1>1, <2>2
    <3>3. next[s[n]] = Along(s, n, NULL) BY <1>1, <2>2, AlongFollower
    <3> QED BY <1>1, <2>2, <3>1, <3>2, <3>3
  <2>3. CASE n # 0 /\ n \notin 1 .. Len(s)
    <3>1. n - 1 \in 0 .. N /\ g[n - 1] = NULL /\ Along(s, n, NULL) = NULL
      BY <1>0, <1>1, <2>3 DEF Along
    <3> QED BY <2>3, <3>1
  <2> QED BY <2>1, <2>2, <2>3
<1>3. g = [n \in 0 .. N |-> F(g, n)] BY <1>2
<1>4. Place = [n \in 0 .. N |-> F(Place, n)] BY <1>3 DEF Place
<1>a. DOMAIN Place = 0 .. N BY <1>4
<1> HIDE DEF N
<1>5. Place[0] = timer_list BY <1>0, <1>4
<1>6. ASSUME NEW n \in 1 .. N
      PROVE  /\ Place[n - 1] = NULL => Place[n] = NULL
             /\ Place[n - 1] \in Timers => Place[n] = next[Place[n - 1]]
  <2>1. Place[n] = F(Place, n) BY <1>0, <1>4
  <2> QED BY <1>1, <2>1
<1> HIDE DEF F, g
<1>7. IsChain(s, Timers, timer_list, next, NULL) BY DEF TimerChain
<1>8. Walks(Place, N, Timers, timer_list, next, NULL) BY <1>0, <1>5, <1>6 DEF Walks
<1>9. \A n \in 0 .. N : Place[n] = Along(s, n, NULL) BY <1>7, <1>8, WalkGoesAlong
<1> QED BY <1>a, <1>9 DEF N

LEMMA ChainFits ==
  ASSUME NEW s, TimerChain(s)
  PROVE  Len(s) \in 0 .. Cardinality(Timers)
<1>1. s \in Seq(Timers) /\ Once(s) /\ DOMAIN s = 1 .. Len(s) /\ Len(s) \in Nat
  BY DEF TimerChain, IsChain
<1>2. s \in Injection(1 .. Len(s), Timers) BY <1>1 DEF Injection, IsInjective, Once
<1>3. Cardinality(1 .. Len(s)) <= Cardinality(Timers) BY <1>2, TimersAssumption, FS_Injection
<1>4. Cardinality(1 .. Len(s)) = Len(s) BY <1>1, FS_Interval
<1> QED BY <1>1, <1>3, <1>4, TimersCount

LEMMA ListedIsStarted ==
  ASSUME NEW s, TimerChain(s)
  PROVE  /\ Place[Cardinality(Timers)] = NULL
         /\ \A t \in Timers : Listed(t) <=> t \in started
<1> DEFINE N == Cardinality(Timers)
<1>1. s \in Seq(Timers) /\ NULL \notin Timers /\ Members(s) = started /\ N \in Nat /\ Len(s) <= N
  BY TimersCount, ChainFits DEF TimerChain, IsChain
<1>2. DOMAIN Place = 0 .. N /\ \A n \in 0 .. N : Place[n] = Along(s, n, NULL) BY TimerPlaceGoesAlong
<1> HIDE DEF N
<1>4. /\ {Along(s, n, NULL) : n \in 0 .. N} \ {NULL} = Members(s)
      /\ Along(s, N, NULL) = NULL
  BY <1>1, MetAlong
<1>5. Place[N] = NULL BY <1>1, <1>2, <1>4
<1>6. ASSUME NEW t \in Timers PROVE Listed(t) <=> t \in started
  <2>1. Listed(t) <=> \E n \in 0 .. N : Along(s, n, NULL) = t BY <1>2 DEF Listed
  <2>2. (\E n \in 0 .. N : Along(s, n, NULL) = t) <=> t \in Members(s) BY <1>1, <1>4
  <2> QED BY <1>1, <2>1, <2>2
<1> QED BY <1>5, <1>6 DEF N

LEMMA TimerInitInv == TimerInit => TimerInv
<1> SUFFICES ASSUME TimerInit PROVE TimerInv
  OBVIOUS
<1>1. << >> \in Seq(Timers) /\ Len(<< >>) = 0 /\ DOMAIN << >> = {} OBVIOUS
<1>2. TimerChain(<< >>)
  BY <1>1, TimersAssumption DEF TimerInit, TimerChain, IsChain, Once, FirstOf, Members
<1>3. WalkIsOn /\ WaitersDue /\ WaitersAhead(<< >>)
  BY DEF TimerInit, WalkIsOn, WaitersDue, WaitersAhead
<1>4. /\ started \subseteq Timers /\ next \in [Timers -> Timers \cup {NULL}]
      /\ due \in [Timers -> Int] /\ period \in [Timers -> Int]
  BY DEF TimerInit
<1> QED BY <1>2, <1>3, <1>4 DEF TimerInv

\* What is ahead in the chain of the timers started, and one link further.
LEMMA AheadOfTimer ==
  ASSUME NEW s, TimerChain(s), started \subseteq Timers
  PROVE  /\ started = Ahead(s, timer_list)
         /\ Ahead(s, NULL) = {}
         /\ \A t \in started : Ahead(s, t) \ {t} \subseteq Ahead(s, next[t])
<1>1. /\ s \in Seq(Timers) /\ Once(s) /\ DOMAIN s = 1 .. Len(s) /\ Len(s) \in Nat
      /\ Members(s) = started /\ NULL \notin Timers /\ timer_list = FirstOf(s, NULL)
      /\ \A i \in 1 .. Len(s) : next[s[i]] = Follower(s, i, NULL)
  BY DEF TimerChain, IsChain
<1>2. started \subseteq Ahead(s, timer_list) BY <1>1, AheadOfFirst
<1>3. \A c : Ahead(s, c) \subseteq Members(s) BY DEF Ahead, Members
<1>4. Ahead(s, NULL) = {}
  <2>1. ASSUME NEW i \in 1 .. Len(s) PROVE s[i] # NULL BY <1>1
  <2>2. \A t : t \notin Ahead(s, NULL) BY <1>1, <2>1, AheadIs
  <2> QED BY <2>2
<1>5. ASSUME NEW t \in started PROVE Ahead(s, t) \ {t} \subseteq Ahead(s, next[t])
  <2>1. PICK i \in 1 .. Len(s) : s[i] = t BY <1>1 DEF Members
  <2>2. Ahead(s, s[i]) \ {s[i]} \subseteq Ahead(s, Follower(s, i, NULL)) BY <1>1, AheadOfFollower
  <2> QED BY <1>1, <2>1, <2>2
<1> QED BY <1>1, <1>2, <1>3, <1>4, <1>5

\* What links a started timer may have.
LEMMA LinkOfStarted ==
  ASSUME NEW s, TimerChain(s), NEW t \in started
  PROVE  next[t] \in (started \ {t}) \cup {NULL}
<1>1. /\ s \in Seq(Timers) /\ Once(s) /\ DOMAIN s = 1 .. Len(s) /\ Len(s) \in Nat
      /\ Members(s) = started /\ \A i \in 1 .. Len(s) : next[s[i]] = Follower(s, i, NULL)
  BY DEF TimerChain, IsChain
<1>2. PICK i \in 1 .. Len(s) : s[i] = t BY <1>1 DEF Members
<1>3. CASE i = Len(s) BY <1>1, <1>2, <1>3 DEF Follower
<1>4. CASE i # Len(s)
  <2>0. Len(s) \in Nat /\ next[t] = Follower(s, i, NULL) BY <1>1, <1>2
  <2>1. next[t] = s[i + 1] /\ i + 1 \in 1 .. Len(s) BY <1>4, <2>0 DEF Follower
  <2>2. s[i + 1] \in started /\ s[i + 1] # t
    <3>1. i + 1 # i BY <1>2
    <3> QED BY <1>1, <1>2, <2>1, <3>1 DEF Members, Once
  <2> QED BY <2>1, <2>2
<1> QED BY <1>3, <1>4

LEMMA CreateKeeps ==
  ASSUME TimerInv, NEW t \in Timers, NEW d, NEW p, Create(t, d, p), NEW s, TimerChain(s)
  PROVE  /\ t \notin started /\ started' = started
         /\ next' = [next EXCEPT ![t] = NULL]
         /\ due' = [due EXCEPT ![t] = d] /\ period' = [period EXCEPT ![t] = p]
         /\ TimerChain(s)'
<1>2. t \notin started BY ListedIsStarted DEF Create
<1>3. Members(s) = started /\ \A y \in Members(s) : next'[y] = next[y]
  BY <1>2 DEF TimerChain, Create, TimerInv
<1>4. IsChain(s, Timers, timer_list, next', NULL)
  <2>1. IsChain(s, Timers, timer_list, next, NULL) BY DEF TimerChain
  <2> QED BY <1>3, <2>1, ChainSame
<1>5. TimerChain(s)' BY <1>3, <1>4 DEF TimerChain, Create
<1> QED BY <1>2, <1>5 DEF Create

LEMMA HeadIsStarted ==
  ASSUME NEW s, TimerChain(s)
  PROVE  timer_list \in started \cup {NULL}
<1>1. s \in Seq(Timers) /\ Members(s) = started /\ timer_list = FirstOf(s, NULL)
  BY DEF TimerChain, IsChain
<1>2. CASE s = << >> BY <1>1, <1>2 DEF FirstOf
<1>3. CASE s # << >>
  <2>1. 1 \in DOMAIN s BY <1>1, <1>3
  <2> QED BY <1>1, <1>3, <2>1 DEF FirstOf, Members
<1> QED BY <1>2, <1>3

LEMMA StartLinks ==
  ASSUME TimerInv, NEW t \in Timers, Start(t), NEW s, TimerChain(s)
  PROVE  /\ t \notin started /\ started' = started \cup {t}
         /\ next' = [next EXCEPT ![t] = timer_list]
         /\ timer_list \in started \cup {NULL}
         /\ \E w : TimerChain(w)' /\ \A c : Ahead(s, c) \subseteq Ahead(w, c)
<1>1. TimerChain(s) OBVIOUS
<1>2. t \notin started BY <1>1, ListedIsStarted DEF Start
<1>3. /\ IsChain(s, Timers, timer_list, next, NULL) /\ Members(s) = started
      /\ s \in Seq(Timers) /\ timer_list = FirstOf(s, NULL)
  BY <1>1 DEF TimerChain, IsChain
<1>4. next'[t] = timer_list /\ \A y \in Members(s) : next'[y] = next[y]
  BY <1>2, <1>3 DEF Start, TimerInv
<1>5. IsChain(Prepended(t, s), Timers, t, next', NULL) BY <1>2, <1>3, <1>4, ChainPrepended
<1>9. s \in Seq(Timers) BY <1>3
<1>6. Members(Prepended(t, s)) = started \cup {t}
  <2>1. Members(Prepended(t, s)) = Members(s) \cup {t} BY <1>9, PrependedIs
  <2> QED BY <1>3, <2>1
<1>7. TimerChain(Prepended(t, s))' BY <1>5, <1>6 DEF TimerChain, Start, Prepended
<1>8. timer_list \in started \cup {NULL} BY <1>1, HeadIsStarted
<1>10. \A c : Ahead(s, c) \subseteq Ahead(Prepended(t, s), c) BY <1>9, AheadPrepended
<1> QED BY <1>2, <1>7, <1>8, <1>10 DEF Start

\* Unlinking a timer takes it out of the chain, if it is there, and leaves its link.
LEMMA UnlinkTakesOut ==
  ASSUME TimerInv, NEW t \in Timers, Unlink(t), started' = started \ {t},
         NEW s, TimerChain(s)
  PROVE  /\ next' = [p \in Timers |-> IF t \in started /\ p \in started /\ next[p] = t
                                     THEN next[t] ELSE next[p]]
         /\ next' \in [Timers -> Timers \cup {NULL}]
         /\ next'[t] = next[t]
         /\ \E w : TimerChain(w)' /\ \A c : c # t => Ahead(s, c) \ {t} \subseteq Ahead(w, c)
<1>1. TimerChain(s) OBVIOUS
<1>2. /\ IsChain(s, Timers, timer_list, next, NULL) /\ Members(s) = started
      /\ s \in Seq(Timers) /\ Once(s) /\ timer_list = FirstOf(s, NULL) /\ NULL \notin Timers
      /\ DOMAIN s = 1 .. Len(s) /\ Len(s) \in Nat
      /\ \A i \in 1 .. Len(s) : next[s[i]] = Follower(s, i, NULL)
  BY <1>1 DEF TimerChain, IsChain
<1>3. \A p \in Timers : Listed(p) <=> p \in started BY <1>1, ListedIsStarted
<1>4. next' = [p \in Timers |-> IF t \in started /\ p \in started /\ next[p] = t THEN next[t] ELSE next[p]]
  BY <1>3 DEF Unlink
<1>5. next' \in [Timers -> Timers \cup {NULL}] /\ next'[t] = next[t] BY <1>4 DEF TimerInv
<1>6. CASE t \notin started
  <2>1. next' = next BY <1>4, <1>6 DEF TimerInv
  <2>2. timer_list # t
    <3>1. s # << >> => 1 \in DOMAIN s /\ s[1] \in started BY <1>2 DEF Members
    <3> QED BY <1>2, <1>6, <3>1 DEF FirstOf
  <2>3. timer_list' = timer_list /\ started' = started BY <1>6, <2>2 DEF Unlink
  <2>4. TimerChain(s)' BY <1>2, <2>1, <2>3 DEF TimerChain
  <2> QED BY <1>4, <1>5, <2>4
<1>7. CASE t \in started
  <2>1. PICK k \in 1 .. Len(s) : s[k] = t BY <1>2, <1>7 DEF Members
  <2>2. \A i \in 1 .. Len(s) : s[i] \in Timers /\ s[i] \in started BY <1>2 DEF Members
  <2>3. ASSUME NEW i \in 1 .. Len(s), i # k
        PROVE  next'[s[i]] = IF i = k - 1 THEN next[s[k]] ELSE next[s[i]]
    <3>1. next'[s[i]] = IF next[s[i]] = t THEN next[t] ELSE next[s[i]] BY <1>4, <1>7, <2>2
    <3>2. next[s[i]] = t <=> i = k - 1
      <4>1. CASE i = Len(s)
        <5>1. next[s[i]] = NULL BY <1>2, <4>1 DEF Follower
        <5> QED BY <1>2, <2>1, <4>1, <5>1
      <4>2. CASE i # Len(s)
        <5>0. Len(s) \in Nat /\ DOMAIN s = 1 .. Len(s) /\ next[s[i]] = Follower(s, i, NULL) BY <1>2
        <5>a. next[s[i]] = s[i + 1] BY <4>2, <5>0 DEF Follower
        <5>b. i + 1 \in 1 .. Len(s)
          <6>1. i \in 1 .. Len(s) /\ Len(s) \in Nat BY <2>3, <5>0
          <6> QED BY <4>2, <6>1
        <5>1. next[s[i]] = s[i + 1] /\ i + 1 \in DOMAIN s BY <5>0, <5>a, <5>b
        <5>2. s[i + 1] = s[k] <=> i + 1 = k BY <1>2, <5>1 DEF Once
        <5> QED BY <2>1, <5>1, <5>2
      <4> QED BY <4>1, <4>2
    <3> QED BY <2>1, <3>1, <3>2
  <2> DEFINE w == Without(s, k)
  <2>4. IsChain(w, Timers, IF k = 1 THEN next[s[k]] ELSE timer_list, next', NULL)
    BY <1>2, <2>3, ChainWithout
  <2>5. timer_list' = IF k = 1 THEN next[s[k]] ELSE timer_list
    <3>1. timer_list = s[1] /\ 1 \in DOMAIN s BY <1>2, <2>1 DEF FirstOf
    <3>2. s[1] = s[k] <=> k = 1 BY <1>2, <3>1 DEF Once
    <3> QED BY <2>1, <3>1, <3>2 DEF Unlink
  <2>6. Members(w) = started \ {t} BY <1>2, <2>1, WithoutIs
  <2>9. ASSUME NEW c, c # t PROVE Ahead(s, c) \ {t} \subseteq Ahead(w, c)
    <3>1. c # s[k] BY <2>1, <2>9
    <3>2. Ahead(s, c) \ {s[k]} \subseteq Ahead(Without(s, k), c) BY <1>2, <3>1, AheadWithout
    <3> QED BY <2>1, <3>2
  <2> HIDE DEF w
  <2>7. IsChain(w, Timers, timer_list', next', NULL) BY <2>4, <2>5
  <2>8. TimerChain(w)' BY <2>6, <2>7 DEF TimerChain, w, Without
  <2> QED BY <1>4, <1>5, <2>8, <2>9
<1> QED BY <1>6, <1>7

\* A call, from a thread between walks or from the callback that runs.
LEMMA TimerCallInv ==
  ASSUME TimerInv, NEW t \in Timers, TimerCall(t), curr' = curr, stage' = stage,
         waiting' = waiting \cap started',
         \/ stage = "idle" /\ lost' = lost
         \/ stage = "callback" /\ lost' = PlaceLost(t)
  PROVE  TimerInv'
<1>0. PICK s : TimerChain(s) /\ WaitersAhead(s) BY DEF TimerInv
<1>1. /\ started \subseteq Timers /\ NULL \notin Timers
      /\ next \in [Timers -> Timers \cup {NULL}] /\ due \in [Timers -> Int]
      /\ period \in [Timers -> Int] /\ WalkIsOn /\ WaitersDue
  BY TimersAssumption DEF TimerInv
<1>2. lost' \in BOOLEAN BY <1>1 DEF WalkIsOn, PlaceLost
<1>3. \A c \in started : next[c] \in (started \ {c}) \cup {NULL} BY <1>0, LinkOfStarted
<1>4. /\ started = Ahead(s, timer_list) /\ Ahead(s, NULL) = {}
      /\ \A c \in started : Ahead(s, c) \ {c} \subseteq Ahead(s, next[c])
  BY <1>0, <1>1, AheadOfTimer
<1>5. stage = "callback" => curr \in Timers /\ curr \notin waiting
  BY <1>1 DEF WalkIsOn, WaitersDue
<1>6. ASSUME NEW d \in Delays, NEW p \in Periods, Create(t, d, p) PROVE TimerInv'
  <2>1. /\ t \notin started /\ started' = started /\ next' = [next EXCEPT ![t] = NULL]
        /\ due' = [due EXCEPT ![t] = d] /\ period' = [period EXCEPT ![t] = p]
        /\ TimerChain(s)'
    BY <1>0, <1>6, CreateKeeps
  <2>2. d \in Int /\ p \in Int BY TimesAssumption
  <2>3. waiting' = waiting BY <1>1, <2>1 DEF WaitersDue
  <2>4. WaitersDue' BY <1>1, <1>5, <2>1, <2>3 DEF WaitersDue
  <2>5. stage = "callback" /\ ~lost' => ~lost /\ (curr = t => curr \in started)
    BY <1>1, <2>1 DEF PlaceLost, WalkIsOn
  <2>6. stage = "callback" /\ ~lost' => next'[curr] = next[curr] /\ ~lost
    BY <1>1, <1>5, <2>1, <2>5
  <2>7. WalkIsOn' BY <1>1, <1>2, <2>1, <2>6 DEF WalkIsOn
  <2>8. WaitersAhead(s)' BY <1>0, <2>3, <2>6 DEF WaitersAhead
  <2> QED BY <1>1, <2>1, <2>2, <2>4, <2>7, <2>8 DEF TimerInv
<1>7. CASE Start(t)
  <2>1. /\ t \notin started /\ started' = started \cup {t} /\ next' = [next EXCEPT ![t] = timer_list]
        /\ timer_list \in started \cup {NULL}
    BY <1>0, <1>7, StartLinks
  <2>2. PICK w : TimerChain(w)' /\ \A c : Ahead(s, c) \subseteq Ahead(w, c)
    BY <1>0, <1>7, StartLinks
  <2>3. waiting' = waiting /\ due' = due /\ period' = period
    BY <1>1, <1>7, <2>1 DEF WaitersDue, Start
  <2>4. WaitersDue' BY <1>1, <1>5, <2>1, <2>3 DEF WaitersDue
  <2>5. CASE stage = "callback" /\ t = curr
    <3>1. next'[curr] = timer_list /\ curr \in started' BY <1>1, <2>1, <2>5
    <3>2. waiting \subseteq Ahead(w, timer_list) BY <1>1, <1>4, <2>2 DEF WaitersDue
    <3>3. WalkIsOn' BY <1>1, <1>2, <2>1, <2>5, <3>1 DEF WalkIsOn
    <3>4. WaitersAhead(w)' BY <2>3, <2>5, <3>1, <3>2 DEF WaitersAhead
    <3> QED BY <1>1, <2>1, <2>2, <2>3, <2>4, <3>3, <3>4 DEF TimerInv
  <2>6. CASE stage = "callback" /\ t # curr
    <3>1. next'[curr] = next[curr] /\ (curr \in started' <=> curr \in started)
      BY <1>1, <1>5, <2>1, <2>6
    <3>2. ~lost' => ~lost BY <1>1, <2>6, <3>1 DEF PlaceLost, WalkIsOn
    <3>3. WalkIsOn' BY <1>1, <1>2, <2>1, <2>6, <3>1, <3>2 DEF WalkIsOn
    <3>4. WaitersAhead(w)' BY <1>0, <2>2, <2>3, <2>6, <3>1, <3>2 DEF WaitersAhead
    <3> QED BY <1>1, <2>1, <2>2, <2>3, <2>4, <3>3, <3>4 DEF TimerInv
  <2>7. CASE stage = "idle"
    <3>1. WalkIsOn' BY <1>1, <1>2, <2>1, <2>7 DEF WalkIsOn
    <3>2. WaitersAhead(w)' BY <2>7 DEF WaitersAhead
    <3> QED BY <1>1, <2>1, <2>2, <2>3, <2>4, <3>1, <3>2 DEF TimerInv
  <2> QED BY <2>5, <2>6, <2>7
<1>8. CASE Stop(t)
  <2>1. started' = started \ {t} /\ Unlink(t) /\ due' = due /\ period' = period BY <1>8 DEF Stop
  <2>2. t \in started BY <1>0, <1>8, ListedIsStarted DEF Stop
  <2>3. /\ next' = [p \in Timers |-> IF t \in started /\ p \in started /\ next[p] = t
                                    THEN next[t] ELSE next[p]]
        /\ next' \in [Timers -> Timers \cup {NULL}]
    BY <1>0, <2>1, UnlinkTakesOut
  <2>4. PICK w : TimerChain(w)' /\ \A c : c # t => Ahead(s, c) \ {t} \subseteq Ahead(w, c)
    BY <1>0, <2>1, UnlinkTakesOut
  <2>5. waiting' = waiting \ {t} BY <1>1, <2>1 DEF WaitersDue
  <2>6. WaitersDue' BY <1>1, <1>5, <2>1, <2>5 DEF WaitersDue
  <2>7. CASE stage = "callback" /\ ~lost'
    <3>1. ~lost /\ (curr \notin started => t # next[curr])
      BY <1>1, <2>1, <2>7 DEF PlaceLost, WalkIsOn
    <3>2. waiting \subseteq Ahead(s, next[curr]) BY <1>0, <2>7, <3>1 DEF WaitersAhead
    <3>3. CASE next[curr] = t
      <4>1. curr \in started /\ next'[curr] = next[t] BY <1>1, <1>5, <2>2, <2>3, <2>7, <3>1, <3>3
      <4>2. next[t] # t /\ next[t] \in (started \ {t}) \cup {NULL} BY <1>1, <1>3, <2>2
      <4>3. waiting' \subseteq Ahead(w, next'[curr])
        <5>1. Ahead(s, t) \ {t} \subseteq Ahead(s, next[t]) BY <1>4, <2>2
        <5>2. Ahead(s, next[t]) \ {t} \subseteq Ahead(w, next[t]) BY <2>4, <4>2
        <5> QED BY <2>5, <3>2, <3>3, <4>1, <5>1, <5>2
      <4>4. WalkIsOn' BY <1>1, <1>2, <2>1, <2>7, <4>1, <4>2 DEF WalkIsOn
      <4>5. WaitersAhead(w)' BY <2>7, <4>3 DEF WaitersAhead
      <4> QED BY <1>1, <2>1, <2>3, <2>4, <2>6, <4>4, <4>5 DEF TimerInv
    <3>4. CASE next[curr] # t
      <4>1. next'[curr] = next[curr] BY <1>5, <2>3, <2>7, <3>4
      <4>2. next[curr] \in started \cup {NULL}
        BY <1>1, <1>3, <2>7, <3>1 DEF WalkIsOn
      <4>3. WalkIsOn' BY <1>1, <1>2, <2>1, <2>7, <3>4, <4>1, <4>2 DEF WalkIsOn
      <4>4. Ahead(s, next[curr]) \ {t} \subseteq Ahead(w, next[curr]) BY <2>4, <3>4
      <4>5. WaitersAhead(w)' BY <2>5, <2>7, <3>2, <4>1, <4>4 DEF WaitersAhead
      <4> QED BY <1>1, <2>1, <2>3, <2>4, <2>6, <4>3, <4>5 DEF TimerInv
    <3> QED BY <3>3, <3>4
  <2>8. CASE stage = "callback" /\ lost'
    <3>1. WalkIsOn' BY <1>1, <1>2, <2>1, <2>8 DEF WalkIsOn
    <3>2. WaitersAhead(w)' BY <2>8 DEF WaitersAhead
    <3> QED BY <1>1, <2>1, <2>3, <2>4, <2>6, <3>1, <3>2 DEF TimerInv
  <2>9. CASE stage = "idle"
    <3>1. WalkIsOn' BY <1>1, <1>2, <2>1, <2>9 DEF WalkIsOn
    <3>2. WaitersAhead(w)' BY <2>9 DEF WaitersAhead
    <3> QED BY <1>1, <2>1, <2>3, <2>4, <2>6, <3>1, <3>2 DEF TimerInv
  <2> QED BY <1>2, <2>7, <2>8, <2>9
<1> QED BY <1>6, <1>7, <1>8 DEF TimerCall

LEMMA TimerStepInv == TimerInv /\ [TimerNext]_timerVars => TimerInv'
<1> SUFFICES ASSUME TimerInv, [TimerNext]_timerVars PROVE TimerInv'
  OBVIOUS
<1>0. PICK s : TimerChain(s) /\ WaitersAhead(s) BY DEF TimerInv
<1>1. /\ started \subseteq Timers /\ NULL \notin Timers
      /\ next \in [Timers -> Timers \cup {NULL}] /\ due \in [Timers -> Int]
      /\ period \in [Timers -> Int] /\ WalkIsOn /\ WaitersDue
  BY TimersAssumption DEF TimerInv
<1>2. \A t \in started : next[t] \in (started \ {t}) \cup {NULL} BY <1>0, LinkOfStarted
<1>3. /\ started = Ahead(s, timer_list) /\ Ahead(s, NULL) = {}
      /\ \A c \in started : Ahead(s, c) \ {c} \subseteq Ahead(s, next[c])
  BY <1>0, <1>1, AheadOfTimer
<1>4. CASE ThreadCall
  <2>1. PICK t \in Timers : TimerCall(t) BY <1>4 DEF ThreadCall
  <2>2. curr' = curr /\ stage' = stage /\ stage = "idle" /\ lost' = lost /\ waiting' = waiting
    BY <1>4 DEF ThreadCall, timerHistory
  <2>3. waiting' = waiting \cap started' BY <1>1, <2>2 DEF WaitersDue
  <2> QED BY <2>1, <2>2, <2>3, TimerCallInv
<1>5. CASE CallbackCall
  <2>1. PICK t \in Timers : TimerCall(t) /\ lost' = PlaceLost(t) BY <1>5 DEF CallbackCall
  <2>2. /\ curr' = curr /\ stage' = stage /\ stage = "callback"
        /\ waiting' = waiting \cap started'
    BY <1>5 DEF CallbackCall
  <2> QED BY <2>1, <2>2, TimerCallInv
<1>6. CASE TickBegin
  <2>1. timer_list \in started \cup {NULL} BY <1>0, HeadIsStarted
  <2>2. /\ curr' = timer_list /\ stage' = "visit" /\ waiting' = {t \in started : due'[t] = 0}
        /\ due' = [t \in Timers |-> IF due[t] > 0 THEN due[t] - 1 ELSE 0]
        /\ UNCHANGED <<timer_list, next, period, started, lost>>
    BY <1>6 DEF TickBegin
  <2>3. due' \in [Timers -> Int] BY <1>1, <2>2
  <2>4. WaitersDue' BY <2>2 DEF WaitersDue
  <2>5. WalkIsOn' BY <1>1, <2>1, <2>2 DEF WalkIsOn
  <2>6. WaitersAhead(s)' BY <1>3, <2>2 DEF WaitersAhead
  <2>7. TimerChain(s)' BY <1>0, <2>2 DEF TimerChain
  <2> QED BY <1>1, <2>2, <2>3, <2>4, <2>5, <2>6, <2>7 DEF TimerInv
<1>7. CASE VisitPending
  <2>1. /\ stage = "visit" /\ curr # NULL /\ due[curr] > 0 /\ curr' = next[curr]
        /\ UNCHANGED <<timer_list, next, due, period, stage, started, waiting, lost>>
    BY <1>7 DEF VisitPending, timerHistory
  <2>2. curr \notin waiting BY <1>1, <2>1 DEF WaitersDue
  <2>3. WalkIsOn' BY <1>1, <1>2, <2>1 DEF WalkIsOn
  <2>4. WaitersDue' BY <1>1, <2>1 DEF WaitersDue
  <2>5. ~lost => waiting \subseteq Ahead(s, next[curr])
    BY <1>0, <1>1, <1>3, <2>1, <2>2 DEF WaitersAhead, WalkIsOn
  <2>6. WaitersAhead(s)' BY <2>1, <2>5 DEF WaitersAhead
  <2>7. TimerChain(s)' BY <1>0, <2>1 DEF TimerChain
  <2> QED BY <1>1, <2>1, <2>3, <2>4, <2>6, <2>7 DEF TimerInv
<1>8. CASE VisitDue
  <2>1. /\ stage = "visit" /\ curr # NULL /\ stage' = "callback" /\ waiting' = waiting \ {curr}
        /\ UNCHANGED <<timer_list, next, due, period, curr, started, lost>>
    BY <1>8 DEF VisitDue
  <2>2. WalkIsOn' BY <1>1, <2>1 DEF WalkIsOn
  <2>3. WaitersDue' BY <1>1, <2>1 DEF WaitersDue
  <2>4. ~lost => waiting \ {curr} \subseteq Ahead(s, next[curr])
    BY <1>0, <1>1, <1>3, <2>1 DEF WaitersAhead, WalkIsOn
  <2>5. WaitersAhead(s)' BY <2>1, <2>4 DEF WaitersAhead
  <2>6. TimerChain(s)' BY <1>0, <2>1 DEF TimerChain
  <2> QED BY <1>1, <2>1, <2>2, <2>3, <2>5, <2>6 DEF TimerInv
<1>9. CASE CallbackReturn
  <2>1. /\ stage = "callback" /\ Served(curr) /\ curr' = next'[curr] /\ stage' = "visit"
        /\ waiting' = waiting /\ lost' = lost /\ period' = period
    BY <1>9 DEF CallbackReturn, timerHistory
  <2>2. curr \in Timers /\ curr \notin waiting
    BY <1>1, <2>1 DEF WalkIsOn, WaitersDue
  <2>3. ~lost => /\ next[curr] \in (started \ {curr}) \cup {NULL} \/ curr \notin started
                 /\ next[curr] \in started \cup {NULL}
                 /\ waiting \subseteq Ahead(s, next[curr])
    BY <1>0, <1>1, <1>2, <2>1 DEF WalkIsOn, WaitersAhead
  <2>4. CASE period[curr] > 0
    <3>1. /\ next' = next /\ started' = started /\ timer_list' = timer_list
          /\ due' = [due EXCEPT ![curr] = period[curr]]
      BY <2>1, <2>4 DEF Served
    <3>2. WalkIsOn' BY <1>1, <2>1, <2>2, <2>3, <3>1 DEF WalkIsOn
    <3>3. WaitersDue' BY <1>1, <2>1, <2>2, <3>1 DEF WaitersDue
    <3>4. WaitersAhead(s)' BY <2>1, <2>3, <3>1 DEF WaitersAhead
    <3>5. TimerChain(s)' BY <1>0, <3>1 DEF TimerChain
    <3>6. due' \in [Timers -> Int] BY <1>1, <3>1
    <3> QED BY <1>1, <2>1, <3>1, <3>2, <3>3, <3>4, <3>5, <3>6 DEF TimerInv
  <2>5. CASE ~(period[curr] > 0)
    <3>1. Unlink(curr) /\ started' = started \ {curr} /\ due' = due
      BY <2>1, <2>5 DEF Served
    <3>2. next' \in [Timers -> Timers \cup {NULL}] /\ next'[curr] = next[curr]
      BY <1>0, <2>2, <3>1, UnlinkTakesOut
    <3>3. PICK w : TimerChain(w)' /\ \A c : c # curr => Ahead(s, c) \ {curr} \subseteq Ahead(w, c)
      BY <1>0, <2>2, <3>1, UnlinkTakesOut
    <3>4. ~lost => next[curr] # curr /\ next[curr] \in started' \cup {NULL}
      BY <1>1, <2>2, <2>3, <3>1
    <3>5. WalkIsOn' BY <1>1, <2>1, <2>2, <3>1, <3>2, <3>4 DEF WalkIsOn
    <3>6. WaitersDue' BY <1>1, <2>1, <2>2, <3>1 DEF WaitersDue
    <3>7. WaitersAhead(w)' BY <2>1, <2>2, <2>3, <3>2, <3>3, <3>4 DEF WaitersAhead
    <3> QED BY <1>1, <2>1, <3>1, <3>2, <3>3, <3>5, <3>6, <3>7 DEF TimerInv
  <2> QED BY <2>4, <2>5
<1>10. CASE TickEnd
  <2>1. /\ stage' = "idle" /\ waiting' = {} /\ lost' = FALSE
        /\ UNCHANGED <<timer_list, next, due, period, curr, started>>
    BY <1>10 DEF TickEnd
  <2>2. WalkIsOn' /\ WaitersDue' /\ WaitersAhead(s)' /\ TimerChain(s)'
    BY <1>0, <1>1, <2>1 DEF WalkIsOn, WaitersDue, WaitersAhead, TimerChain
  <2> QED BY <1>1, <2>1, <2>2 DEF TimerInv
<1>11. CASE UNCHANGED timerVars
  <2>1. WalkIsOn' /\ WaitersDue' /\ WaitersAhead(s)' /\ TimerChain(s)'
    BY <1>0, <1>1, <1>11
    DEF timerVars, timerHistory, WalkIsOn, WaitersDue, WaitersAhead, TimerChain
  <2> QED BY <1>1, <1>11, <2>1 DEF TimerInv, timerVars
<1> QED BY <1>4, <1>5, <1>6, <1>7, <1>8, <1>9, <1>10, <1>11 DEF TimerNext, TickStep

LEMMA TimerInvList == TimerInv => ListIsStarted
<1> SUFFICES ASSUME TimerInv PROVE ListIsStarted
  OBVIOUS
<1>1. PICK s : TimerChain(s) BY DEF TimerInv
<1> QED BY <1>1, ListedIsStarted DEF ListIsStarted, TimerInv

\* For any timers, delays and periods, and whatever the callbacks call: the list is
\* that of the timers started, and no chain of it closes on itself.
THEOREM TimerListExact == TimerSpec => []ListIsStarted
<1>1. TimerInit => TimerInv BY TimerInitInv
<1>2. TimerInv /\ [TimerNext]_timerVars => TimerInv' BY TimerStepInv
<1>3. TimerInv => ListIsStarted BY TimerInvList
<1> QED BY <1>1, <1>2, <1>3, PTL DEF TimerSpec

\* Nor does any walk that has kept its place enter the callback of a timer that was
\* stopped.
THEOREM StoppedStaySilent == TimerSpec => OnlyStartedFire
<1>1. TimerInit => TimerInv BY TimerInitInv
<1>2. TimerInv /\ [TimerNext]_timerVars => TimerInv' BY TimerStepInv
<1>3. TimerInv /\ [TimerNext]_timerVars => [VisitDue => lost \/ curr \in started]_timerVars
  BY DEF TimerInv, WalkIsOn, VisitDue
<1> QED BY <1>1, <1>2, <1>3, PTL DEF TimerSpec, OnlyStartedFire

\* And a walk that has kept its place has come to every timer that was due when it
\* began and was not stopped.
THEOREM WalksMissNone == TimerSpec => NoneMissed
<1>1. TimerInit => TimerInv BY TimerInitInv
<1>2. TimerInv /\ [TimerNext]_timerVars => TimerInv' BY TimerStepInv
<1>3. TimerInv /\ [TimerNext]_timerVars => [TickEnd => lost \/ waiting = {}]_timerVars
  <2> SUFFICES ASSUME TimerInv, TickEnd, ~lost PROVE waiting = {}
    OBVIOUS
  <2>1. PICK s : TimerChain(s) /\ WaitersAhead(s) BY DEF TimerInv
  <2>2. stage = "visit" /\ curr = NULL BY DEF TickEnd
  <2>3. Ahead(s, NULL) = {} BY <2>1, AheadOfTimer DEF TimerInv
  <2> QED BY <2>1, <2>2, <2>3 DEF WaitersAhead
<1> QED BY <1>1, <1>2, <1>3, PTL DEF TimerSpec, NoneMissed

-----------------------------------------------------------------------------
(***************************************************************************)
(* The watchdog.  But for the threads that registered twice, the entry of  *)
(* a thread is as old as the thread is silent.  In a round, a thread that  *)
(* has not called since it began is reported when the supervisor has       *)
(* passed its entry, if it was late; the millisecond that may have gone by *)
(* is in the entry's age and in passed.                                    *)
(***************************************************************************)
EntryRecords == [thread : Watched, age : 0 .. Oldest]

WdtTypes == /\ wdt_table \in [Entries -> SUBSET EntryRecords]
            /\ looking \in Entries \cup {-1}
            /\ passed \in {0, 1}
            /\ silent \in [Watched -> 0 .. Oldest]
            /\ reported \subseteq Watched /\ late \subseteq Watched
            /\ spoke \subseteq Watched /\ doubled \subseteq Watched

OneEach == \A i \in Entries : \A e, f \in wdt_table[i] : e = f

Mirrors(t) == \A i, j \in Entries : \A e \in wdt_table[i], f \in wdt_table[j] :
                 e.thread = t /\ f.thread = t => i = j /\ e.age = silent[t]

RoundOf(t) == looking \in Entries =>
                /\ silent[t] >= passed
                /\ t \in late <=> EntriesOf(t) # {} /\ silent[t] - passed > Timeout
                /\ t \in reported <=> t \in late /\ \E i \in EntriesOf(t) : i < looking

WdtInv == /\ WdtTypes
          /\ OneEach
          /\ \A t \in Watched \ doubled : Mirrors(t)
          /\ \A t \in Watched \ (doubled \cup spoke) : RoundOf(t)
          /\ looking = -1 => passed = 0
          /\ WatchdogExact

LEMMA ForemostIs ==
  ASSUME NEW S \in SUBSET Entries, S # {}
  PROVE  Foremost(S) \in S
<1>1. S \in SUBSET Nat BY WatchdogAssumption DEF Entries
<1>2. \E i \in S : \A j \in S : i <= j BY <1>1, LeastNatural
<1> QED BY <1>2 DEF Foremost

LEMMA WdtInitInv == WdtInit => WdtInv
<1> SUFFICES ASSUME WdtInit PROVE WdtInv
  OBVIOUS
<1>1. -1 \notin Entries BY DEF Entries
<1>2. WdtTypes BY WatchdogAssumption DEF WdtInit, WdtTypes, Oldest
<1>3. OneEach /\ \A t \in Watched : Mirrors(t) BY DEF WdtInit, OneEach, Mirrors
<1>4. \A t \in Watched : RoundOf(t) BY <1>1 DEF WdtInit, RoundOf
<1> QED BY <1>2, <1>3, <1>4 DEF WdtInit, WdtInv, WatchdogExact

\* A call of one thread leaves the entries of the others as they are.
LEMMA OthersKeep ==
  ASSUME WdtInv, NEW t \in Watched, WdtRegister(t) \/ WdtCheckIn(t),
         NEW u \in Watched, u # t, NEW i \in Entries
  PROVE  \A e : e.thread = u => (e \in wdt_table'[i] <=> e \in wdt_table[i])
<1>1. CASE WdtRegister(t)
  <2>1. CASE TableFree = {} BY <1>1, <2>1 DEF WdtRegister
  <2>2. CASE TableFree # {}
    <3>1. Foremost(TableFree) \in TableFree BY <2>2, ForemostIs DEF TableFree
    <3>2. CASE i = Foremost(TableFree)
      <4>1. wdt_table[i] = {} BY <3>1, <3>2 DEF TableFree
      <4>2. wdt_table'[i] = {[thread |-> t, age |-> 0]}
        BY <1>1, <2>2, <3>2 DEF WdtRegister, WdtInv, WdtTypes
      <4> QED BY <4>1, <4>2
    <3>3. CASE i # Foremost(TableFree)
      BY <1>1, <2>2, <3>3 DEF WdtRegister, WdtInv, WdtTypes
    <3> QED BY <3>2, <3>3
  <2> QED BY <2>1, <2>2
<1>2. CASE WdtCheckIn(t)
  <2>1. CASE EntriesOf(t) # {} /\ i = Foremost(EntriesOf(t))
    <3>1. i \in EntriesOf(t) BY <2>1, ForemostIs DEF EntriesOf
    <3>2. PICK f \in wdt_table[i] : f.thread = t BY <3>1 DEF EntriesOf
    <3>3. \A e \in wdt_table[i] : e = f BY <3>2 DEF WdtInv, OneEach
    <3>4. wdt_table'[i] = {[thread |-> t, age |-> 0]} BY <1>2, <2>1 DEF WdtCheckIn
    <3> QED BY <3>2, <3>3, <3>4
  <2>2. CASE ~(EntriesOf(t) # {} /\ i = Foremost(EntriesOf(t)))
    <3>1. wdt_table'[i] = wdt_table[i] BY <1>2, <2>2 DEF WdtCheckIn
    <3> QED BY <3>1
  <2> QED BY <2>1, <2>2
<1> QED BY <1>1, <1>2

LEMMA WdtCallInv ==
  ASSUME WdtInv, NEW t \in Watched, WdtRegister(t) \/ WdtCheckIn(t)
  PROVE  WdtInv'
<1>1. /\ silent' = [silent EXCEPT ![t] = 0] /\ spoke' = spoke \cup {t}
      /\ UNCHANGED <<looking, passed, reported, late>>
      /\ doubled' \in SUBSET Watched /\ doubled \subseteq doubled'
  BY DEF WdtRegister, WdtCheckIn, Calls, WdtInv, WdtTypes
<1>2. [thread |-> t, age |-> 0] \in EntryRecords BY WatchdogAssumption DEF EntryRecords, Oldest
<1>3. wdt_table' \in [Entries -> SUBSET EntryRecords]
  BY <1>2 DEF WdtRegister, WdtCheckIn, WdtInv, WdtTypes
<1>4. WdtTypes' BY <1>1, <1>3, WatchdogAssumption DEF WdtInv, WdtTypes, Oldest, Entries
<1>5. ASSUME NEW i \in Entries PROVE wdt_table'[i] \in {wdt_table[i], {[thread |-> t, age |-> 0]}}
  BY DEF WdtRegister, WdtCheckIn, WdtInv, WdtTypes
<1>6. OneEach'
  <2> SUFFICES ASSUME NEW i \in Entries PROVE \A e, f \in wdt_table'[i] : e = f
    BY DEF OneEach, Entries
  <2> QED BY <1>5 DEF WdtInv, OneEach
<1>7. ASSUME NEW u \in Watched, u # t
      PROVE  \A i \in Entries : \A e : e.thread = u => (e \in wdt_table'[i] <=> e \in wdt_table[i])
  BY <1>7, OthersKeep
<1>8. ASSUME NEW u \in Watched, u # t PROVE EntriesOf(u)' = EntriesOf(u) /\ silent'[u] = silent[u]
  BY <1>1, <1>7, <1>8 DEF EntriesOf, Entries, WdtInv, WdtTypes
<1>9. ASSUME NEW u \in Watched \ doubled' PROVE Mirrors(u)'
  <2>1. u \notin doubled /\ Mirrors(u) BY <1>1 DEF WdtInv
  <2>2. CASE u # t BY <1>7, <1>8, <2>1, <2>2 DEF Mirrors, Entries
  <2>3. CASE u = t
    <3> SUFFICES ASSUME NEW i \in Entries, NEW j \in Entries,
                        NEW e \in wdt_table'[i], NEW f \in wdt_table'[j],
                        e.thread = t, f.thread = t
                 PROVE  i = j /\ e.age = silent'[t]
      BY <2>3 DEF Mirrors, Entries
    <3>0. silent'[t] = 0 BY <1>1 DEF WdtInv, WdtTypes
    <3>1. CASE WdtRegister(t)
      <4>1. EntriesOf(t) = {} BY <2>3, <3>1 DEF WdtRegister
      <4>2. \A k \in Entries : \A g \in wdt_table[k] : g.thread # t BY <4>1 DEF EntriesOf
      <4>3. CASE TableFree = {} BY <3>1, <4>2, <4>3 DEF WdtRegister
      <4>4. CASE TableFree # {}
        <5>1. \A k \in Entries : k # Foremost(TableFree) => wdt_table'[k] = wdt_table[k]
          BY <3>1, <4>4 DEF WdtRegister, WdtInv, WdtTypes
        <5>2. i = Foremost(TableFree) /\ j = Foremost(TableFree) BY <4>2, <5>1
        <5>3. wdt_table'[i] = {[thread |-> t, age |-> 0]}
          BY <3>1, <4>4, <5>2 DEF WdtRegister, WdtInv, WdtTypes
        <5> QED BY <3>0, <5>2, <5>3
      <4> QED BY <4>3, <4>4
    <3>2. CASE WdtCheckIn(t)
      <4>1. \A k \in Entries : (\E g \in wdt_table'[k] : g.thread = t) => k \in EntriesOf(t)
        <5>1. EntriesOf(t) # {} => Foremost(EntriesOf(t)) \in EntriesOf(t) BY ForemostIs DEF EntriesOf
        <5> QED BY <3>2, <5>1 DEF WdtCheckIn, EntriesOf
      <4>2. i \in EntriesOf(t) /\ j \in EntriesOf(t) BY <4>1
      <4>3. \A k \in EntriesOf(t) : k = i BY <2>1, <2>3, <4>2 DEF EntriesOf, Mirrors
      <4>4. i = Foremost(EntriesOf(t)) BY <4>2, <4>3, ForemostIs DEF EntriesOf
      <4>5. wdt_table'[i] = {[thread |-> t, age |-> 0]} BY <3>2, <4>2, <4>4 DEF WdtCheckIn
      <4> QED BY <3>0, <4>2, <4>3, <4>5
    <3> QED BY <3>1, <3>2
  <2> QED BY <2>2, <2>3
<1>10. ASSUME NEW u \in Watched \ (doubled' \cup spoke') PROVE RoundOf(u)'
  <2>1. u # t /\ RoundOf(u) BY <1>1 DEF WdtInv
  <2>2. EntriesOf(u)' = EntriesOf(u) /\ silent'[u] = silent[u] BY <1>8, <2>1
  <2> QED BY <1>1, <2>1, <2>2 DEF RoundOf, Entries
<1>11. WatchdogExact' BY <1>1 DEF WdtInv, WatchdogExact
<1>12. (looking = -1 => passed = 0)' BY <1>1 DEF WdtInv
<1> QED BY <1>4, <1>6, <1>9, <1>10, <1>11, <1>12 DEF WdtInv

LEMMA OlderIs ==
  ASSUME NEW age \in 0 .. Oldest
  PROVE  /\ Older(age) \in 0 .. Oldest
         /\ Older(age) >= 1
         /\ Older(age) - 1 > Timeout <=> age > Timeout
  BY WatchdogAssumption DEF Older, Oldest

LEMMA WdtClockInv == ASSUME WdtInv, WdtClock PROVE WdtInv'
<1>1. /\ passed = 0 /\ passed' = IF looking = -1 THEN 0 ELSE 1
      /\ UNCHANGED <<looking, reported, late, spoke, doubled>>
  BY DEF WdtClock
<1>2. \A t \in Watched : silent[t] \in 0 .. Oldest /\ silent'[t] = Older(silent[t])
  BY DEF WdtClock, WdtInv, WdtTypes
<1>3. ASSUME NEW e \in EntryRecords
      PROVE  /\ [e EXCEPT !.age = Older(@)] \in EntryRecords
             /\ [e EXCEPT !.age = Older(@)].thread = e.thread
             /\ [e EXCEPT !.age = Older(@)].age = Older(e.age)
  BY OlderIs DEF EntryRecords
<1>4. /\ wdt_table \in [Entries -> SUBSET EntryRecords]
      /\ wdt_table' = [i \in Entries |-> {[e EXCEPT !.age = Older(@)] : e \in wdt_table[i]}]
  BY DEF WdtClock, WdtInv, WdtTypes
<1>5. ASSUME NEW i \in Entries
      PROVE  /\ wdt_table'[i] \subseteq EntryRecords
             /\ \A x \in wdt_table'[i] : \E e \in wdt_table[i] :
                    /\ x = [e EXCEPT !.age = Older(@)]
                    /\ x.thread = e.thread /\ x.age = Older(e.age)
             /\ \A e \in wdt_table[i] : \E x \in wdt_table'[i] : x.thread = e.thread
  <2>1. wdt_table[i] \subseteq EntryRecords BY <1>4
  <2>2. wdt_table'[i] = {[e EXCEPT !.age = Older(@)] : e \in wdt_table[i]} BY <1>4
  <2> QED BY <1>3, <2>1, <2>2
<1>6. wdt_table' \in [Entries -> SUBSET EntryRecords] BY <1>4, <1>5
<1>7. silent' \in [Watched -> 0 .. Oldest] BY <1>2, OlderIs DEF WdtClock
<1>8. WdtTypes' BY <1>1, <1>6, <1>7 DEF WdtInv, WdtTypes, Entries, Oldest
<1>9. OneEach'
  <2> SUFFICES ASSUME NEW i \in Entries, NEW x \in wdt_table'[i], NEW y \in wdt_table'[i] PROVE x = y
    BY DEF OneEach, Entries
  <2> QED BY <1>5 DEF WdtInv, OneEach
<1>10. ASSUME NEW t \in Watched PROVE EntriesOf(t)' = EntriesOf(t)
  BY <1>5 DEF EntriesOf, Entries
<1>11. ASSUME NEW t \in Watched \ doubled' PROVE Mirrors(t)'
  <2> SUFFICES ASSUME NEW i \in Entries, NEW j \in Entries,
                      NEW x \in wdt_table'[i], NEW y \in wdt_table'[j],
                      x.thread = t, y.thread = t
               PROVE  i = j /\ x.age = silent'[t]
    BY DEF Mirrors, Entries
  <2>1. Mirrors(t) BY <1>1 DEF WdtInv
  <2>2. PICK e \in wdt_table[i] : x.thread = e.thread /\ x.age = Older(e.age) BY <1>5
  <2>3. PICK f \in wdt_table[j] : y.thread = f.thread BY <1>5
  <2>4. i = j /\ e.age = silent[t] BY <2>1, <2>2, <2>3 DEF Mirrors
  <2> QED BY <1>2, <2>2, <2>4
<1>12. ASSUME NEW t \in Watched \ (doubled' \cup spoke') PROVE RoundOf(t)'
  <2>1. RoundOf(t) /\ EntriesOf(t)' = EntriesOf(t) BY <1>1, <1>10 DEF WdtInv
  <2>2. /\ Older(silent[t]) \in 0 .. Oldest /\ Older(silent[t]) >= 1
        /\ Older(silent[t]) - 1 > Timeout <=> silent[t] > Timeout
        /\ silent'[t] = Older(silent[t]) /\ silent[t] \in 0 .. Oldest
    BY <1>2, OlderIs
  <2>3. looking \in Entries => looking # -1 BY DEF Entries
  <2>4. looking \in Entries => passed' = 1 /\ passed = 0 BY <1>1, <2>3
  <2>5. looking \in Entries => silent'[t] >= passed' BY <2>2, <2>4
  <2>6. looking \in Entries => ((silent'[t] - passed' > Timeout) <=> (silent[t] - passed > Timeout))
    BY <2>2, <2>4
  <2> QED BY <1>1, <2>1, <2>5, <2>6 DEF RoundOf, Entries
<1>13. WatchdogExact' BY <1>1 DEF WdtInv, WatchdogExact
<1>14. (looking = -1 => passed = 0)' BY <1>1 DEF WdtInv
<1> QED BY <1>8, <1>9, <1>11, <1>12, <1>13, <1>14 DEF WdtInv

LEMMA WdtClearInv == ASSUME WdtInv, WdtClear PROVE WdtInv'
<1>1. WdtTypes' BY DEF WdtClear, WdtInv, WdtTypes, Entries, Oldest
<1>2. OneEach' /\ \A t \in Watched : Mirrors(t)' BY DEF WdtClear, OneEach, Mirrors, Entries
<1>3. WatchdogExact' BY DEF WdtClear, WatchdogExact, WdtInv
<1> QED BY <1>1, <1>2, <1>3 DEF WdtClear, WdtInv

LEMMA SupervisorStartsInv == ASSUME WdtInv, SupervisorStarts PROVE WdtInv'
<1>1. 0 \in Entries /\ 0 # -1 BY WatchdogAssumption DEF Entries
<1>2. /\ looking' = 0 /\ reported' = {} /\ spoke' = {} /\ passed = 0
      /\ late' = {t \in Watched : EntriesOf(t) # {} /\ silent[t] > Timeout}
      /\ UNCHANGED <<wdt_table, passed, silent, doubled>>
  BY DEF SupervisorStarts, WdtInv
<1>3. WdtTypes' BY <1>1, <1>2 DEF WdtInv, WdtTypes, Entries, Oldest
<1>4. OneEach' /\ \A t \in Watched \ doubled' : Mirrors(t)' BY <1>2 DEF WdtInv, OneEach, Mirrors, Entries
<1>5. ASSUME NEW t \in Watched PROVE RoundOf(t)'
  <2>1. EntriesOf(t)' = EntriesOf(t) BY <1>2 DEF EntriesOf, Entries
  <2>2. silent[t] \in 0 .. Oldest BY DEF WdtInv, WdtTypes
  <2>3. \A i \in EntriesOf(t) : ~(i < 0) BY DEF EntriesOf, Entries
  <2>4. silent[t] >= 0 /\ silent[t] - 0 = silent[t] BY <2>2, WatchdogAssumption DEF Oldest
  <2> QED BY <1>2, <2>1, <2>3, <2>4 DEF RoundOf
<1>6. WatchdogExact' BY <1>1, <1>2 DEF WatchdogExact
<1> QED BY <1>1, <1>2, <1>3, <1>4, <1>5, <1>6 DEF WdtInv

LEMMA SupervisorLooksInv == ASSUME WdtInv, SupervisorLooks PROVE WdtInv'
<1> DEFINE told == {e.thread : e \in {x \in wdt_table[looking] : IsLate(x)}}
<1>1. /\ looking \in Entries /\ reported' = reported \cup told
      /\ looking' = IF looking + 1 \in Entries THEN looking + 1 ELSE -1
      /\ passed' = IF looking + 1 \in Entries THEN passed ELSE 0
      /\ UNCHANGED <<wdt_table, silent, late, spoke, doubled>>
  BY DEF SupervisorLooks
<1>2. -1 \notin Entries /\ \A i \in Entries : i \in Nat /\ (i <= looking <=> i < looking + 1)
  BY <1>1 DEF Entries
<1>3. \A e \in wdt_table[looking] : e \in EntryRecords BY <1>1 DEF WdtInv, WdtTypes
<1>4. told \subseteq Watched BY <1>3 DEF EntryRecords
<1>5. WdtTypes' BY <1>1, <1>4 DEF WdtInv, WdtTypes, Entries, Oldest
<1>6. OneEach' /\ \A t \in Watched \ doubled' : Mirrors(t)' BY <1>1 DEF WdtInv, OneEach, Mirrors, Entries
<1>7. ASSUME NEW t \in Watched \ (doubled \cup spoke)
      PROVE  /\ RoundOf(t) /\ EntriesOf(t)' = EntriesOf(t)
             /\ t \in reported' <=> t \in late /\ \E i \in EntriesOf(t) : i <= looking
  <2>1. RoundOf(t) /\ Mirrors(t) BY DEF WdtInv
  <2>2. EntriesOf(t)' = EntriesOf(t) BY <1>1 DEF EntriesOf, Entries
  <2>3. silent[t] \in 0 .. Oldest /\ passed \in {0, 1} BY DEF WdtInv, WdtTypes
  <2>4. ASSUME NEW e \in wdt_table[looking], e.thread = t PROVE IsLate(e) <=> t \in late
    <3>1. e.age = silent[t] /\ looking \in EntriesOf(t) BY <1>1, <2>1, <2>4 DEF Mirrors, EntriesOf
    <3>2. silent[t] >= passed /\ (t \in late <=> silent[t] - passed > Timeout)
      BY <1>1, <2>1, <3>1 DEF RoundOf
    <3>3. ~(silent[t] < passed) BY <2>3, <3>2, WatchdogAssumption DEF Oldest
    <3> QED BY <3>1, <3>2, <3>3 DEF IsLate
  <2>5. t \in told <=> t \in late /\ looking \in EntriesOf(t)
    <3>1. ASSUME t \in told PROVE t \in late /\ looking \in EntriesOf(t)
      <4>1. PICK e \in wdt_table[looking] : IsLate(e) /\ e.thread = t BY <3>1
      <4> QED BY <1>1, <2>4, <4>1 DEF EntriesOf
    <3>2. ASSUME t \in late, looking \in EntriesOf(t) PROVE t \in told
      <4>1. PICK e \in wdt_table[looking] : e.thread = t BY <3>2 DEF EntriesOf
      <4>2. IsLate(e) BY <2>4, <3>2, <4>1
      <4> QED BY <4>1, <4>2
    <3> QED BY <3>1, <3>2
  <2>6. t \in reported <=> t \in late /\ \E i \in EntriesOf(t) : i < looking
    BY <1>1, <2>1 DEF RoundOf
  <2>7. \A i \in EntriesOf(t) : i <= looking <=> i < looking \/ i = looking
    BY <1>1, <1>2 DEF EntriesOf
  <2> HIDE DEF told
  <2>8. t \in reported' <=> t \in late /\ \E i \in EntriesOf(t) : i <= looking
    BY <1>1, <2>5, <2>6, <2>7
  <2> QED BY <2>1, <2>2, <2>8
<1> HIDE DEF told
<1>8. CASE looking + 1 \in Entries
  <2>1. ASSUME NEW t \in Watched \ (doubled \cup spoke) PROVE RoundOf(t)'
    <3>1. \A i \in EntriesOf(t) : i <= looking <=> i < looking + 1 BY <1>2 DEF EntriesOf
    <3> QED BY <1>1, <1>7, <1>8, <3>1 DEF RoundOf, Entries
  <2>2. looking' # -1 BY <1>1, <1>2, <1>8
  <2> QED BY <1>1, <1>5, <1>6, <2>1, <2>2 DEF WdtInv, WatchdogExact
<1>9. CASE looking + 1 \notin Entries
  <2>1. looking' = -1 /\ passed' = 0 BY <1>1, <1>9
  <2>2. \A i \in Entries : i <= looking BY <1>1, <1>9, WatchdogAssumption DEF Entries
  <2>3. ASSUME NEW t \in Watched \ (doubled \cup spoke) PROVE t \in reported' <=> t \in late
    <3>1. t \in late => EntriesOf(t) # {} BY <1>1, <1>7 DEF RoundOf
    <3>2. \A i \in EntriesOf(t) : i <= looking BY <2>2 DEF EntriesOf
    <3> QED BY <1>7, <3>1, <3>2
  <2>4. WatchdogExact' BY <1>1, <2>3 DEF WatchdogExact
  <2>5. \A t \in Watched : RoundOf(t)' BY <1>2, <2>1 DEF RoundOf, Entries
  <2> QED BY <1>5, <1>6, <2>1, <2>4, <2>5 DEF WdtInv
<1> QED BY <1>8, <1>9

LEMMA WdtStepInv == WdtInv /\ [WdtNext]_wdtVars => WdtInv'
<1> SUFFICES ASSUME WdtInv, [WdtNext]_wdtVars PROVE WdtInv'
  OBVIOUS
<1>1. CASE UNCHANGED wdtVars
  <2>1. UNCHANGED <<wdt_table, looking, passed, reported, silent, late, spoke, doubled>>
    BY <1>1 DEF wdtVars
  <2>2. \A t : EntriesOf(t)' = EntriesOf(t) BY <2>1 DEF EntriesOf, Entries
  <2> QED BY <2>1, <2>2 DEF WdtInv, WdtTypes, OneEach, Mirrors, RoundOf, WatchdogExact, Entries, Oldest
<1> QED BY <1>1, WdtCallInv, WdtClearInv, WdtClockInv, SupervisorStartsInv, SupervisorLooksInv DEF WdtNext

\* For any table, timeout and threads: a round of the supervisor reports exactly the
\* threads that were late as it began.
THEOREM WatchdogReports == WdtSpec => []WatchdogExact
<1>1. WdtInit => WdtInv BY WdtInitInv
<1>2. WdtInv /\ [WdtNext]_wdtVars => WdtInv' BY WdtStepInv
<1>3. WdtInv => WatchdogExact BY DEF WdtInv
<1> QED BY <1>1, <1>2, <1>3, PTL DEF WdtSpec
=============================================================================
