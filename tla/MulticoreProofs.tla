--------------------------- MODULE MulticoreProofs ---------------------------
(***************************************************************************)
(* What the inter-core layer proves: the spinlock and the mutex for any    *)
(* number of cores, the meeting of two cores for any number of calls, the  *)
(* shared tables for any size.                                             *)
(***************************************************************************)
EXTENDS Multicore, FiniteSetTheorems, TLAPS

-----------------------------------------------------------------------------
(***************************************************************************)
(* What holds of the spinlock and of the mutex it protects, for any number *)
(* of cores and any depth of nesting, as long as no two tests of the       *)
(* spinlock overlapped.  LockInv adds to SpinExact what keeps it: a holder *)
(* leaves the flag set, and a core that is not between taking and dropping *)
(* the lock is never its recorded owner, which disarms the stray release.  *)
(***************************************************************************)

\* A lock call nests no deeper than MaxNest, whatever happens on the way.
NestRoom == \A c \in Cores :
              /\ call[c] = "lock" \/ pc[c] = "nest" => holds[c] < MaxNest
              /\ pc[c] \in {"nest", "take", "give"} => call[c] = "none"

LockInv == ~overlapped =>
             /\ \A c, d \in Cores : {pc[c], pc[d]} \subseteq Holding => c = d
             /\ \A c \in Cores : pc[c] \in Holding => locked
             /\ \A c \in Cores : lock_owner = c => pc[c] \in Holding \cup {"disown"}

\* The mutex's fields and the locks granted agree, also between the read of the
\* owner and the writes that follow from it.
OwnerInv == ~overlapped =>
              \A c \in Cores : /\ holds[c] > 0 => owner_core = c /\ recursion_count = holds[c]
                               /\ owner_core = c => holds[c] > 0
                               /\ pc[c] \in {"nest", "give"} => owner_core = c
                               /\ pc[c] = "take" => owner_core = NoCore

CrossInv == TypeOK /\ NestRoom /\ LockInv /\ OwnerInv

LEMMA InitCrossInv == Init => CrossInv
<1> SUFFICES ASSUME Init PROVE CrossInv OBVIOUS
<1>1. TypeOK
  <2>1. {locked, overlapped, torn} \subseteq BOOLEAN BY DEF Init
  <2>2. {lock_owner, owner_core} \subseteq Cores \cup {NoCore} BY DEF Init
  <2>3. holds \in [Cores -> 0 .. MaxNest] BY MaxNestAssumption DEF Init
  <2>4. QED BY <2>1, <2>2, <2>3 DEF Init, TypeOK
<1>2. NestRoom BY DEF Init, NestRoom
<1>3. LockInv BY CoresAssumption DEF Init, LockInv, Holding
<1>4. OwnerInv
  <2>1. ASSUME NEW c \in Cores
        PROVE  pc[c] = "user" /\ ~(holds[c] > 0) /\ owner_core # c
    BY <2>1, CoresAssumption DEF Init
  <2>2. QED BY <2>1 DEF OwnerInv
<1>5. QED BY <1>1, <1>2, <1>3, <1>4 DEF CrossInv

\* The types and the room to nest hold over every step, overlapped or not.
LEMMA StepTyped ==
  ASSUME TypeOK, NestRoom, NEW c \in Cores,
         CoreStep(c) \/ LockCall(c) \/ UnlockCall(c) \/ TimeOut(c)
  PROVE  TypeOK' /\ NestRoom'
<1> USE MaxNestAssumption DEF TypeOK, NestRoom, Holding, mutexVars, Step
<1>1. CASE SpinTest(c) BY <1>1 DEF SpinTest
<1>2. CASE SpinSet(c) BY <1>2 DEF SpinSet
<1>3. CASE SpinOwn(c) BY <1>3 DEF SpinOwn
<1>4. CASE ReleaseTest(c) BY <1>4 DEF ReleaseTest, Return
<1>5. CASE ReleaseClear(c) BY <1>5 DEF ReleaseClear
<1>6. CASE ReleaseOwner(c) BY <1>6 DEF ReleaseOwner, Return
<1>7. CASE Look(c) BY <1>7 DEF Look
<1>8. CASE LookBusy(c) BY <1>8 DEF LookBusy
<1>9. CASE Nest(c) BY <1>9 DEF Nest
<1>10. CASE Take(c) BY <1>10 DEF Take
<1>11. CASE Give(c) BY <1>11 DEF Give
<1>12. CASE LockCall(c) BY <1>12 DEF LockCall
<1>13. CASE UnlockCall(c) BY <1>13 DEF UnlockCall
<1>14. CASE TimeOut(c) BY <1>14 DEF TimeOut
<1>15. QED BY <1>1, <1>2, <1>3, <1>4, <1>5, <1>6, <1>7, <1>8, <1>9, <1>10, <1>11, <1>12,
              <1>13, <1>14 DEF CoreStep

LEMMA StepLockInv ==
  ASSUME TypeOK, LockInv, NEW c \in Cores,
         CoreStep(c) \/ LockCall(c) \/ UnlockCall(c) \/ TimeOut(c)
  PROVE  LockInv'
<1> SUFFICES ASSUME ~overlapped' PROVE LockInv' BY DEF LockInv
<1> USE CoresAssumption DEF TypeOK, LockInv, Holding, mutexVars, Step
<1>1. CASE SpinTest(c) BY <1>1 DEF SpinTest
<1>2. CASE SpinSet(c) BY <1>2 DEF SpinSet
<1>3. CASE SpinOwn(c) BY <1>3 DEF SpinOwn
<1>4. CASE ReleaseTest(c) BY <1>4 DEF ReleaseTest, Return, Mine
<1>5. CASE ReleaseClear(c) BY <1>5 DEF ReleaseClear
<1>6. CASE ReleaseOwner(c) BY <1>6 DEF ReleaseOwner, Return
<1>7. CASE Look(c) BY <1>7 DEF Look
<1>8. CASE LookBusy(c) BY <1>8 DEF LookBusy
<1>9. CASE Nest(c) BY <1>9 DEF Nest
<1>10. CASE Take(c) BY <1>10 DEF Take
<1>11. CASE Give(c) BY <1>11 DEF Give
<1>12. CASE LockCall(c) BY <1>12 DEF LockCall
<1>13. CASE UnlockCall(c) BY <1>13 DEF UnlockCall
<1>14. CASE TimeOut(c) BY <1>14 DEF TimeOut
<1>15. QED BY <1>1, <1>2, <1>3, <1>4, <1>5, <1>6, <1>7, <1>8, <1>9, <1>10, <1>11, <1>12,
              <1>13, <1>14 DEF CoreStep

\* Of the steps under the spinlock only one core's are under way.
LEMMA StepOwnerInv ==
  ASSUME TypeOK, LockInv, OwnerInv, NEW c \in Cores,
         CoreStep(c) \/ LockCall(c) \/ UnlockCall(c) \/ TimeOut(c)
  PROVE  OwnerInv'
<1> SUFFICES ASSUME ~overlapped' PROVE OwnerInv' BY DEF OwnerInv
<1>0. c # NoCore /\ \A d \in Cores \ {c} : pc[c] \in Holding /\ ~overlapped => pc[d] \notin Holding
  BY CoresAssumption DEF LockInv
<1> USE <1>0 DEF TypeOK, OwnerInv, Holding, mutexVars, Step
<1>1. CASE SpinTest(c) BY <1>1 DEF SpinTest
<1>2. CASE SpinSet(c) BY <1>2 DEF SpinSet
<1>3. CASE SpinOwn(c) BY <1>3 DEF SpinOwn
<1>4. CASE ReleaseTest(c) BY <1>4 DEF ReleaseTest, Return
<1>5. CASE ReleaseClear(c) BY <1>5 DEF ReleaseClear
<1>6. CASE ReleaseOwner(c) BY <1>6 DEF ReleaseOwner, Return
<1>7. CASE Look(c) BY <1>7 DEF Look
<1>8. CASE LookBusy(c) BY <1>8 DEF LookBusy
<1>9. CASE Nest(c) BY <1>9 DEF Nest
<1>10. CASE Take(c)
  <2>1. \A d \in Cores : holds[d] = 0
    <3>1. owner_core = NoCore BY <1>10 DEF Take
    <3>2. \A d \in Cores : ~(holds[d] > 0) BY <3>1, CoresAssumption, <1>10 DEF Take
    <3>3. QED BY <3>2
  <2>2. \A d \in Cores \ {c} : holds'[d] = 0 /\ d # owner_core' /\ pc'[d] \notin {"nest", "give", "take"}
    BY <1>10, <2>1 DEF Take
  <2>3. holds'[c] = 1 /\ owner_core' = c /\ recursion_count' = 1 /\ pc'[c] = "release"
    BY <1>10 DEF Take
  <2>4. QED BY <2>2, <2>3
<1>11. CASE Give(c)
  <2>1. owner_core = c /\ holds[c] > 0 /\ recursion_count = holds[c]
    BY <1>11 DEF Give
  <2>2. \A d \in Cores \ {c} : holds'[d] = 0 /\ d # owner_core' /\ pc'[d] \notin {"nest", "give", "take"}
    BY <1>11, <2>1, CoresAssumption DEF Give
  <2>3. /\ holds'[c] = holds[c] - 1 /\ pc'[c] = "release"
        /\ recursion_count' = holds[c] - 1
        /\ owner_core' = IF holds[c] > 1 THEN c ELSE NoCore
    BY <1>11, <2>1 DEF Give
  <2>4. QED BY <2>1, <2>2, <2>3
<1>12. CASE LockCall(c) BY <1>12 DEF LockCall
<1>13. CASE UnlockCall(c) BY <1>13 DEF UnlockCall
<1>14. CASE TimeOut(c) BY <1>14 DEF TimeOut
<1>15. QED BY <1>1, <1>2, <1>3, <1>4, <1>5, <1>6, <1>7, <1>8, <1>9, <1>10, <1>11, <1>12,
              <1>13, <1>14 DEF CoreStep

LEMMA NextCrossInv == CrossInv /\ [Next]_vars => CrossInv'
<1> SUFFICES ASSUME CrossInv, [Next]_vars PROVE CrossInv' OBVIOUS
<1>1. ASSUME NEW c \in Cores, CoreStep(c) \/ LockCall(c) \/ UnlockCall(c) \/ TimeOut(c)
      PROVE  CrossInv'
  BY <1>1, StepTyped, StepLockInv, StepOwnerInv DEF CrossInv
<1>2. CASE UNCHANGED vars
  BY <1>2 DEF vars, mutexVars, CrossInv, TypeOK, NestRoom, LockInv, OwnerInv
<1>3. QED BY <1>1, <1>2 DEF Next
-----------------------------------------------------------------------------
LEMMA CrossSafe == Spec => []CrossInv
  BY InitCrossInv, NextCrossInv, PTL DEF Spec

\* The variables keep their types and no core counts more locks than it nests.
THEOREM CrossCoreTyped == Spec => []TypeOK
<1>1. CrossInv => TypeOK BY DEF CrossInv
<1>2. QED BY <1>1, CrossSafe, PTL

\* Unless two tests overlapped the spinlock has one holder, the release of a core
\* that gave up waiting included.
THEOREM SpinlockExact == Spec => []SpinExact
<1>1. CrossInv => SpinExact BY DEF CrossInv, LockInv, SpinExact
<1>2. QED BY <1>1, CrossSafe, PTL

\* Unless two tests overlapped, who was granted the mutex owns it at that depth.
THEOREM CrossMutexExact == Spec => []MutexExact
<1>1. CrossInv => MutexExact BY DEF CrossInv, OwnerInv, MutexExact
<1>2. QED BY <1>1, CrossSafe, PTL

-----------------------------------------------------------------------------
(***************************************************************************)
(* What holds of the cores' meeting places, for any number of calls and    *)
(* any size of the registry.  Each part has an invariant of its own; the   *)
(* parts that do not move stay as they began.                              *)
(***************************************************************************)

\* There are two cores.
LEMMA TwoCores ==
  ASSUME NEW c \in Parties
  PROVE  /\ Other(c) \in Parties /\ Other(c) # c
         /\ \A d \in Parties : d = c \/ d = Other(c)
<1>1. IsFiniteSet(Parties \ {c}) /\ Cardinality(Parties \ {c}) = 1
  BY FS_RemoveElement, PartiesAssumption
<1>2. PICK d : Parties \ {c} = {d} BY <1>1, FS_Singleton
<1>3. Other(c) = d BY <1>2 DEF Other
<1>4. QED BY <1>2, <1>3
-----------------------------------------------------------------------------
\* What a step of a call does to at.
Moved(c, from, to) == /\ at[c] = from
                      /\ \A d \in Parties : at'[d] = IF d = c THEN to ELSE at[d]

LEMMA GoesMoves ==
  ASSUME NEW S, at \in [Parties -> S], NEW c \in Parties, NEW from, NEW to \in S,
         Goes(c, from, to)
  PROVE  at' \in [Parties -> S] /\ Moved(c, from, to)
BY DEF Goes, Moved
-----------------------------------------------------------------------------
(***************************************************************************)
(* The barrier.  A core that is recorded as come, or was loaded as such,   *)
(* has come; who is recorded stays so unless clobbered.                    *)
(***************************************************************************)
Waiting == {"gather", "late", "hold"}
BarrierPlaces == Waiting \cup {"user", "arrive", "withdraw"}

BarrierTypes ==
  /\ at \in [Parties -> BarrierPlaces]
  /\ turn \in [Parties -> Nat] /\ done \in [Parties -> Nat]
  /\ seen \in [Parties -> SUBSET Parties] /\ cores_arrived \in SUBSET Parties

BarrierKnown ==
  /\ \A c \in Parties : at[c] # "user" \/ c \in cores_arrived => turn[c] > 0
  /\ \A c, d \in Parties : d \in seen[c] => turn[d] > 0
  /\ \A c, d \in Parties : c # d /\ (at[c] = "hold" \/ done[c] > 0) => turn[d] > 0
  /\ ~clobbered => \A c \in Parties : at[c] \in Waiting => c \in cores_arrived

BarrierInv == BarrierTypes /\ BarrierKnown

LEMMA BarrierStepInv ==
  ASSUME BarrierInv, NEW c \in Parties, BarrierStep(c)
  PROVE  BarrierInv'
<1> USE DEF BarrierInv
<1>1. CASE Arrive(c)
  <2>1. at' \in [Parties -> BarrierPlaces] /\ Moved(c, "user", "arrive")
    BY <1>1, GoesMoves DEF Arrive, Enters, Waiting, BarrierPlaces, BarrierTypes
  <2>2. /\ turn' \in [Parties -> Nat] /\ seen' \in [Parties -> SUBSET Parties]
        /\ \A d \in Parties : turn'[d] >= turn[d] /\ seen'[d] \subseteq seen[d] \cup cores_arrived
        /\ turn'[c] > 0
    BY <1>1 DEF Arrive, Enters, BarrierTypes
  <2>3. BarrierTypes'
    BY <1>1, <2>1, <2>2 DEF Arrive, BarrierTypes
  <2>4. BarrierKnown'
    BY <1>1, <2>1, <2>2 DEF Arrive, Moved, BarrierTypes, BarrierKnown, Waiting
  <2>5. QED BY <2>3, <2>4
<1>2. CASE Arrived(c)
  <2>1. at' \in [Parties -> BarrierPlaces] /\ Moved(c, "arrive", "gather")
    BY <1>2, GoesMoves DEF Arrived, Waiting, BarrierPlaces, BarrierTypes
  <2>2. BarrierTypes'
    BY <1>2, <2>1 DEF Arrived, BarrierTypes
  <2>3. BarrierKnown'
    BY <1>2, <2>1 DEF Arrived, Moved, BarrierTypes, BarrierKnown, Waiting
  <2>4. QED BY <2>2, <2>3
<1>3. CASE Gather(c)
  <2>1. UNCHANGED <<turn, done, seen, cores_arrived, clobbered>>
    BY <1>3 DEF Gather, barrierVars
  <2>2. CASE AllArrived
    <3>1. at' \in [Parties -> BarrierPlaces] /\ Moved(c, "gather", "hold")
      BY <1>3, <2>2, GoesMoves DEF Gather, Waiting, BarrierPlaces, BarrierTypes
    <3>2. QED
      BY <2>1, <2>2, <3>1 DEF AllArrived, Moved, BarrierTypes, BarrierKnown, Waiting
  <2>3. CASE ~AllArrived
    <3>1. at' \in [Parties -> BarrierPlaces] /\ Moved(c, "gather", "late")
      BY <1>3, <2>3, GoesMoves DEF Gather, Waiting, BarrierPlaces, BarrierTypes
    <3>2. QED BY <2>1, <3>1 DEF Moved, BarrierTypes, BarrierKnown, Waiting
  <2>4. QED BY <2>2, <2>3
<1>4. CASE GiveUp(c)
  <2>1. UNCHANGED <<turn, done, cores_arrived, clobbered>> BY <1>4 DEF GiveUp
  <2>2. CASE Goes(c, "late", "gather") /\ UNCHANGED seen
    <3>1. at' \in [Parties -> BarrierPlaces] /\ Moved(c, "late", "gather")
      BY <2>2, GoesMoves DEF Waiting, BarrierPlaces, BarrierTypes
    <3>2. QED BY <2>1, <2>2, <3>1 DEF Moved, BarrierTypes, BarrierKnown, Waiting
  <2>3. CASE /\ Goes(c, "late", "withdraw")
             /\ seen' = [seen EXCEPT ![c] = cores_arrived]
    <3>1. at' \in [Parties -> BarrierPlaces] /\ Moved(c, "late", "withdraw")
      BY <2>3, GoesMoves DEF Waiting, BarrierPlaces, BarrierTypes
    <3>2. /\ seen' \in [Parties -> SUBSET Parties]
          /\ \A d \in Parties : seen'[d] \subseteq seen[d] \cup cores_arrived
      BY <2>3 DEF BarrierTypes
    <3>3. QED BY <2>1, <3>1, <3>2 DEF Moved, BarrierTypes, BarrierKnown, Waiting
  <2>4. QED BY <1>4, <2>2, <2>3 DEF GiveUp
<1>5. CASE Withdraw(c)
  <2>1. at' \in [Parties -> BarrierPlaces] /\ Moved(c, "withdraw", "user")
    BY <1>5, GoesMoves DEF Withdraw, Waiting, BarrierPlaces, BarrierTypes
  <2>2. BarrierTypes'
    BY <1>5, <2>1 DEF Withdraw, BarrierTypes
  <2>3. BarrierKnown'
    BY <1>5, <2>1 DEF Withdraw, Moved, BarrierTypes, BarrierKnown, Waiting
  <2>4. QED BY <2>2, <2>3
<1>6. CASE Pass(c)
  <2>1. at' \in [Parties -> BarrierPlaces] /\ Moved(c, "hold", "user")
    BY <1>6, GoesMoves DEF Pass, Waiting, BarrierPlaces, BarrierTypes
  <2>2. done' \in [Parties -> Nat] /\ \A d \in Parties : d # c => done'[d] = done[d]
    BY <1>6 DEF Pass, BarrierTypes
  <2>3. BarrierTypes'
    BY <1>6, <2>1, <2>2 DEF Pass, BarrierTypes
  <2>4. BarrierKnown'
    BY <1>6, <2>1, <2>2 DEF Pass, Moved, BarrierTypes, BarrierKnown, Waiting
  <2>5. QED BY <2>3, <2>4
<1>7. CASE Release(c) BY <1>7 DEF Release, BarrierTypes, BarrierKnown, Waiting
<1>8. CASE BarrierInit(c)
  <2>1. clobbered' \/ \A d \in Parties : at[d] = "user" BY <1>8, TwoCores DEF BarrierInit
  <2>2. QED BY <1>8, <2>1 DEF BarrierInit, BarrierTypes, BarrierKnown, Waiting
<1>9. QED BY <1>1, <1>2, <1>3, <1>4, <1>5, <1>6, <1>7, <1>8 DEF BarrierStep
-----------------------------------------------------------------------------
(***************************************************************************)
(* The rendezvous.  The data of a core are the number of its latest call;  *)
(* a core that is ready is inside a call; and the first call of the other  *)
(* during one's own is at most its latest, or its next if it is outside.   *)
(***************************************************************************)
Met == {"clear mine", "clear other"}
RendezvousPlaces == Met \cup {"user", "bring", "meet", "missed", "fetch"}

RendezvousTypes ==
  /\ at \in [Parties -> RendezvousPlaces]
  /\ turn \in [Parties -> Nat] /\ data \in [Parties -> Nat]
  /\ read \in [Parties -> Nat] /\ oldest \in [Parties -> Nat]
  /\ core_ready \in [Parties -> BOOLEAN]

DataLatest == \A c \in Parties : data[c] = turn[c]
ReadyInside == \A c \in Parties : core_ready[c] => at[c] \notin {"user", "clear other"}
ReadLate == \A c \in Parties : at[c] \in Met => oldest[c] <= read[c]
OldestReached == \A c, d \in Parties : c # d /\ at[c] # "user" =>
                   /\ oldest[c] <= turn[d] + 1
                   /\ at[c] = "fetch" \/ at[d] # "user" => oldest[c] <= turn[d]

RendezvousKnown == DataLatest /\ ReadyInside /\ ReadLate /\ OldestReached

RendezvousInv == RendezvousTypes /\ RendezvousKnown

LEMMA RendezvousStepInv ==
  ASSUME RendezvousInv, NEW c \in Parties, RendezvousStep(c)
  PROVE  RendezvousInv'
<1> USE DEF RendezvousInv
<1>1. CASE Bring(c)
  <2>1. at' \in [Parties -> RendezvousPlaces] /\ Moved(c, "user", "bring")
    BY <1>1, GoesMoves DEF Bring, Enters, Met, RendezvousPlaces, RendezvousTypes
  <2>2. /\ turn' \in [Parties -> Nat] /\ data' \in [Parties -> Nat]
        /\ \A d \in Parties : /\ turn'[d] = IF d = c THEN turn[d] + 1 ELSE turn[d]
                              /\ data'[d] = IF d = c THEN turn[d] + 1 ELSE data[d]
    BY <1>1 DEF Bring, Enters, RendezvousTypes
  <2>3. /\ oldest' \in [Parties -> Nat]
        /\ \A d \in Parties : d # c => oldest'[d] = oldest[d]
        /\ oldest'[c] = turn[Other(c)] + (IF at[Other(c)] = "user" THEN 1 ELSE 0)
    BY <1>1, TwoCores DEF Bring, RendezvousTypes
  <2>4. UNCHANGED <<core_ready, read>> BY <1>1 DEF Bring
  <2>5. RendezvousTypes' BY <2>1, <2>2, <2>3, <2>4 DEF RendezvousTypes
  <2>6. RendezvousKnown'
    <3>1. DataLatest'
      BY <2>1, <2>2, <2>3, <2>4, TwoCores DEF RendezvousTypes, RendezvousKnown, DataLatest
    <3>2. ReadyInside'
      BY <2>1, <2>2, <2>3, <2>4, TwoCores DEF Moved, RendezvousTypes, RendezvousKnown, ReadyInside
    <3>3. ReadLate'
      BY <2>1, <2>2, <2>3, <2>4, TwoCores DEF Moved, Met, RendezvousTypes, RendezvousKnown, DataLatest,
          ReadyInside, ReadLate, OldestReached, ReadLate
    <3>4. OldestReached'
      BY <2>1, <2>2, <2>3, <2>4, TwoCores DEF Moved, RendezvousTypes, RendezvousKnown, OldestReached
    <3>5. QED BY <3>1, <3>2, <3>3, <3>4 DEF RendezvousKnown
  <2>7. QED BY <2>5, <2>6
<1>2. CASE Ready(c)
  <2>1. at' \in [Parties -> RendezvousPlaces] /\ Moved(c, "bring", "meet")
    BY <1>2, GoesMoves DEF Ready, Met, RendezvousPlaces, RendezvousTypes
  <2>2. /\ core_ready' \in [Parties -> BOOLEAN]
        /\ \A d \in Parties : core_ready'[d] = IF d = c THEN TRUE ELSE core_ready[d]
    BY <1>2 DEF Ready, RendezvousTypes
  <2>3. RendezvousTypes' BY <1>2, <2>1, <2>2 DEF Ready, RendezvousTypes
  <2>4. RendezvousKnown'
    <3>1. DataLatest'
      BY <1>2, <2>1, <2>2 DEF Ready, RendezvousTypes, RendezvousKnown, DataLatest
    <3>2. ReadyInside'
      BY <1>2, <2>1, <2>2 DEF Ready, Moved, RendezvousTypes, RendezvousKnown, ReadyInside
    <3>3. ReadLate'
      BY <1>2, <2>1, <2>2 DEF Ready, Moved, Met, RendezvousTypes, RendezvousKnown, ReadLate
    <3>4. OldestReached'
      BY <1>2, <2>1, <2>2 DEF Ready, Moved, RendezvousTypes, RendezvousKnown, OldestReached
    <3>5. QED BY <3>1, <3>2, <3>3, <3>4 DEF RendezvousKnown
  <2>5. QED BY <2>3, <2>4
<1>3. CASE Meet(c)
  <2>1. UNCHANGED <<turn, core_ready, data, read, oldest>>
    BY <1>3 DEF Meet, rendezvousVars
  <2>2. CASE core_ready[Other(c)]
    <3>1. at' \in [Parties -> RendezvousPlaces] /\ Moved(c, "meet", "fetch")
      BY <1>3, <2>2, GoesMoves DEF Meet, Met, RendezvousPlaces, RendezvousTypes
    <3>2. oldest[c] <= turn[Other(c)] BY <2>2, <3>1, TwoCores DEF RendezvousKnown, ReadyInside, OldestReached, Moved
    <3>3. RendezvousTypes' BY <2>1, <3>1 DEF RendezvousTypes
    <3>4. DataLatest' /\ ReadyInside'
      BY <2>1, <3>1 DEF Moved, RendezvousKnown, DataLatest, ReadyInside
    <3>5. ReadLate' BY <2>1, <3>1 DEF Moved, Met, RendezvousKnown, ReadLate
    <3>6. OldestReached'
      BY <2>1, <3>1, <3>2, TwoCores DEF Moved, RendezvousTypes, RendezvousKnown, OldestReached
    <3>7. QED BY <3>3, <3>4, <3>5, <3>6 DEF RendezvousKnown
  <2>3. CASE ~core_ready[Other(c)]
    <3>1. at' \in [Parties -> RendezvousPlaces] /\ Moved(c, "meet", "missed")
      BY <1>3, <2>3, GoesMoves DEF Meet, Met, RendezvousPlaces, RendezvousTypes
    <3>2. QED BY <2>1, <3>1 DEF Moved, Met, RendezvousTypes, RendezvousKnown, DataLatest,
          ReadyInside, ReadLate, OldestReached
  <2>4. QED BY <2>2, <2>3
<1>4. CASE MeetAgain(c)
  <2>1. at' \in [Parties -> RendezvousPlaces] /\ Moved(c, "missed", "meet")
    BY <1>4, GoesMoves DEF MeetAgain, Met, RendezvousPlaces, RendezvousTypes
  <2>2. QED
    BY <1>4, <2>1 DEF MeetAgain, Moved, Met, RendezvousTypes, RendezvousKnown, DataLatest,
             ReadyInside, ReadLate, OldestReached, rendezvousVars
<1>5. CASE Leave(c)
  <2>1. at' \in [Parties -> RendezvousPlaces] /\ Moved(c, "missed", "user")
    BY <1>5, GoesMoves DEF Leave, Met, RendezvousPlaces, RendezvousTypes
  <2>2. /\ core_ready' \in [Parties -> BOOLEAN]
        /\ \A d \in Parties : core_ready'[d] = IF d = c THEN FALSE ELSE core_ready[d]
    BY <1>5 DEF Leave, RendezvousTypes
  <2>3. RendezvousTypes' BY <1>5, <2>1, <2>2 DEF Leave, RendezvousTypes
  <2>4. RendezvousKnown'
    <3>1. DataLatest'
      BY <1>5, <2>1, <2>2 DEF Leave, RendezvousTypes, RendezvousKnown, DataLatest
    <3>2. ReadyInside'
      BY <1>5, <2>1, <2>2 DEF Leave, Moved, RendezvousTypes, RendezvousKnown, ReadyInside
    <3>3. ReadLate'
      BY <1>5, <2>1, <2>2 DEF Leave, Moved, Met, RendezvousTypes, RendezvousKnown, ReadLate
    <3>4. OldestReached'
      BY <1>5, <2>1, <2>2 DEF Leave, Moved, RendezvousTypes, RendezvousKnown, OldestReached
    <3>5. QED BY <3>1, <3>2, <3>3, <3>4 DEF RendezvousKnown
  <2>5. QED BY <2>3, <2>4
<1>6. CASE Fetch(c)
  <2>1. at' \in [Parties -> RendezvousPlaces] /\ Moved(c, "fetch", "clear mine")
    BY <1>6, GoesMoves DEF Fetch, Met, RendezvousPlaces, RendezvousTypes
  <2>2. /\ read' \in [Parties -> Nat] /\ oldest[c] <= read'[c]
        /\ \A d \in Parties : d # c => read'[d] = read[d]
    BY <1>6, <2>1, TwoCores DEF Moved, Fetch, RendezvousTypes, RendezvousKnown,
             DataLatest, OldestReached
  <2>3. UNCHANGED <<turn, core_ready, data, oldest>> BY <1>6 DEF Fetch
  <2>4. RendezvousTypes' BY <2>1, <2>2, <2>3 DEF RendezvousTypes
  <2>5. DataLatest' /\ ReadyInside'
    BY <2>1, <2>3 DEF Moved, RendezvousKnown, DataLatest, ReadyInside
  <2>6. ReadLate' BY <2>1, <2>2, <2>3 DEF Moved, Met, RendezvousKnown, ReadLate
  <2>7. OldestReached' BY <2>1, <2>3 DEF Moved, RendezvousTypes, RendezvousKnown, OldestReached
  <2>8. QED BY <2>4, <2>5, <2>6, <2>7 DEF RendezvousKnown
<1>7. CASE ClearMine(c)
  <2>1. at' \in [Parties -> RendezvousPlaces] /\ Moved(c, "clear mine", "clear other")
    BY <1>7, GoesMoves DEF ClearMine, Met, RendezvousPlaces, RendezvousTypes
  <2>2. QED BY <1>7, <2>1 DEF ClearMine, Moved, Met, RendezvousTypes, RendezvousKnown, DataLatest,
             ReadyInside, ReadLate, OldestReached
<1>8. CASE ClearOther(c)
  <2>1. at' \in [Parties -> RendezvousPlaces] /\ Moved(c, "clear other", "user")
    BY <1>8, GoesMoves DEF ClearOther, Met, RendezvousPlaces, RendezvousTypes
  <2>2. /\ core_ready' \in [Parties -> BOOLEAN]
        /\ \A d \in Parties : core_ready'[d] = IF d = Other(c) THEN FALSE ELSE core_ready[d]
    BY <1>8, TwoCores DEF ClearOther, RendezvousTypes
  <2>3. RendezvousTypes' BY <1>8, <2>1, <2>2 DEF ClearOther, RendezvousTypes
  <2>4. RendezvousKnown'
    <3>1. DataLatest'
      BY <1>8, <2>1, <2>2, TwoCores DEF ClearOther, RendezvousTypes, RendezvousKnown, DataLatest
    <3>2. ReadyInside'
      BY <1>8, <2>1, <2>2, TwoCores DEF ClearOther, Moved, RendezvousTypes, RendezvousKnown, ReadyInside
    <3>3. ReadLate'
      BY <1>8, <2>1, <2>2, TwoCores DEF ClearOther, Moved, Met, RendezvousTypes, RendezvousKnown, ReadLate
    <3>4. OldestReached'
      BY <1>8, <2>1, <2>2, TwoCores DEF ClearOther, Moved, RendezvousTypes, RendezvousKnown, OldestReached
    <3>5. QED BY <3>1, <3>2, <3>3, <3>4 DEF RendezvousKnown
  <2>5. QED BY <2>3, <2>4
<1>9. QED
  BY <1>1, <1>2, <1>3, <1>4, <1>5, <1>6, <1>7, <1>8 DEF RendezvousStep, RendezvousGoesOn
-----------------------------------------------------------------------------
(***************************************************************************)
(* Semaphore and registry, as long as no two cores are inside one of them: *)
(* there is a give to take for the core that tests and for the one that    *)
(* found the semaphore given; a slot is still as the core found it; the    *)
(* ids given so far are below the next one.                                *)
(***************************************************************************)
Registering == {"register", "unregister"}
TablePlaces == Registering \cup {"user", "take"}
Active == {i \in Slots : threads[i] # -1}

TableTypes ==
  /\ at \in [Parties -> TablePlaces]
  /\ semaphore \in {0, 1} /\ given \in Nat /\ taken \in Nat /\ raced \in BOOLEAN
  /\ threads \in [Slots -> Int] /\ next_global_id \in Nat /\ thread_count \in Int
  /\ slot \in [Parties -> Int]

TakesGiven == /\ taken <= given
              /\ semaphore = 1 \/ (\E c \in Parties : at[c] = "take") => taken < given

OneInside == \A c, d \in Parties :
               /\ at[c] = "take" /\ at[d] = "take" => c = d
               /\ at[c] \in Registering /\ at[d] \in Registering => c = d

SlotStands == \A c \in Parties :
                /\ at[c] \in Registering => slot[c] \in Slots
                /\ at[c] = "register" => slot[c] \notin Active
                /\ at[c] = "unregister" => slot[c] \in Active

Ids == \A i, j \in Active : /\ threads[i] < next_global_id
                            /\ threads[i] = threads[j] => i = j

Counted == thread_count = Cardinality(Active)

TableInv == TableTypes /\ (~raced => TakesGiven /\ OneInside /\ SlotStands /\ Ids /\ Counted)

\* The number of active entries changes with one of them.
LEMMA ActiveChange ==
  ASSUME NEW i \in Slots
  PROVE  /\ IsFiniteSet(Active) /\ Cardinality(Active) \in Nat
         /\ i \notin Active => Cardinality(Active \cup {i}) = Cardinality(Active) + 1
         /\ i \in Active => Cardinality(Active \ {i}) = Cardinality(Active) - 1
<1>1. IsFiniteSet(Active) BY SlotsAssumption, FS_Subset DEF Active
<1>2. QED BY <1>1, FS_AddElement, FS_RemoveElement, FS_CardinalityType

\* Writing an entry, whether it is one of the table's or not.
LEMMA ExceptTyped ==
  ASSUME NEW S, NEW T, NEW f \in [S -> T], NEW x, NEW v \in T
  PROVE  [f EXCEPT ![x] = v] \in [S -> T]
OBVIOUS

LEMMA TableStepInv ==
  ASSUME TableInv, NEW c \in Parties, TableStep(c)
  PROVE  TableInv'
<1> USE DEF TableInv
<1>1. CASE SemGive(c)
  <2>1. at' \in [Parties -> TablePlaces] /\ Moved(c, "user", "user")
    BY <1>1, GoesMoves DEF SemGive, Enters, Registering, TablePlaces, TableTypes
  <2>2. QED
    BY <1>1, <2>1 DEF SemGive, registryVars, Moved, TableTypes, TakesGiven, OneInside,
       SlotStands, Ids, Counted, Active
<1>2. CASE SemTest(c)
  <2>1. at' \in [Parties -> TablePlaces] /\ Moved(c, "user", "take")
    BY <1>2, GoesMoves DEF SemTest, Registering, TablePlaces, TableTypes
  <2>2. TableTypes' BY <1>2, <2>1 DEF SemTest, registryVars, TableTypes
  <2>3. ~raced' => TakesGiven' BY <1>2, <2>1 DEF SemTest, Moved, TableTypes, TakesGiven
  <2>4. ~raced' => OneInside'
    BY <1>2, <2>1, TwoCores DEF SemTest, Moved, Registering, OneInside
  <2>5. ~raced' => SlotStands' /\ Ids' /\ Counted'
    BY <1>2, <2>1 DEF SemTest, registryVars, Moved, Registering, SlotStands, Ids, Counted, Active
  <2>6. QED BY <2>2, <2>3, <2>4, <2>5
<1>3. CASE SemTake(c)
  <2>1. at' \in [Parties -> TablePlaces] /\ Moved(c, "take", "user")
    BY <1>3, GoesMoves DEF SemTake, Registering, TablePlaces, TableTypes
  <2>2. TableTypes' BY <1>3, <2>1 DEF SemTake, registryVars, TableTypes
  <2>3. ~raced' => TakesGiven'
    BY <1>3, <2>1 DEF SemTake, Moved, TableTypes, TakesGiven, OneInside
  <2>4. ~raced' => OneInside' BY <1>3, <2>1 DEF SemTake, Moved, Registering, OneInside
  <2>5. ~raced' => SlotStands' /\ Ids' /\ Counted'
    BY <1>3, <2>1 DEF SemTake, registryVars, Moved, Registering, SlotStands, Ids, Counted, Active
  <2>6. QED BY <2>2, <2>3, <2>4, <2>5
<1>4. CASE RegisterFind(c)
  <2>1. at' \in [Parties -> TablePlaces] /\ Moved(c, "user", "register")
    <3>1. Goes(c, "user", "register") BY <1>4 DEF RegisterFind, Enters
    <3>2. at \in [Parties -> TablePlaces] BY DEF TableTypes
    <3>3. "register" \in TablePlaces BY DEF TablePlaces, Registering
    <3>4. QED BY ONLY <3>1, <3>2, <3>3, GoesMoves, c \in Parties
  <2>2. PICK i \in Slots : threads[i] = -1 /\ slot' = [slot EXCEPT ![c] = i]
    BY <1>4 DEF RegisterFind
  <2>3. TableTypes'
    <3>1. slot' \in [Parties -> Int] BY <2>2, SlotsAssumption DEF TableTypes
    <3>2. raced' \in BOOLEAN BY <1>4 DEF RegisterFind
    <3>3. UNCHANGED <<semaphore, given, taken, threads, next_global_id, thread_count>>
      BY <1>4 DEF RegisterFind
    <3>4. QED BY <2>1, <3>1, <3>2, <3>3 DEF TableTypes
  <2>4. ~raced' => TakesGiven' BY <1>4, <2>1 DEF RegisterFind, Moved, TakesGiven
  <2>5. ~raced' => OneInside'
    <3>1. ~raced' => ~raced /\ at[Other(c)] \notin Registering
      BY <1>4 DEF RegisterFind, Registering
    <3>2. \A d \in Parties : d = c \/ d = Other(c) BY TwoCores
    <3>3. \A d \in Parties : at'[d] = IF d = c THEN "register" ELSE at[d] BY <2>1 DEF Moved
    <3>4. QED BY <3>1, <3>2, <3>3 DEF OneInside
  <2>6. ~raced' => SlotStands'
    BY <1>4, <2>1, <2>2 DEF RegisterFind, Moved, Registering, SlotStands, Active, TableTypes
  <2>7. ~raced' => Ids' /\ Counted' BY <1>4 DEF RegisterFind, Ids, Counted, Active
  <2>8. QED BY <2>3, <2>4, <2>5, <2>6, <2>7
<1>5. CASE RegisterFill(c)
  <2>1. at' \in [Parties -> TablePlaces] /\ Moved(c, "register", "user")
    BY <1>5, GoesMoves DEF RegisterFill, Registering, TablePlaces, TableTypes
  <2>2. CASE raced
    <3>1. threads' \in [Slots -> Int]
      <4>1. next_global_id \in Int /\ threads \in [Slots -> Int] BY DEF TableTypes
      <4>2. [threads EXCEPT ![slot[c]] = next_global_id] \in [Slots -> Int]
        BY <4>1, ExceptTyped
      <4>3. QED BY <1>5, <4>2 DEF RegisterFill
    <3>2. QED BY <1>5, <2>1, <2>2, <3>1 DEF RegisterFill, TableTypes
  <2>3. CASE ~raced
    <3>1. slot[c] \in Slots /\ slot[c] \notin Active
      BY <2>1, <2>3 DEF Moved, Registering, SlotStands
    <3>2. /\ threads' \in [Slots -> Int]
          /\ \A i \in Slots : threads'[i] = IF i = slot[c] THEN next_global_id ELSE threads[i]
      BY <1>5, <3>1 DEF RegisterFill, TableTypes
    <3>3. Active' = Active \cup {slot[c]}
      BY <3>1, <3>2 DEF Active, TableTypes
    <3>4. TableTypes' BY <1>5, <2>1, <3>2 DEF RegisterFill, TableTypes
    <3>5. TakesGiven' BY <1>5, <2>1, <2>3 DEF RegisterFill, Moved, TakesGiven
    <3>6. OneInside' BY <1>5, <2>1, <2>3 DEF Moved, Registering, OneInside
    <3>7. SlotStands'
      BY <1>5, <2>1, <2>3, <3>3 DEF RegisterFill, Moved, Registering, SlotStands, OneInside
    <3>8. Ids'
      <4>1. Active \subseteq Slots BY DEF Active
      <4>2. QED
        BY <1>5, <2>3, <3>1, <3>2, <3>3, <4>1 DEF RegisterFill, Ids, TableTypes
    <3>9. Counted' BY <1>5, <2>3, <3>1, <3>3, ActiveChange DEF RegisterFill, Counted
    <3>10. QED BY <3>4, <3>5, <3>6, <3>7, <3>8, <3>9
  <2>4. QED BY <2>2, <2>3
<1>6. CASE UnregisterFind(c)
  <2>1. at' \in [Parties -> TablePlaces] /\ Moved(c, "user", "unregister")
    <3>1. Goes(c, "user", "unregister") BY <1>6 DEF UnregisterFind
    <3>2. QED BY <3>1, GoesMoves DEF Registering, TablePlaces, TableTypes
  <2>2. PICK i \in Slots : threads[i] # -1 /\ slot' = [slot EXCEPT ![c] = i]
    BY <1>6 DEF UnregisterFind
  <2>3. TableTypes'
    <3>1. slot' \in [Parties -> Int] BY <2>2, SlotsAssumption DEF TableTypes
    <3>2. raced' \in BOOLEAN BY <1>6 DEF UnregisterFind
    <3>3. UNCHANGED <<semaphore, given, taken, threads, next_global_id, thread_count>>
      BY <1>6 DEF UnregisterFind
    <3>4. QED BY <2>1, <3>1, <3>2, <3>3 DEF TableTypes
  <2>4. ~raced' => TakesGiven' BY <1>6, <2>1 DEF UnregisterFind, Moved, TakesGiven
  <2>5. ~raced' => OneInside'
    <3>1. ~raced' => ~raced /\ at[Other(c)] \notin Registering
      BY <1>6 DEF UnregisterFind, Registering
    <3>2. \A d \in Parties : d = c \/ d = Other(c) BY TwoCores
    <3>3. \A d \in Parties : at'[d] = IF d = c THEN "unregister" ELSE at[d] BY <2>1 DEF Moved
    <3>4. QED BY <3>1, <3>2, <3>3 DEF OneInside
  <2>6. ~raced' => SlotStands'
    BY <1>6, <2>1, <2>2 DEF UnregisterFind, Moved, Registering, SlotStands, Active, TableTypes
  <2>7. ~raced' => Ids' /\ Counted' BY <1>6 DEF UnregisterFind, Ids, Counted, Active
  <2>8. QED BY <2>3, <2>4, <2>5, <2>6, <2>7
<1>7. CASE UnregisterDrop(c)
  <2>1. at' \in [Parties -> TablePlaces] /\ Moved(c, "unregister", "user")
    BY <1>7, GoesMoves DEF UnregisterDrop, Registering, TablePlaces, TableTypes
  <2>2. CASE raced
    <3>1. threads' \in [Slots -> Int] BY <1>7, ExceptTyped DEF UnregisterDrop, TableTypes
    <3>2. QED BY <1>7, <2>1, <2>2, <3>1 DEF UnregisterDrop, TableTypes
  <2>3. CASE ~raced
    <3>1. slot[c] \in Slots /\ slot[c] \in Active
      BY <2>1, <2>3 DEF Moved, Registering, SlotStands
    <3>2. /\ threads' \in [Slots -> Int]
          /\ \A i \in Slots : threads'[i] = IF i = slot[c] THEN -1 ELSE threads[i]
      BY <1>7, <3>1 DEF UnregisterDrop, TableTypes
    <3>3. Active' = Active \ {slot[c]} BY <3>1, <3>2 DEF Active
    <3>4. TableTypes' BY <1>7, <2>1, <3>2 DEF UnregisterDrop, TableTypes
    <3>5. TakesGiven' BY <1>7, <2>1, <2>3 DEF UnregisterDrop, Moved, TakesGiven
    <3>6. OneInside' BY <1>7, <2>1, <2>3 DEF Moved, Registering, OneInside
    <3>7. SlotStands'
      BY <1>7, <2>1, <2>3, <3>3 DEF UnregisterDrop, Moved, Registering, SlotStands, OneInside
    <3>8. Ids'
      <4>1. Active \subseteq Slots BY DEF Active
      <4>2. QED
        BY <1>7, <2>3, <3>2, <3>3, <4>1 DEF UnregisterDrop, Ids, TableTypes
    <3>9. Counted' BY <1>7, <2>3, <3>1, <3>3, ActiveChange DEF UnregisterDrop, Counted
    <3>10. QED BY <3>4, <3>5, <3>6, <3>7, <3>8, <3>9
  <2>4. QED BY <2>2, <2>3
<1>8. QED BY <1>1, <1>2, <1>3, <1>4, <1>5, <1>6, <1>7 DEF TableStep
-----------------------------------------------------------------------------
(***************************************************************************)
(* The mailbox.  What is received and what is in the mailbox make up what  *)
(* was sent; the core that has a message in hand has not cleared it.       *)
(***************************************************************************)
MailPlaces == {"user", "received"}
Taken(c) == mailbox[c] = 0 \/ at[Other(c)] = "received"

MailTypes ==
  /\ at \in [Parties -> MailPlaces]
  /\ sent \in [Parties -> Nat] /\ mailbox \in [Parties -> Nat]
  /\ received \in [Parties -> Seq(Nat)]

\* The messages a core sent, in the form that an induction can use.
Delivered == \A c \in Parties :
  /\ mailbox[c] # 0 => mailbox[c] = sent[c]
  /\ at[Other(c)] = "received" => mailbox[c] # 0
  /\ Len(received[Other(c)]) = IF Taken(c) THEN sent[c] ELSE sent[c] - 1
  /\ \A i \in 1 .. Len(received[Other(c)]) : received[Other(c)][i] = i

MailInv == MailTypes /\ Delivered

LEMMA MailStepInv ==
  ASSUME MailInv, NEW c \in Parties, MailStep(c)
  PROVE  MailInv'
<1> USE DEF MailInv
<1>1. CASE Send(c)
  <2>1. UNCHANGED <<at, received>> BY <1>1 DEF Send
  <2>2. /\ sent' \in [Parties -> Nat] /\ mailbox' \in [Parties -> Nat]
        /\ \A d \in Parties : /\ sent'[d] = IF d = c THEN sent[d] + 1 ELSE sent[d]
                              /\ mailbox'[d] = IF d = c THEN sent[d] + 1 ELSE mailbox[d]
    BY <1>1 DEF Send, MailTypes
  <2>3. MailTypes' BY <2>1, <2>2 DEF MailTypes
  <2>4. mailbox[c] = 0 BY <1>1 DEF Send
  <2>5. at[Other(c)] # "received" /\ Taken(c) BY <2>4 DEF Delivered, Taken
  <2>6. ASSUME NEW d \in Parties
        PROVE  /\ mailbox'[d] # 0 => mailbox'[d] = sent'[d]
               /\ at[Other(d)] = "received" => mailbox'[d] # 0
               /\ Len(received[Other(d)]) = IF Taken(d)' THEN sent'[d] ELSE sent'[d] - 1
               /\ \A i \in 1 .. Len(received[Other(d)]) : received[Other(d)][i] = i
    <3>1. CASE d = c
      <4>1. Len(received[Other(c)]) = sent[c] /\ sent[c] \in Nat BY <2>5 DEF Delivered, MailTypes
      <4>2. sent'[c] = sent[c] + 1 /\ mailbox'[c] = sent[c] + 1 BY <2>2
      <4>3. ~Taken(c)' BY <2>1, <2>5, <4>1, <4>2 DEF Taken
      <4>4. QED BY <2>5, <3>1, <4>1, <4>2, <4>3 DEF Delivered
    <3>2. CASE d # c
      <4>1. sent'[d] = sent[d] /\ mailbox'[d] = mailbox[d] BY <2>2, <3>2
      <4>2. Taken(d)' <=> Taken(d) BY <2>1, <4>1 DEF Taken
      <4>3. QED BY <4>1, <4>2 DEF Delivered
    <3>3. QED BY <3>1, <3>2
  <2>7. Delivered' BY <2>1, <2>6 DEF Delivered
  <2>8. QED BY <2>3, <2>7
<1>2. CASE Receive(c)
  <2>1. at' \in [Parties -> MailPlaces] /\ Moved(c, "user", "received")
    BY <1>2, GoesMoves DEF Receive, MailPlaces, MailTypes
  <2>2. mailbox[Other(c)] \in Nat /\ mailbox[Other(c)] # 0 /\ ~Taken(Other(c))
    BY <1>2, <2>1, TwoCores DEF Receive, MailTypes, Taken, Moved
  <2>3. /\ received' \in [Parties -> Seq(Nat)]
        /\ received'[c] = Append(received[c], mailbox[Other(c)])
        /\ \A d \in Parties : d # c => received'[d] = received[d]
    BY <1>2, <2>2 DEF Receive, MailTypes
  <2>4. UNCHANGED <<sent, mailbox>> BY <1>2 DEF Receive
  <2>5. MailTypes' BY <2>1, <2>3, <2>4 DEF MailTypes
  <2>6. Delivered'
    <3>1. received[c] \in Seq(Nat) /\ Other(Other(c)) = c
      BY TwoCores DEF MailTypes
    <3>2. /\ Len(received'[c]) = Len(received[c]) + 1
          /\ \A i \in 1 .. Len(received[c]) : received'[c][i] = received[c][i]
          /\ received'[c][Len(received[c]) + 1] = mailbox[Other(c)]
      BY <2>2, <2>3, <3>1
    <3>3. /\ Len(received[c]) = sent[Other(c)] - 1 /\ mailbox[Other(c)] = sent[Other(c)]
          /\ \A i \in 1 .. Len(received[c]) : received[c][i] = i
      BY <2>2, <3>1, TwoCores DEF Delivered
    <3>4. /\ Len(received'[c]) = sent[Other(c)]
          /\ \A i \in 1 .. Len(received'[c]) : received'[c][i] = i
      <4>1. Len(received[c]) \in Nat /\ sent[Other(c)] \in Nat BY <3>1, TwoCores DEF MailTypes
      <4>2. Len(received'[c]) = sent[Other(c)] BY <3>2, <3>3, <4>1
      <4>3. SUFFICES ASSUME NEW i \in 1 .. Len(received[c]) + 1 PROVE received'[c][i] = i
        BY <3>2, <4>2
      <4>4. i \in 1 .. Len(received[c]) \/ i = Len(received[c]) + 1 BY <4>1
      <4>5. CASE i \in 1 .. Len(received[c]) BY <3>2, <3>3, <4>5
      <4>6. CASE i = Len(received[c]) + 1
        <5>1. received'[c][i] = sent[Other(c)] BY <3>2, <3>3, <4>6
        <5>2. sent[Other(c)] = i BY <3>3, <4>1, <4>6
        <5>3. QED BY <5>1, <5>2
      <4>7. QED BY <4>4, <4>5, <4>6
    <3>5. SUFFICES ASSUME NEW d \in Parties
          PROVE /\ mailbox[d] # 0 => mailbox[d] = sent[d]
                /\ at'[Other(d)] = "received" => mailbox[d] # 0
                /\ Len(received'[Other(d)]) = IF Taken(d)' THEN sent[d] ELSE sent[d] - 1
                /\ \A i \in 1 .. Len(received'[Other(d)]) : received'[Other(d)][i] = i
      BY <2>4 DEF Delivered
    <3>6. CASE d = c
      BY <2>1, <2>3, <2>4, <3>6, TwoCores DEF Delivered, Taken, Moved
    <3>7. CASE d = Other(c)
      BY <2>1, <2>2, <2>4, <3>1, <3>3, <3>4, <3>7, TwoCores DEF Taken, Moved
    <3>8. QED BY <3>6, <3>7, TwoCores
  <2>7. QED BY <2>5, <2>6
<1>3. CASE Clear(c)
  <2>1. at' \in [Parties -> MailPlaces] /\ Moved(c, "received", "user")
    BY <1>3, GoesMoves DEF Clear, MailPlaces, MailTypes
  <2>2. /\ mailbox' \in [Parties -> Nat]
        /\ \A d \in Parties : mailbox'[d] = IF d = Other(c) THEN 0 ELSE mailbox[d]
    BY <1>3 DEF Clear, MailTypes
  <2>3. UNCHANGED <<sent, received>> BY <1>3 DEF Clear
  <2>4. MailTypes' BY <2>1, <2>2, <2>3 DEF MailTypes
  <2>5. Other(c) \in Parties /\ Other(c) # c /\ Other(Other(c)) = c
    <3>1. Other(c) \in Parties /\ Other(c) # c /\ \A d \in Parties : d = c \/ d = Other(c)
      BY TwoCores
    <3>2. Other(Other(c)) \in Parties /\ Other(Other(c)) # Other(c) BY <3>1, TwoCores
    <3>3. QED BY <3>1, <3>2
  <2>6. ASSUME NEW d \in Parties
        PROVE  /\ mailbox'[d] # 0 => mailbox'[d] = sent[d]
               /\ at'[Other(d)] = "received" => mailbox'[d] # 0
               /\ Len(received[Other(d)]) = IF Taken(d)' THEN sent[d] ELSE sent[d] - 1
               /\ \A i \in 1 .. Len(received[Other(d)]) : received[Other(d)][i] = i
    <3>1. CASE d = Other(c)
      <4>1. mailbox'[d] = 0 /\ at[Other(d)] = "received" /\ at'[Other(d)] = "user"
        BY <2>1, <2>2, <2>5, <3>1 DEF Moved
      <4>2. Taken(d) /\ Taken(d)' BY <4>1 DEF Taken
      <4>3. QED BY <4>1, <4>2 DEF Delivered
    <3>2. CASE d = c
      <4>1. mailbox'[d] = mailbox[d] /\ at'[Other(d)] = at[Other(d)]
        BY <2>1, <2>2, <2>5, <3>2 DEF Moved
      <4>2. Taken(d)' <=> Taken(d) BY <4>1 DEF Taken
      <4>3. QED BY <4>1, <4>2 DEF Delivered
    <3>3. QED BY <3>1, <3>2, TwoCores
  <2>7. Delivered' BY <2>3, <2>6 DEF Delivered
  <2>8. QED BY <2>4, <2>7
<1>4. CASE EventTaken(c) BY <1>4 DEF EventTaken, MailTypes, Delivered, Taken
<1>5. QED BY <1>1, <1>2, <1>3, <1>4 DEF MailStep

\* What MailInOrder says follows from it.
LEMMA DeliveredInOrder == ASSUME MailInv PROVE MailInOrder
<1> SUFFICES ASSUME NEW c \in Parties
             PROVE  received[Other(c)] \o
                      (IF mailbox[c] = 0 \/ at[Other(c)] = "received" THEN << >> ELSE <<mailbox[c]>>)
                      = [i \in 1 .. sent[c] |-> i]
  BY DEF MailInOrder
<1>1. received[Other(c)] \in Seq(Nat) /\ sent[c] \in Nat /\ mailbox[c] \in Nat
  BY TwoCores DEF MailInv, MailTypes
<1>2. CASE Taken(c)
  <2>1. received[Other(c)] \o << >> = received[Other(c)] BY <1>1
  <2>2. received[Other(c)] = [i \in 1 .. sent[c] |-> i]
    BY <1>1, <1>2 DEF MailInv, Delivered
  <2>3. QED BY <1>2, <2>1, <2>2 DEF Taken
<1>3. CASE ~Taken(c)
  <2>1. /\ Len(received[Other(c)]) = sent[c] - 1 /\ mailbox[c] = sent[c]
        /\ \A i \in 1 .. sent[c] - 1 : received[Other(c)][i] = i
    BY <1>1, <1>3 DEF MailInv, Delivered, Taken
  <2>2. received[Other(c)] \o <<mailbox[c]>> = [i \in 1 .. sent[c] |-> i]
    BY <1>1, <2>1
  <2>3. QED BY <1>3, <2>2 DEF Taken
<1>4. QED BY <1>2, <1>3
-----------------------------------------------------------------------------
(***************************************************************************)
(* All parts: the one that moves keeps its invariant, the others are as    *)
(* they began.                                                             *)
(***************************************************************************)
MeetingParts == {"barrier", "rendezvous", "mail", "tables"}

MailIdle == \A c \in Parties : sent[c] = 0 /\ mailbox[c] = 0 /\ received[c] = << >>
TableIdle == /\ given = 0 /\ taken = 0 /\ thread_count = 0
             /\ \A i \in Slots : threads[i] = -1

MeetingInv ==
  /\ part \notin MeetingParts => at \in [Parties -> {"user"}]
  /\ IF part = "barrier" THEN BarrierInv ELSE \A c \in Parties : done[c] = 0
  /\ part = "rendezvous" => RendezvousInv
  /\ IF part = "mail" THEN MailInv ELSE MailIdle
  /\ IF part = "tables" THEN TableInv ELSE TableIdle

LEMMA MeetingInitInv == MulticoreInit => MeetingInv
<1> SUFFICES ASSUME MulticoreInit PROVE MeetingInv
  OBVIOUS
<1> USE DEF MulticoreInit, MeetInit
<1>1. BarrierInv BY DEF BarrierInv, BarrierTypes, BarrierKnown, Waiting, BarrierPlaces
<1>2. RendezvousInv
  BY DEF RendezvousInv, RendezvousTypes, RendezvousKnown, DataLatest, ReadyInside, ReadLate,
     OldestReached, Met, RendezvousPlaces
<1>3. MailInv
  <2>1. \A c \in Parties : received[c] = << >> OBVIOUS
  <2>2. Delivered BY <2>1, TwoCores DEF Delivered, Taken
  <2>3. QED BY <2>2 DEF MailInv, MailTypes, MailPlaces
<1>4. TableInv
  <2>1. Active = {} BY DEF Active
  <2>2. Cardinality(Active) = 0 BY <2>1, FS_EmptySet
  <2>3. TableTypes
    <3>1. threads \in [Slots -> Int] /\ slot \in [Parties -> Int] OBVIOUS
    <3>2. at \in [Parties -> TablePlaces] BY DEF TablePlaces
    <3>3. raced \in BOOLEAN OBVIOUS
    <3>4. /\ semaphore \in {0, 1} /\ given \in Nat /\ taken \in Nat
          /\ next_global_id \in Nat /\ thread_count \in Int
      OBVIOUS
    <3>5. QED BY <3>1, <3>2, <3>3, <3>4 DEF TableTypes
  <2>4. TakesGiven /\ OneInside BY DEF TakesGiven, OneInside, Registering
  <2>5. SlotStands /\ Ids /\ Counted BY <2>1, <2>2 DEF SlotStands, Registering, Ids, Counted
  <2>6. QED BY <2>3, <2>4, <2>5 DEF TableInv
<1>5. MailIdle /\ TableIdle BY DEF MailIdle, TableIdle
<1>6. QED BY <1>1, <1>2, <1>3, <1>4, <1>5 DEF MeetingInv

LEMMA MeetingStepInv == MeetingInv /\ [MulticoreNext]_coreVars => MeetingInv'
<1> SUFFICES ASSUME MeetingInv, [MulticoreNext]_coreVars PROVE MeetingInv'
  OBVIOUS
<1>1. CASE UNCHANGED <<part, meetVars>>
  <2> USE <1>1 DEF meetVars, barrierVars, rendezvousVars, mailVars, tableVars
  <2>1. BarrierInv => BarrierInv' BY DEF BarrierInv, BarrierTypes, BarrierKnown
  <2>2. RendezvousInv => RendezvousInv'
    BY DEF RendezvousInv, RendezvousTypes, RendezvousKnown, DataLatest, ReadyInside, ReadLate,
       OldestReached
  <2>3. (MailInv => MailInv') /\ (MailIdle => MailIdle')
    BY DEF MailInv, MailTypes, Delivered, Taken, MailIdle
  <2>4. (TableInv => TableInv') /\ (TableIdle => TableIdle')
    BY DEF TableInv, TableTypes, TakesGiven, OneInside, SlotStands, Ids, Counted, Active, TableIdle
  <2>5. QED BY <2>1, <2>2, <2>3, <2>4 DEF MeetingInv
<1>2. CASE part = "barrier" /\ BarrierNext /\ UNCHANGED part
  <2>1. PICK c \in Parties : BarrierStep(c) BY <1>2 DEF BarrierNext
  <2>2. BarrierInv' BY <1>2, <2>1, BarrierStepInv DEF MeetingInv
  <2>3. MailIdle' /\ TableIdle'
    BY <1>2 DEF MeetingInv, BarrierNext, mailVars, tableVars, MailIdle, TableIdle
  <2>4. QED BY <1>2, <2>2, <2>3 DEF MeetingInv, MeetingParts
<1>3. CASE part = "rendezvous" /\ RendezvousNext /\ UNCHANGED part
  <2>1. PICK c \in Parties : RendezvousStep(c) BY <1>3 DEF RendezvousNext
  <2>2. RendezvousInv' BY <1>3, <2>1, RendezvousStepInv DEF MeetingInv
  <2>3. MailIdle' /\ TableIdle' /\ UNCHANGED done
    BY <1>3 DEF MeetingInv, RendezvousNext, barrierVars, mailVars, tableVars, MailIdle, TableIdle
  <2>4. QED BY <1>3, <2>2, <2>3 DEF MeetingInv, MeetingParts
<1>4. CASE part = "mail" /\ MailNext /\ UNCHANGED part
  <2>1. PICK c \in Parties : MailStep(c) BY <1>4 DEF MailNext
  <2>2. MailInv' BY <1>4, <2>1, MailStepInv DEF MeetingInv
  <2>3. TableIdle' /\ UNCHANGED done
    BY <1>4 DEF MeetingInv, MailNext, barrierVars, tableVars, TableIdle
  <2>4. QED BY <1>4, <2>2, <2>3 DEF MeetingInv, MeetingParts
<1>5. CASE part = "tables" /\ TableNext /\ UNCHANGED part
  <2>1. PICK c \in Parties : TableStep(c) BY <1>5 DEF TableNext
  <2>2. TableInv' BY <1>5, <2>1, TableStepInv DEF MeetingInv
  <2>3. MailIdle' /\ UNCHANGED done
    BY <1>5 DEF MeetingInv, TableNext, barrierVars, mailVars, MailIdle
  <2>4. QED BY <1>5, <2>2, <2>3 DEF MeetingInv, MeetingParts
<1>6. QED BY <1>1, <1>2, <1>3, <1>4, <1>5 DEF MulticoreNext, Meeting, coreVars

\* The invariant of the meeting places holds in every reachable state.
THEOREM MeetingInvariant == MulticoreSpec => []MeetingInv
BY MeetingInitInv, MeetingStepInv, PTL DEF MulticoreSpec

\* Where a core is in its call, by part.
LEMMA Places ==
  ASSUME MeetingInv, NEW c \in Parties
  PROVE  /\ part # "barrier" => at[c] \notin Waiting
         /\ part # "rendezvous" => at[c] \notin Met
<1> USE DEF MeetingInv, MeetingParts, Waiting, Met
<1>1. CASE part = "barrier" BY <1>1 DEF BarrierInv, BarrierTypes, BarrierPlaces
<1>2. CASE part = "rendezvous" BY <1>2 DEF RendezvousInv, RendezvousTypes, RendezvousPlaces
<1>3. CASE part = "mail" BY <1>3 DEF MailInv, MailTypes, MailPlaces
<1>4. CASE part = "tables" BY <1>4 DEF TableInv, TableTypes, TablePlaces, Registering
<1>5. CASE part \notin MeetingParts BY <1>5
<1>6. QED BY <1>1, <1>2, <1>3, <1>4, <1>5

(***************************************************************************)
(* No core is let through the barrier before the other has come to its     *)
(* wait, and an arrival stays recorded unless it is clobbered.             *)
(***************************************************************************)
THEOREM NobodyPassesAlone == MulticoreSpec => []BarrierMeets
<1>1. ASSUME MeetingInv PROVE BarrierMeets
  <2> SUFFICES ASSUME NEW c \in Parties
               PROVE  /\ at[c] = "hold" \/ done[c] > 0 => turn[Other(c)] > 0
                      /\ at[c] \in {"gather", "late", "hold"} /\ ~clobbered => c \in cores_arrived
    BY DEF BarrierMeets
  <2>1. CASE part = "barrier"
    BY <1>1, <2>1, TwoCores DEF MeetingInv, BarrierInv, BarrierKnown, Waiting
  <2>2. CASE part # "barrier"
    BY <1>1, <2>2, Places DEF MeetingInv, Waiting
  <2>3. QED BY <2>1, <2>2
<1>2. QED BY <1>1, MeetingInvariant, PTL

(***************************************************************************)
(* The data read at a rendezvous are of a call that overlaps one's own.    *)
(***************************************************************************)
THEOREM DataOfThisMeeting == MulticoreSpec => []RendezvousOverlaps
<1>1. ASSUME MeetingInv PROVE RendezvousOverlaps
  <2> SUFFICES ASSUME NEW c \in Parties, at[c] \in {"clear mine", "clear other"}
               PROVE  read[c] >= oldest[c]
    BY DEF RendezvousOverlaps
  <2>1. part = "rendezvous" BY <1>1, Places DEF Met
  <2>2. QED
    BY <1>1, <2>1 DEF MeetingInv, RendezvousInv, RendezvousTypes, RendezvousKnown, ReadLate, Met
<1>2. QED BY <1>1, MeetingInvariant, PTL

(***************************************************************************)
(* Messages through the mailbox arrive once each and in order.             *)
(***************************************************************************)
THEOREM MailArrives == MulticoreSpec => []MailInOrder
<1>1. ASSUME MeetingInv PROVE MailInOrder
  <2>1. CASE part = "mail" BY <1>1, <2>1, DeliveredInOrder DEF MeetingInv
  <2>2. CASE part # "mail"
    <3>1. << >> \o << >> = [i \in 1 .. 0 |-> i] OBVIOUS
    <3>2. QED BY <1>1, <2>2, <3>1, TwoCores DEF MeetingInv, MailIdle, MailInOrder
  <2>3. QED BY <2>1, <2>2
<1>2. QED BY <1>1, MeetingInvariant, PTL

(***************************************************************************)
(* Semaphore and registry are exact while no two cores are inside them.    *)
(***************************************************************************)
THEOREM TablesStayExact == MulticoreSpec => []TablesExact
<1>1. ASSUME MeetingInv PROVE TablesExact
  <2>1. CASE part = "tables"
    BY <1>1, <2>1 DEF MeetingInv, TableInv, TakesGiven, Ids, Counted, Active, TablesExact
  <2>2. CASE part # "tables"
    <3>1. Active = {} BY <1>1, <2>2 DEF MeetingInv, TableIdle, Active
    <3>2. Cardinality({}) = 0 BY FS_EmptySet
    <3>3. QED BY <1>1, <2>2, <3>1, <3>2 DEF MeetingInv, TableIdle, Active, TablesExact
  <2>3. QED BY <2>1, <2>2
<1>2. QED BY <1>1, MeetingInvariant, PTL
=============================================================================
