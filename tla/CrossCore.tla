----------------------------- MODULE CrossCore -----------------------------
(***************************************************************************)
(* The spinlock and the mutex that the two cores of the nRF54L15 share, of *)
(* src/platform/nrf54l15/shared/shared_memory.c, with the callers of one   *)
(* mutex on each core.  Every critical section in that file masks the      *)
(* interrupts of its own core only: the accesses of the cores interleave   *)
(* one by one, and they are steps here.  The accesses that a core makes to *)
(* the mutex itself are a read of the owner and then the writes.           *)
(*                                                                         *)
(* One caller at a time on each core: the thread id that tells callers of  *)
(* one core apart comes from a weak function that answers 0.  waiting_cores*)
(* is left out: it is written in places and read in none.                  *)
(***************************************************************************)
EXTENDS Integers

CONSTANTS Cores,
          NoCore,   \* CORE_ID_COUNT, for no owner
          MaxNest   \* no recursive lock beyond this depth (a bound)

ASSUME CoresAssumption == NoCore \notin Cores
ASSUME MaxNestAssumption == MaxNest \in Nat \ {0}

VARIABLES locked,           \* the spinlock
          lock_owner,       \* its owner_core
          owner_core,       \* the mutex's owner
          recursion_count,
          pc,               \* core -> where its call is, "user" between calls
          call,             \* core -> what it does when it gets the spinlock
          holds,            \* history: locks a core was granted, less unlocks
          overlapped,       \* history: a core took a spinlock that was taken
          torn              \* history: a release wiped out the next owner

mutexVars == <<owner_core, recursion_count, holds>>
vars == <<locked, lock_owner, mutexVars, pc, call, overlapped, torn>>

Init == /\ locked = FALSE /\ lock_owner = NoCore
        /\ owner_core = NoCore /\ recursion_count = 0
        /\ pc = [c \in Cores |-> "user"]
        /\ call = [c \in Cores |-> "none"]
        /\ holds = [c \in Cores |-> 0]
        /\ overlapped = FALSE /\ torn = FALSE

Step(c, from, to) == pc[c] = from /\ pc' = [pc EXCEPT ![c] = to]
-----------------------------------------------------------------------------
(***************************************************************************)
(* mp_hal_nrf54l15_spinlock_acquire: the test, the flag and the owner.     *)
(***************************************************************************)
SpinTest(c) == /\ ~locked
               /\ Step(c, "spin", "set")
               /\ UNCHANGED <<locked, lock_owner, mutexVars, call, overlapped, torn>>

SpinSet(c) == /\ Step(c, "set", "own")
              /\ locked' = TRUE
              /\ overlapped' = (overlapped \/ locked)
              /\ UNCHANGED <<lock_owner, mutexVars, call, torn>>

SpinOwn(c) == /\ Step(c, "own", "held")
              /\ lock_owner' = c
              /\ UNCHANGED <<locked, mutexVars, call, overlapped, torn>>

\* A core that waits for the mutex goes on spinning, any other returns.
Return(c) == IF call[c] = "wait" THEN "spin" ELSE "user"

(***************************************************************************)
(* mp_hal_nrf54l15_spinlock_release, which a core that gave up waiting     *)
(* calls too ("stray"), without having the lock.                           *)
(***************************************************************************)

\* Mutant of Mine: the owner is not compared.
MineLocked(c) == locked

Mine(c) == lock_owner = c /\ locked

ReleaseTest(c) == /\ \E from \in {"release", "stray"} :
                       Step(c, from, IF Mine(c) THEN "clear" ELSE Return(c))
                  /\ UNCHANGED <<locked, lock_owner, mutexVars, call, overlapped, torn>>

ReleaseClear(c) == /\ Step(c, "clear", "disown")
                   /\ locked' = FALSE
                   /\ UNCHANGED <<lock_owner, mutexVars, call, overlapped, torn>>

\* By now the other core may have the lock, and be its recorded owner.
ReleaseOwner(c) == /\ Step(c, "disown", Return(c))
                   /\ lock_owner' = NoCore
                   /\ torn' = (torn \/ lock_owner # c)
                   /\ UNCHANGED <<locked, mutexVars, call, overlapped>>
-----------------------------------------------------------------------------
LockCall(c) == /\ holds[c] < MaxNest
               /\ Step(c, "user", "spin")
               /\ call' = [call EXCEPT ![c] = "lock"]
               /\ UNCHANGED <<locked, lock_owner, mutexVars, overlapped, torn>>

UnlockCall(c) == /\ Step(c, "user", "spin")
                 /\ call' = [call EXCEPT ![c] = "unlock"]
                 /\ UNCHANGED <<locked, lock_owner, mutexVars, overlapped, torn>>

\* A lock's first try at the spinlock times out, or its wait for the mutex does.
TimeOut(c) == /\ locked
              /\ \/ call[c] = "lock" /\ Step(c, "spin", "user")
                 \/ call[c] = "wait" /\ Step(c, "spin", "stray")
              /\ call' = [call EXCEPT ![c] = "none"]
              /\ UNCHANGED <<locked, lock_owner, mutexVars, overlapped, torn>>

(***************************************************************************)
(* With the spinlock, lock looks whether the mutex is its core's, free or  *)
(* the other's, a later try only whether it is free, and unlock whether it *)
(* is its core's.                                                          *)
(***************************************************************************)
Look(c) == /\ \/ call[c] = "lock" /\ owner_core = c /\ Step(c, "held", "nest")
              \/ call[c] \in {"lock", "wait"} /\ owner_core = NoCore /\ Step(c, "held", "take")
              \/ call[c] = "unlock" /\ owner_core = c /\ Step(c, "held", "give")
              \/ call[c] = "unlock" /\ owner_core # c /\ Step(c, "held", "release")
           /\ call' = [call EXCEPT ![c] = "none"]
           /\ UNCHANGED <<locked, lock_owner, mutexVars, overlapped, torn>>

\* Mutant of LookBusy: the spinlock is kept while the core waits.
LookBusyKeeps(c) == /\ \/ call[c] = "lock" /\ owner_core \notin {NoCore, c}
                       \/ call[c] = "wait" /\ owner_core # NoCore
                    /\ Step(c, "held", "spin")
                    /\ call' = [call EXCEPT ![c] = "wait"]
                    /\ UNCHANGED <<locked, lock_owner, mutexVars, overlapped, torn>>

LookBusy(c) == /\ \/ call[c] = "lock" /\ owner_core \notin {NoCore, c}
                  \/ call[c] = "wait" /\ owner_core # NoCore
               /\ Step(c, "held", "release")
               /\ call' = [call EXCEPT ![c] = "wait"]
               /\ UNCHANGED <<locked, lock_owner, mutexVars, overlapped, torn>>

Nest(c) == /\ Step(c, "nest", "release")
           /\ recursion_count' = recursion_count + 1
           /\ holds' = [holds EXCEPT ![c] = @ + 1]
           /\ UNCHANGED <<locked, lock_owner, owner_core, call, overlapped, torn>>

Take(c) == /\ Step(c, "take", "release")
           /\ owner_core' = c
           /\ recursion_count' = 1
           /\ holds' = [holds EXCEPT ![c] = 1]
           /\ UNCHANGED <<locked, lock_owner, call, overlapped, torn>>

\* Mutants of Give: the owner is not reset; the last unlock but one frees the mutex.
GiveKeepsOwner(c) == /\ Step(c, "give", "release")
                     /\ recursion_count' = recursion_count - 1
                     /\ holds' = [holds EXCEPT ![c] = IF @ > 0 THEN @ - 1 ELSE 0]
                     /\ UNCHANGED <<locked, lock_owner, owner_core, call, overlapped, torn>>

GiveEarly(c) == /\ Step(c, "give", "release")
                /\ recursion_count' = IF recursion_count > 2 THEN recursion_count - 1 ELSE 0
                /\ owner_core' = IF recursion_count > 2 THEN c ELSE NoCore
                /\ holds' = [holds EXCEPT ![c] = IF @ > 0 THEN @ - 1 ELSE 0]
                /\ UNCHANGED <<locked, lock_owner, call, overlapped, torn>>

Give(c) == /\ Step(c, "give", "release")
           /\ recursion_count' = IF recursion_count > 1 THEN recursion_count - 1 ELSE 0
           /\ owner_core' = IF recursion_count > 1 THEN owner_core ELSE NoCore
           /\ holds' = [holds EXCEPT ![c] = IF @ > 0 THEN @ - 1 ELSE 0]
           /\ UNCHANGED <<locked, lock_owner, call, overlapped, torn>>

CoreStep(c) == \/ SpinTest(c)
               \/ SpinSet(c)
               \/ SpinOwn(c)
               \/ ReleaseTest(c)
               \/ ReleaseClear(c)
               \/ ReleaseOwner(c)
               \/ Look(c)
               \/ LookBusy(c)
               \/ Nest(c)
               \/ Take(c)
               \/ Give(c)

Next == \E c \in Cores : CoreStep(c) \/ LockCall(c) \/ UnlockCall(c) \/ TimeOut(c)

\* A core executes the calls it has entered.
Spec == Init /\ [][Next]_vars /\ \A c \in Cores : WF_vars(CoreStep(c))
-----------------------------------------------------------------------------
Holding == {"own", "held", "nest", "take", "give", "release", "clear"}

\* The variables keep their types: neither core counts the mutex below 0.
TypeOK == /\ {locked, overlapped, torn} \subseteq BOOLEAN
          /\ {lock_owner, owner_core} \subseteq Cores \cup {NoCore}
          /\ recursion_count \in Nat
          /\ pc \in [Cores -> Holding \cup {"user", "spin", "set", "stray", "disown"}]
          /\ call \in [Cores -> {"none", "lock", "wait", "unlock"}]
          /\ holds \in [Cores -> 0 .. MaxNest]

(***************************************************************************)
(* The spinlock has one holder as long as the cores' tests of it have not  *)
(* overlapped: in particular the release that a core makes when it gives   *)
(* up waiting, without the lock, never lets go of the other core's.        *)
(***************************************************************************)
SpinExact == ~overlapped => \A c, d \in Cores : {pc[c], pc[d]} \subseteq Holding => c = d

(***************************************************************************)
(* With the same proviso a core that was granted the mutex and has not     *)
(* unlocked it owns it, to the depth of its locks.                         *)
(***************************************************************************)
MutexExact == ~overlapped => \A c \in Cores : holds[c] > 0 => /\ owner_core = c
                                                              /\ recursion_count = holds[c]

(***************************************************************************)
(* The spinlock is let go of again, provided that no tests overlapped and  *)
(* that no release wiped out the owner that came after it.                 *)
(***************************************************************************)
LetGo == [](~overlapped /\ ~torn) => (locked ~> ~locked)

(***************************************************************************)
(* "Spinlock for atomic operations" (shared_memory.h:114): the two cores   *)
(* do not hold it at once.                                                 *)
(***************************************************************************)
SpinExclusive == \A c, d \in Cores : {pc[c], pc[d]} \subseteq Holding => c = d
=============================================================================
