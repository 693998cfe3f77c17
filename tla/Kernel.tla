------------------------------- MODULE Kernel -------------------------------
(***************************************************************************)
(* The kernel calls that block: the recursive mutex and the semaphore of   *)
(* src/src/kernel/ipc.c, on top of the scheduler.  One mutex and one       *)
(* semaphore.  As in Scheduler a call runs with interrupts enabled: every  *)
(* access to a field that other threads write is a step of its own, so     *)
(* ++ and -- are a load and a store.  A value tested is kept in a register *)
(* and not loaded again, as the optimised builds compile it.               *)
(***************************************************************************)
EXTENDS Scheduler

CONSTANTS SemInit,   \* the value given to sem_init
          MaxSem,    \* no post beyond this count (a bound)
          MaxNest    \* no recursive lock beyond this depth (a bound)

ASSUME SemAssumption == SemInit \in Nat /\ MaxSem \in Nat /\ SemInit <= MaxSem
\* The mutex counts its owner's locks in 8 bits.
ASSUME NestAssumption == MaxNest \in 1 .. 255

VARIABLES owner,      \* the thread the mutex records as its owner, or NULL
          count,      \* how many times the owner has locked it
          sem_count,  \* the semaphore's count
          loaded,     \* TCB -> the count it has in a register
          holds,      \* history: the locks a thread took, less its unlocks
          inside,     \* history: the threads told that they hold the mutex
          overwritten \* history: a lock has stored over another's ownership

mutexVars == <<owner, count, holds, inside, overwritten>>
syncVars == <<mutexVars, sem_count, loaded>>
vars == <<schedVars, syncVars>>

Init == /\ SchedInit
        /\ owner = NULL
        /\ count = 0
        /\ sem_count = SemInit
        /\ loaded = [t \in TCBs |-> 0]
        /\ holds = [t \in TCBs |-> 0]
        /\ inside = {}
        /\ overwritten = FALSE

\* A step of a call of t that leaves the scheduler alone.
CallStep(t, from, to) == /\ Step(t, from, to)
                         /\ UNCHANGED <<ready_list, state, priority, sleep_ticks,
                                        current_thread, next_thread, ticks, best_thread>>

\* The first step of a call of t, which a thread makes only while it lives.
Call(t, to) == Alive(t) /\ CallStep(t, "user", to)
-----------------------------------------------------------------------------
\* pthread_mutex_lock found the mutex free; the two assignments come next.
LockFree(t) == /\ Call(t, "take")
               /\ owner = NULL
               /\ UNCHANGED syncVars

LockTake(t) == /\ CallStep(t, "take", "take_count")
               /\ owner' = t
               /\ overwritten' = (overwritten \/ owner # NULL)
               /\ UNCHANGED <<count, holds, inside, sem_count, loaded>>

LockTakeCount(t) == /\ CallStep(t, "take_count", "user")
                    /\ count' = 1
                    /\ holds' = [holds EXCEPT ![t] = 1]
                    /\ inside' = inside \cup {t}
                    /\ UNCHANGED <<owner, overwritten, sem_count, loaded>>

LockAgain(t) == /\ Call(t, "again")
                /\ owner = t
                /\ holds[t] < MaxNest
                /\ UNCHANGED syncVars

\* Both calls of the owner load the count once they have seen the owner.
LoadCount(t) == /\ \/ CallStep(t, "again", "again_add")
                   \/ CallStep(t, "unlock", "unlock_sub")
                /\ loaded' = [loaded EXCEPT ![t] = count]
                /\ UNCHANGED <<mutexVars, sem_count>>

LockAgainCount(t) == /\ CallStep(t, "again_add", "user")
                     /\ count' = (loaded[t] + 1) % 256
                     /\ holds' = [holds EXCEPT ![t] = @ + 1]
                     /\ inside' = inside \cup {t}
                     /\ loaded' = [loaded EXCEPT ![t] = 0]
                     /\ UNCHANGED <<owner, overwritten, sem_count>>

\* A lock held by another thread: the caller is marked and told 0 all the same.
LockHeld(t) == /\ Call(t, "block")
               /\ owner \notin {NULL, t}
               /\ inside' = inside \cup {t}
               /\ UNCHANGED <<owner, count, holds, overwritten, sem_count, loaded>>

\* Where lock and sem_wait mark their caller, before they reschedule.
Block(t) == /\ Step(t, "block", "scan")
            /\ state' = [state EXCEPT ![t] = "BLOCKED"]
            /\ UNCHANGED <<ready_list, priority, sleep_ticks, current_thread,
                           next_thread, ticks, best_thread>>
            /\ UNCHANGED syncVars

\* Mutant of Unlock: the caller is not compared with the owner.
UnlockAnyone(t) == /\ Call(t, "unlock")
                   /\ owner # NULL
                   /\ UNCHANGED syncVars

Unlock(t) == /\ Call(t, "unlock")
             /\ owner = t
             /\ UNCHANGED syncVars

\* pthread_mutex_unlock answers -1 to a thread that is not the owner.
UnlockRefused(t) == /\ Call(t, "user")
                    /\ owner # t
                    /\ t \in inside
                    /\ inside' = inside \ {t}
                    /\ holds' = [holds EXCEPT ![t] = 0]
                    /\ UNCHANGED <<owner, count, overwritten, sem_count, loaded>>

UnlockCount(t) == /\ count' = (loaded[t] - 1) % 256
                  /\ CallStep(t, "unlock_sub", IF count' = 0 THEN "release" ELSE "user")
                  /\ holds' = [holds EXCEPT ![t] = IF @ > 0 THEN @ - 1 ELSE 0]
                  /\ inside' = IF count' = 0 THEN inside \ {t} ELSE inside
                  /\ loaded' = [loaded EXCEPT ![t] = 0]
                  /\ UNCHANGED <<owner, overwritten, sem_count>>

\* Mutant of Release: the last unlock leaves the owner recorded.
ReleaseKeepsOwner(t) == CallStep(t, "release", "scan") /\ UNCHANGED syncVars

\* No waiter is made ready: waiting_list is never filled.
Release(t) == /\ CallStep(t, "release", "scan")
              /\ owner' = NULL
              /\ UNCHANGED <<count, holds, inside, overwritten, sem_count, loaded>>
-----------------------------------------------------------------------------
\* sem_wait with a count to take: the load that tests it.
WaitLoad(t) == /\ Call(t, "sem_dec")
               /\ sem_count > 0
               /\ loaded' = [loaded EXCEPT ![t] = sem_count]
               /\ UNCHANGED <<mutexVars, sem_count>>

\* Mutant of WaitStore: the count is loaded again after the test.
WaitStoreReload(t) == /\ CallStep(t, "sem_dec", "user")
                      /\ sem_count' = sem_count - 1
                      /\ loaded' = [loaded EXCEPT ![t] = 0]
                      /\ UNCHANGED mutexVars

WaitStore(t) == /\ CallStep(t, "sem_dec", "user")
                /\ sem_count' = loaded[t] - 1
                /\ loaded' = [loaded EXCEPT ![t] = 0]
                /\ UNCHANGED mutexVars

\* sem_wait at zero: the caller is marked and told 0; it takes no count, ever.
WaitBlock(t) == /\ Call(t, "block")
                /\ sem_count = 0
                /\ UNCHANGED syncVars

PostLoad(t) == /\ Call(t, "sem_inc")
               /\ sem_count < MaxSem
               /\ loaded' = [loaded EXCEPT ![t] = sem_count]
               /\ UNCHANGED <<mutexVars, sem_count>>

\* No waiter is made ready: waiting_list is never filled.
PostStore(t) == /\ CallStep(t, "sem_inc", "scan")
                /\ sem_count' = loaded[t] + 1
                /\ loaded' = [loaded EXCEPT ![t] = 0]
                /\ UNCHANGED mutexVars

\* sem_post from an interrupt handler, whole: threads do not interrupt it.
IsrPost == /\ sem_count < MaxSem
           /\ sem_count' = sem_count + 1
           /\ \E b \in TCBs \cup {NULL} : /\ IsBest(b, state)
                                          /\ next_thread' = NextAfter(b)
           /\ UNCHANGED <<ready_list, state, priority, sleep_ticks, current_thread, pc,
                          ticks, best_thread>>
           /\ UNCHANGED <<mutexVars, loaded>>
-----------------------------------------------------------------------------
MutexStep(t) == \/ LockFree(t)
                \/ LockTake(t)
                \/ LockTakeCount(t)
                \/ LockAgain(t)
                \/ LockAgainCount(t)
                \/ LockHeld(t)
                \/ Unlock(t)
                \/ UnlockRefused(t)
                \/ UnlockCount(t)
                \/ Release(t)
                \/ LoadCount(t)
                \/ Block(t)

SemStep(t) == \/ WaitLoad(t)
              \/ WaitStore(t)
              \/ WaitBlock(t)
              \/ PostLoad(t)
              \/ PostStore(t)

Next == \/ \E t \in TCBs : SchedStep(t) /\ UNCHANGED syncVars
        \/ \E t \in Threads : MutexStep(t) \/ SemStep(t)
        \/ Tick /\ UNCHANGED syncVars
        \/ IsrPost

\* SysTick is a free-running hardware timer: ticks keep coming.
Spec == Init /\ [][Next]_vars /\ WF_vars(Tick /\ UNCHANGED syncVars)
-----------------------------------------------------------------------------
MutexSteps == {"take", "take_count", "again", "again_add", "unlock", "unlock_sub", "release"}

Steps == SchedSteps \cup MutexSteps \cup {"block", "sem_dec", "sem_inc"}

(***************************************************************************)
(* The kernel's variables keep their types: the semaphore's count does not *)
(* run below 0, even when the calls that load and store it are interrupted *)
(* between the two, by one another and by posts from interrupt handlers.   *)
(***************************************************************************)
TypeOK == /\ Typed
          /\ pc \in [TCBs -> Steps]
          /\ owner \in Threads \cup {NULL}
          /\ count \in 0 .. 255
          /\ sem_count \in 0 .. MaxSem
          /\ loaded \in [TCBs -> Nat]
          /\ holds \in [TCBs -> 0 .. MaxNest]
          /\ inside \in SUBSET Threads
          /\ overwritten \in BOOLEAN

(***************************************************************************)
(* The one way to lose the mutex is the window between lock's test of the  *)
(* owner and its assignment: as long as no lock has stored its owner over  *)
(* another thread's, whoever took the mutex and has not unlocked it is its *)
(* owner, so no two threads took it at once.  (A thread that found it held *)
(* is told 0 too, but has not taken it: MutualExclusion.)                  *)
(***************************************************************************)
TakersOwn == ~overwritten => \A t \in Threads : holds[t] > 0 => owner = t

(***************************************************************************)
(* With the same proviso, whenever no call on the mutex is under way the   *)
(* count is exactly the locks its owner took and did not undo, and 0 only  *)
(* if the mutex is free: no interrupted call leaves it owned for ever, or  *)
(* free with a lock counted.                                               *)
(***************************************************************************)
CountIsTheOwners ==
  ~overwritten /\ (\A t \in Threads : pc[t] \notin MutexSteps)
    => IF owner = NULL THEN count = 0 ELSE count > 0 /\ count = holds[owner]

(***************************************************************************)
(* A mutex keeps two threads from holding it at once: two threads told     *)
(* that they have it are not both out of the kernel.                       *)
(***************************************************************************)
MutualExclusion == \A t, u \in inside : pc[t] = "user" /\ pc[u] = "user" => t = u
=============================================================================
