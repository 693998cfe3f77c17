----------------------------- MODULE KernelProofs -----------------------------
(***************************************************************************)
(* What the kernel proves for any threads, priorities and bounds: the      *)
(* scheduler first, then the mutex and the semaphore on top of it.         *)
(***************************************************************************)
EXTENDS Kernel, TLAPS

-----------------------------------------------------------------------------
(***************************************************************************)
(* Type correctness of Scheduler and the soundness of its pending switch,  *)
(* for any set of threads, any priorities and any bound on sleeps.  The    *)
(* two are proved together: that next_thread is another thread rests on    *)
(* current_thread being a TCB and NULL being none.                         *)
(***************************************************************************)

\* The invariant, without pc: calls of other modules take pc to more steps.
SchedInv == Typed /\ NextIsAnother

\* With pc, for the scheduler on its own.
SchedIInv == SchedTypeOK /\ NextIsAnother

LEMMA InitSchedInv == SchedInit => SchedIInv
  BY ThreadsAssumption, MaxSleepAssumption
     DEF SchedInit, SchedIInv, SchedTypeOK, Typed, SchedSteps, NextIsAnother, TCBs, States

\* What the assignments at the end of a reschedule can leave in next_thread.
LEMMA NextAfterSound ==
  ASSUME SchedInv, NEW b \in TCBs \cup {NULL}
  PROVE  NextAfter(b) \in TCBs \cup {NULL} /\ NextAfter(b) # current_thread
  BY DEF SchedInv, Typed, NextIsAnother, NextAfter

\* The walk of the tick handler keeps the sleeps and the states typed.
LEMMA TickedTyped ==
  ASSUME Typed
  PROVE  /\ TickedSleep \in [TCBs -> 0 .. MaxSleep]
         /\ TickedState \in [TCBs -> States]
<1>1. ASSUME NEW t \in TCBs
      PROVE  /\ (IF state[t] = "SLEEPING" /\ sleep_ticks[t] > 0
                 THEN sleep_ticks[t] - 1 ELSE sleep_ticks[t]) \in 0 .. MaxSleep
             /\ state[t] \in States /\ "READY" \in States
  BY MaxSleepAssumption DEF Typed, States
<1>2. QED BY <1>1 DEF TickedSleep, TickedState

LEMMA StepSchedInv ==
  ASSUME SchedInv, NEW t \in TCBs, SchedStep(t)
  PROVE  SchedInv'
<1> USE ThreadsAssumption DEF SchedInv, Typed, NextIsAnother, Step
<1>1. ASSUME NEW n \in Threads, NEW p \in Priorities, Create(t, n, p) PROVE SchedInv'
  <2>1. p \in Nat /\ n \in TCBs BY PrioritiesAssumption DEF TCBs
  <2>2. ready_list' \in Seq(TCBs) BY <1>1, <2>1 DEF Create
  <2>3. QED BY <1>1, <2>1, <2>2 DEF Create, States
<1>2. ASSUME Scan(t) PROVE SchedInv'
  BY <1>2 DEF Scan
<1>3. ASSUME Store(t) PROVE SchedInv'
  <2>1. best_thread[t] \in TCBs \cup {NULL} BY DEF Typed
  <2>2. /\ NextAfter(best_thread[t]) \in TCBs \cup {NULL}
        /\ NextAfter(best_thread[t]) # current_thread
    BY <2>1, NextAfterSound
  <2>3. QED BY <1>3, <2>2 DEF Store
<1>4. ASSUME Yield(t) PROVE SchedInv'
  BY <1>4 DEF Yield
<1>5. ASSUME NEW n \in 0 .. MaxSleep, Sleep(t, n) PROVE SchedInv'
  BY <1>5 DEF Sleep, States
<1>6. ASSUME SleepTicks(t) PROVE SchedInv'
  BY <1>6, MaxSleepAssumption DEF SleepTicks
<1>7. ASSUME Exit(t) PROVE SchedInv'
  BY <1>7 DEF Exit, States
<1>8. QED BY <1>1, <1>2, <1>3, <1>4, <1>5, <1>6, <1>7 DEF SchedStep

LEMMA TickSchedInv ==
  ASSUME SchedInv, Tick
  PROVE  SchedInv'
<1>1. PICK b \in TCBs \cup {NULL} : PendSV(NextAfter(b)) BY DEF Tick
<1>2. NextAfter(b) \in TCBs \cup {NULL} BY NextAfterSound
<1>3. current_thread' \in TCBs /\ next_thread' = NULL
  BY <1>1, <1>2 DEF PendSV, SchedInv, Typed
<1>4. sleep_ticks' \in [TCBs -> 0 .. MaxSleep] /\ state' \in [TCBs -> States]
  BY TickedTyped DEF Tick, SchedInv
<1>5. QED BY <1>3, <1>4, ThreadsAssumption
          DEF Tick, SchedInv, Typed, NextIsAnother, TCBs

\* The scheduler's calls take pc to their own steps and to no others.
LEMMA StepsTyped ==
  ASSUME NEW S, SchedSteps \subseteq S, pc \in [TCBs -> S],
         Tick \/ \E t \in TCBs : SchedStep(t)
  PROVE  pc' \in [TCBs -> S]
<1>1. CASE Tick BY <1>1 DEF Tick
<1>2. ASSUME NEW t \in TCBs, SchedStep(t) PROVE pc' \in [TCBs -> S]
  <2>1. \E from \in {"user", "scan", "store", "set_ticks"}, to \in SchedSteps : Step(t, from, to)
    BY <1>2 DEF SchedStep, Create, Scan, Store, Yield, Sleep, SleepTicks, Exit, SchedSteps
  <2>2. PICK to \in SchedSteps : pc' = [pc EXCEPT ![t] = to] BY <2>1 DEF Step
  <2>3. to \in S BY <2>2
  <2>4. QED BY <2>2, <2>3
<1>3. QED BY <1>1, <1>2

LEMMA NextSchedInv == SchedIInv /\ [SchedNext]_schedVars => SchedIInv'
<1> SUFFICES ASSUME SchedIInv, [SchedNext]_schedVars PROVE SchedIInv' OBVIOUS
<1>1. SchedInv /\ pc \in [TCBs -> SchedSteps] BY DEF SchedIInv, SchedTypeOK, SchedInv
<1>2. SchedInv' /\ pc' \in [TCBs -> SchedSteps]
  <2>1. CASE Tick BY <1>1, <2>1, TickSchedInv, StepsTyped
  <2>2. ASSUME NEW t \in TCBs, SchedStep(t) PROVE SchedInv' /\ pc' \in [TCBs -> SchedSteps]
    BY <1>1, <2>2, StepSchedInv, StepsTyped
  <2>3. CASE UNCHANGED schedVars
    BY <1>1, <2>3 DEF schedVars, SchedInv, Typed, NextIsAnother
  <2>4. QED BY <2>1, <2>2, <2>3 DEF SchedNext
<1>3. QED BY <1>2 DEF SchedIInv, SchedTypeOK, SchedInv
-----------------------------------------------------------------------------
\* The scheduler's variables keep their types: the walk of the ready list and
\* the interrupted calls never leave a TCB pointer or a tick count astray.
THEOREM SchedulerTyped == SchedSpec => []SchedTypeOK
<1>1. SchedIInv => SchedTypeOK BY DEF SchedIInv
<1>2. QED BY InitSchedInv, NextSchedInv, <1>1, PTL DEF SchedSpec

\* A pending switch is a switch: whatever reschedules were interrupted, PendSV
\* never saves and restores one and the same thread.
THEOREM SwitchIsASwitch == SchedSpec => []NextIsAnother
<1>1. SchedIInv => NextIsAnother BY DEF SchedIInv
<1>2. QED BY InitSchedInv, NextSchedInv, <1>1, PTL DEF SchedSpec

-----------------------------------------------------------------------------
(***************************************************************************)
(* What holds of the kernel calls for any threads, priorities and bounds,  *)
(* with ticks between any two accesses.  The semaphore's types are not     *)
(* inductive alone: a thread between the load and the store of sem_count   *)
(* must hold a value its store can use (CarriesUsable).  The mutex's       *)
(* properties rest on MutexInv, which says for each step of lock and       *)
(* unlock what its thread knows there of owner and count, and which holds  *)
(* as long as no lock overwrote an owner.                                  *)
(***************************************************************************)

\* What a thread has loaded can be stored back, less one or plus one, and a
\* thread that locks again still has a level to nest.
CarriesUsable ==
  \A t \in TCBs : /\ pc[t] = "sem_dec" => loaded[t] \in 1 .. MaxSem
                  /\ pc[t] = "sem_inc" => loaded[t] \in 0 .. MaxSem - 1
                  /\ pc[t] \in {"again", "again_add"} => holds[t] < MaxNest

SemInv == TypeOK /\ NextIsAnother /\ CarriesUsable

LEMMA InitSemInv == Init => SemInv
<1> SUFFICES ASSUME Init PROVE SemInv OBVIOUS
<1>1. Typed /\ NextIsAnother /\ pc \in [TCBs -> SchedSteps]
  BY InitSchedInv DEF Init, SchedIInv, SchedTypeOK
<1>2. pc = [t \in TCBs |-> "user"] BY DEF Init, SchedInit
<1>3. TypeOK
  <2>1. SchedSteps \subseteq Steps BY DEF Steps
  <2>2. 0 \in 0 .. MaxNest /\ 0 \in 0 .. 255 /\ SemInit \in 0 .. MaxSem
    BY SemAssumption, NestAssumption
  <2>3. QED BY <1>1, <2>1, <2>2 DEF Init, TypeOK
<1>4. CarriesUsable BY <1>2 DEF CarriesUsable
<1>5. QED BY <1>1, <1>3, <1>4 DEF SemInv

\* The scheduler's calls and the tick move pc among the scheduler's steps.
LEMMA SchedulerMovesPc ==
  ASSUME pc \in [TCBs -> Steps], Tick \/ \E t \in TCBs : SchedStep(t)
  PROVE  /\ pc' \in [TCBs -> Steps]
         /\ \A u \in TCBs : pc'[u] = pc[u] \/ {pc[u], pc'[u]} \subseteq SchedSteps
<1>1. SchedSteps \subseteq Steps BY DEF Steps
<1>2. pc' \in [TCBs -> Steps] BY <1>1, StepsTyped
<1>3. ASSUME Tick PROVE pc' = pc BY <1>3 DEF Tick
<1>4. ASSUME NEW t \in TCBs, SchedStep(t)
      PROVE  \A u \in TCBs : pc'[u] = pc[u] \/ {pc[u], pc'[u]} \subseteq SchedSteps
  <2>1. \E from \in SchedSteps, to \in SchedSteps : Step(t, from, to)
    BY <1>4 DEF SchedStep, Create, Scan, Store, Yield, Sleep, SleepTicks, Exit, SchedSteps
  <2>2. PICK from \in SchedSteps, to \in SchedSteps :
               pc[t] = from /\ pc' = [pc EXCEPT ![t] = to] BY <2>1 DEF Step
  <2>3. QED BY <2>2
<1>5. QED BY <1>2, <1>3, <1>4

LEMMA SchedulerKeepsSemInv ==
  ASSUME SemInv, UNCHANGED syncVars, Tick \/ \E t \in TCBs : SchedStep(t)
  PROVE  SemInv'
<1>1. SchedInv BY DEF SemInv, TypeOK, SchedInv
<1>2. SchedInv' BY <1>1, TickSchedInv, StepSchedInv
<1>3. pc \in [TCBs -> Steps] BY DEF SemInv, TypeOK
<1>4. CarriesUsable'
  <2>1. loaded' = loaded /\ holds' = holds BY DEF syncVars, mutexVars
  <2>2. \A t \in TCBs : pc'[t] \in {"sem_dec", "sem_inc", "again", "again_add"} => pc'[t] = pc[t]
    BY <1>3, SchedulerMovesPc DEF SchedSteps
  <2>3. QED BY <2>1, <2>2 DEF CarriesUsable, SemInv
<1>5. QED BY <1>2, <1>3, <1>4, SchedulerMovesPc
          DEF SemInv, TypeOK, SchedInv, syncVars, mutexVars

\* What every call on the mutex or the semaphore leaves alone of the scheduler.
SchedKept == UNCHANGED <<ready_list, priority, sleep_ticks, current_thread, next_thread,
                         ticks, best_thread>>

LEMMA CallsKeepScheduler ==
  ASSUME SemInv, NEW t \in Threads, MutexStep(t) \/ SemStep(t)
  PROVE  /\ Typed' /\ NextIsAnother'
         /\ \E from \in Steps, to \in Steps : Step(t, from, to)
         /\ pc' \in [TCBs -> Steps]
<1> USE DEF MutexStep, SemStep, LockFree, LockTake, LockTakeCount, LockAgain, LoadCount,
            LockAgainCount, LockHeld, Block, Unlock, UnlockRefused, UnlockCount, Release,
            WaitLoad, WaitStore, WaitBlock, PostLoad, PostStore, Call, CallStep
<1>1. SchedKept BY DEF SchedKept
<1>2. state' = state \/ state' = [state EXCEPT ![t] = "BLOCKED"] OBVIOUS
<1>3. state' \in [TCBs -> States] BY <1>2 DEF SemInv, TypeOK, Typed, States
<1>4. \E from \in Steps, to \in Steps : Step(t, from, to)
  BY DEF Steps, SchedSteps, MutexSteps
<1>5. pc' \in [TCBs -> Steps] BY <1>4 DEF SemInv, TypeOK, Step
<1>6. QED BY <1>1, <1>3, <1>4, <1>5 DEF SchedKept, SemInv, TypeOK, Typed, NextIsAnother

\* The counts of both, and what their callers carry, over one call's step.
LEMMA CallsKeepCounts ==
  ASSUME SemInv, NEW t \in Threads, MutexStep(t) \/ SemStep(t)
  PROVE  /\ owner' \in Threads \cup {NULL}
         /\ count' \in 0 .. 255
         /\ sem_count' \in 0 .. MaxSem
         /\ loaded' \in [TCBs -> Nat]
         /\ holds' \in [TCBs -> 0 .. MaxNest]
         /\ inside' \in SUBSET Threads
         /\ overwritten' \in BOOLEAN
         /\ CarriesUsable'
<1> DEFINE Rest == /\ owner' \in Threads \cup {NULL}
                   /\ count' \in 0 .. 255
                   /\ sem_count' \in 0 .. MaxSem
                   /\ loaded' \in [TCBs -> Nat]
                   /\ holds' \in [TCBs -> 0 .. MaxNest]
                   /\ inside' \in SUBSET Threads
                   /\ overwritten' \in BOOLEAN
                   /\ CarriesUsable'
<1>0. t \in TCBs BY DEF TCBs
<1> USE <1>0, SemAssumption, NestAssumption
    DEF SemInv, TypeOK, CarriesUsable, Call, CallStep, Step, syncVars, mutexVars
<1>1. ASSUME LockFree(t) \/ LockHeld(t) \/ LockAgain(t) \/ Unlock(t) \/ Block(t)
      PROVE  Rest
  BY <1>1 DEF LockFree, LockHeld, LockAgain, Unlock, Block
<1>2. ASSUME LockTake(t) PROVE Rest BY <1>2 DEF LockTake
<1>3. ASSUME LockTakeCount(t) PROVE Rest BY <1>3 DEF LockTakeCount
<1>4. ASSUME LoadCount(t) PROVE Rest BY <1>4 DEF LoadCount
<1>5. ASSUME LockAgainCount(t) PROVE Rest
  <2>1. count' \in 0 .. 255 BY <1>5 DEF LockAgainCount
  <2>2. QED BY <1>5, <2>1 DEF LockAgainCount
<1>6. ASSUME UnlockRefused(t) PROVE Rest BY <1>6 DEF UnlockRefused
<1>7. ASSUME UnlockCount(t) PROVE Rest BY <1>7 DEF UnlockCount
<1>8. ASSUME Release(t) PROVE Rest BY <1>8 DEF Release
<1>9. ASSUME WaitLoad(t) \/ WaitBlock(t) \/ PostLoad(t) PROVE Rest
  BY <1>9 DEF WaitLoad, WaitBlock, PostLoad
<1>10. ASSUME WaitStore(t) \/ PostStore(t) PROVE Rest BY <1>10 DEF WaitStore, PostStore
<1>11. QED BY <1>1, <1>2, <1>3, <1>4, <1>5, <1>6, <1>7, <1>8, <1>9, <1>10
           DEF MutexStep, SemStep

LEMMA NextSemInv == SemInv /\ [Next]_vars => SemInv'
<1> SUFFICES ASSUME SemInv, [Next]_vars PROVE SemInv' OBVIOUS
<1>1. ASSUME NEW t \in TCBs, SchedStep(t), UNCHANGED syncVars PROVE SemInv'
  BY <1>1, SchedulerKeepsSemInv
<1>2. ASSUME NEW t \in Threads, MutexStep(t) \/ SemStep(t) PROVE SemInv'
  BY <1>2, CallsKeepScheduler, CallsKeepCounts DEF SemInv, TypeOK
<1>3. ASSUME Tick, UNCHANGED syncVars PROVE SemInv'
  BY <1>3, SchedulerKeepsSemInv
<1>4. ASSUME IsrPost PROVE SemInv'
  <2>1. PICK b \in TCBs \cup {NULL} : next_thread' = NextAfter(b) BY <1>4 DEF IsrPost
  <2>2. next_thread' \in TCBs \cup {NULL} /\ next_thread' # current_thread
    BY <2>1, NextAfterSound DEF SemInv, TypeOK, SchedInv
  <2>3. Typed' /\ NextIsAnother' BY <1>4, <2>2 DEF IsrPost, SemInv, TypeOK, Typed, NextIsAnother
  <2>4. sem_count' \in 0 .. MaxSem BY <1>4, SemAssumption DEF IsrPost, SemInv, TypeOK
  <2>5. QED BY <1>4, <2>3, <2>4 DEF IsrPost, SemInv, TypeOK, CarriesUsable, mutexVars
<1>5. CASE UNCHANGED vars
  BY <1>5 DEF vars, schedVars, syncVars, mutexVars, SemInv, TypeOK, Typed, NextIsAnother,
              CarriesUsable
<1>6. QED BY <1>1, <1>2, <1>3, <1>4, <1>5 DEF Next
-----------------------------------------------------------------------------
\* What t knows of the mutex at each step of its calls, and out of them.
Knows(t) ==
  /\ pc[t] = "take_count" => owner = t /\ holds[t] = 0
  /\ pc[t] \in {"again", "again_add", "unlock", "unlock_sub"} => holds[t] > 0
  /\ pc[t] \in {"again_add", "unlock_sub"} => loaded[t] = count
  /\ pc[t] = "release" => owner = t /\ holds[t] = 0 /\ count = 0
  /\ holds[t] > 0 => owner = t /\ count = holds[t]
  /\ owner = t /\ holds[t] = 0 => pc[t] \in {"take_count", "release"}

MutexInv == ~overwritten => /\ \A t \in Threads : Knows(t)
                            /\ owner = NULL => count = 0

LEMMA InitMutexInv == Init => MutexInv
  BY ThreadsAssumption DEF Init, SchedInit, MutexInv, Knows, TCBs

\* A step that leaves the mutex alone and moves no thread in or out of its calls.
LEMMA AloneKeepsMutexInv ==
  ASSUME SemInv, MutexInv, UNCHANGED mutexVars,
         \A t \in Threads : \/ pc'[t] = pc[t] /\ loaded'[t] = loaded[t]
                           \/ {pc[t], pc'[t]} \cap MutexSteps = {}
  PROVE  MutexInv'
<1> SUFFICES ASSUME ~overwritten, NEW t \in Threads PROVE Knows(t)' /\ (owner = NULL => count = 0)'
  BY DEF MutexInv, mutexVars
<1>1. Knows(t) /\ (owner = NULL => count = 0) BY DEF MutexInv
<1>2. CASE pc'[t] = pc[t] /\ loaded'[t] = loaded[t] BY <1>1, <1>2 DEF Knows, mutexVars
<1>3. CASE {pc[t], pc'[t]} \cap MutexSteps = {} BY <1>1, <1>3 DEF Knows, mutexVars, MutexSteps
<1>4. QED BY <1>2, <1>3

LEMMA MutexStepKeepsInv ==
  ASSUME SemInv, MutexInv, NEW t \in Threads, MutexStep(t)
  PROVE  MutexInv'
<1>0. SUFFICES ASSUME ~overwritten', NEW u \in Threads
               PROVE  Knows(u)' /\ (owner = NULL => count = 0)'
  BY DEF MutexInv
<1>1. ~overwritten
  BY <1>0 DEF MutexStep, LockFree, LockTake, LockTakeCount, LockAgain, LoadCount,
              LockAgainCount, LockHeld, Block, Unlock, UnlockRefused, UnlockCount, Release,
              syncVars, mutexVars
<1>2. Knows(t) /\ Knows(u) /\ (owner = NULL => count = 0) BY <1>1 DEF MutexInv
<1>3. /\ t \in TCBs /\ u \in TCBs /\ t # NULL /\ u # NULL
      /\ holds \in [TCBs -> Nat] /\ loaded \in [TCBs -> Nat] /\ count \in 0 .. 255
      /\ pc \in [TCBs -> Steps] /\ holds[t] \in 0 .. 255
  BY ThreadsAssumption, NestAssumption DEF SemInv, TypeOK, TCBs
<1> USE <1>1, <1>2, <1>3 DEF Knows, Call, CallStep, Step, syncVars, mutexVars
<1>4. CASE LockFree(t) BY <1>4 DEF LockFree
<1>5. CASE LockTake(t)
  <2>1. owner = NULL /\ owner' = t /\ holds' = holds /\ count' = count /\ loaded' = loaded
    BY <1>0, <1>5 DEF LockTake
  <2>2. holds[t] = 0 /\ holds[u] = 0 BY <2>1
  <2>3. pc[u] \notin MutexSteps \ {"take"} BY <2>1, <2>2 DEF MutexSteps
  <2>4. pc' = [pc EXCEPT ![t] = "take_count"] BY <1>5 DEF LockTake
  <2>5. CASE u = t BY <2>1, <2>2, <2>4, <2>5
  <2>6. CASE u # t BY <2>1, <2>2, <2>3, <2>4, <2>6 DEF MutexSteps
  <2>7. QED BY <2>5, <2>6
<1>6. CASE LockTakeCount(t) BY <1>6 DEF LockTakeCount
<1>7. CASE LockAgain(t) BY <1>7 DEF LockAgain
<1>8. CASE LoadCount(t) BY <1>8 DEF LoadCount
<1>9. CASE LockAgainCount(t)
  <2>1. holds[t] < MaxNest BY <1>9 DEF LockAgainCount, SemInv, CarriesUsable
  <2>2. loaded[t] = holds[t] /\ holds[t] \in 0 .. 254
    BY <1>9, <2>1, NestAssumption DEF LockAgainCount
  <2>3. count' = count + 1 BY <1>9, <2>2 DEF LockAgainCount
  <2>4. QED BY <1>9, <2>3 DEF LockAgainCount
<1>10. CASE LockHeld(t) BY <1>10 DEF LockHeld
<1>11. CASE Block(t) BY <1>11 DEF Block
<1>12. CASE Unlock(t) BY <1>12 DEF Unlock
<1>13. CASE UnlockRefused(t) BY <1>13 DEF UnlockRefused
<1>14. CASE UnlockCount(t)
  <2>1. count' = count - 1 BY <1>14 DEF UnlockCount
  <2>2. QED BY <1>14, <2>1 DEF UnlockCount
<1>15. CASE Release(t) BY <1>15 DEF Release
<1>16. QED BY <1>4, <1>5, <1>6, <1>7, <1>8, <1>9, <1>10, <1>11, <1>12, <1>13, <1>14, <1>15
           DEF MutexStep

LEMMA NextMutexInv == SemInv /\ MutexInv /\ [Next]_vars => MutexInv'
<1> SUFFICES ASSUME SemInv, MutexInv, [Next]_vars PROVE MutexInv' OBVIOUS
<1>0. pc \in [TCBs -> Steps] /\ loaded \in [TCBs -> Nat] /\ Threads \subseteq TCBs
  BY DEF SemInv, TypeOK, TCBs
<1>1. ASSUME Tick \/ \E t \in TCBs : SchedStep(t), UNCHANGED syncVars PROVE MutexInv'
  <2>1. \A u \in TCBs : pc'[u] = pc[u] \/ {pc[u], pc'[u]} \subseteq SchedSteps
    BY <1>0, <1>1, SchedulerMovesPc
  <2>2. SchedSteps \cap MutexSteps = {} BY DEF SchedSteps, MutexSteps
  <2>3. UNCHANGED mutexVars /\ loaded' = loaded BY <1>1 DEF syncVars
  <2>4. \A u \in Threads : \/ pc'[u] = pc[u] /\ loaded'[u] = loaded[u]
                           \/ {pc[u], pc'[u]} \cap MutexSteps = {}
    BY <1>0, <2>1, <2>2, <2>3
  <2>5. QED BY <2>3, <2>4, AloneKeepsMutexInv
<1>2. ASSUME NEW t \in Threads, MutexStep(t) PROVE MutexInv'
  BY <1>2, MutexStepKeepsInv
<1>3. ASSUME NEW t \in Threads, SemStep(t) PROVE MutexInv'
  <2> USE DEF SemStep, WaitLoad, WaitStore, WaitBlock, PostLoad, PostStore, Call, CallStep, Step
  <2>1. UNCHANGED mutexVars BY <1>3 DEF syncVars
  <2>2. pc[t] \notin MutexSteps /\ pc'[t] \notin MutexSteps
    BY <1>0, <1>3 DEF MutexSteps
  <2>3. \A u \in Threads \ {t} : pc'[u] = pc[u] /\ loaded'[u] = loaded[u]
    BY <1>0, <1>3 DEF syncVars
  <2>4. QED BY <2>1, <2>2, <2>3, AloneKeepsMutexInv
<1>4. ASSUME IsrPost PROVE MutexInv'
  BY <1>4, AloneKeepsMutexInv DEF IsrPost
<1>5. CASE UNCHANGED vars
  BY <1>5, AloneKeepsMutexInv DEF vars, schedVars, syncVars
<1>6. QED BY <1>1, <1>2, <1>3, <1>4, <1>5 DEF Next
-----------------------------------------------------------------------------
\* The kernel's variables keep their types: no interleaving of loads and stores
\* takes the semaphore's count below 0.
THEOREM KernelTyped == Spec => []TypeOK
<1>1. SemInv => TypeOK BY DEF SemInv
<1>2. QED BY InitSemInv, NextSemInv, <1>1, PTL DEF Spec

LEMMA MutexSafe == Spec => [](SemInv /\ MutexInv)
  BY InitSemInv, NextSemInv, InitMutexInv, NextMutexInv, PTL DEF Spec

\* Unless a lock stored over another thread's ownership, who took the mutex and
\* has not unlocked it owns it: no two threads took it at once.
THEOREM MutexOwnedByTakers == Spec => []TakersOwn
<1>1. MutexInv => TakersOwn BY DEF MutexInv, Knows, TakersOwn
<1>2. QED BY <1>1, MutexSafe, PTL

\* Unless a lock stored over another thread's ownership, the mutex at rest counts
\* the locks of its owner, and is free exactly at 0.
THEOREM MutexCountsItsLocks == Spec => []CountIsTheOwners
<1>1. SemInv /\ MutexInv => CountIsTheOwners
  <2> SUFFICES ASSUME SemInv, MutexInv, ~overwritten,
                      \A t \in Threads : pc[t] \notin MutexSteps
               PROVE  IF owner = NULL THEN count = 0 ELSE count > 0 /\ count = holds[owner]
    BY DEF CountIsTheOwners
  <2>1. CASE owner = NULL BY <2>1 DEF MutexInv
  <2>2. CASE owner # NULL
    <3>1. owner \in Threads /\ holds[owner] \in Nat
      BY <2>2, NestAssumption DEF SemInv, TypeOK, TCBs
    <3>2. pc[owner] \notin {"take_count", "release"} BY <3>1 DEF MutexSteps
    <3>3. holds[owner] # 0 BY <3>1, <3>2 DEF MutexInv, Knows
    <3>4. QED BY <2>2, <3>1, <3>3 DEF MutexInv, Knows
  <2>3. QED BY <2>1, <2>2
<1>2. QED BY <1>1, MutexSafe, PTL
=============================================================================
