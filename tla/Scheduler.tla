------------------------------ MODULE Scheduler ------------------------------
(***************************************************************************)
(* Threads, the priority scheduler and the context switch of microPOSIX on *)
(* one core: src/src/kernel/scheduler.c, src/src/kernel/thread.c and the   *)
(* SysTick and PendSV handlers of src/platform/nrf54l15/m33.               *)
(*                                                                         *)
(* A kernel call is made by the current thread and runs with interrupts    *)
(* enabled, so the tick may fall between any two of its steps and switch   *)
(* to another thread; the call goes on when its thread is switched back    *)
(* in.  A call that reschedules ends with the steps "scan" (the walk that  *)
(* leaves best_thread in a local variable) and "store" (its comparison     *)
(* with current_thread and the assignment of next_thread).  Until a switch *)
(* comes the caller keeps running, whatever state it gave itself.          *)
(***************************************************************************)
EXTENDS Integers, Sequences

CONSTANTS Threads,     \* the TCBs of tcb_pool
          Idle,        \* idle_tcb, on which the boot code and the idle loop run
          NULL,        \* the null TCB pointer
          Priorities,  \* the priorities threads are created with
          MaxSleep     \* the longest sleep a thread asks for (a bound)

ASSUME ThreadsAssumption == Idle \notin Threads /\ NULL \notin Threads \cup {Idle}
ASSUME PrioritiesAssumption == Priorities \subseteq Nat
ASSUME MaxSleepAssumption == MaxSleep \in Nat

VARIABLES ready_list,      \* every TCB that was added, the last one first
          state,           \* TCB -> thread state; "FREE" is tcb_used = false
          priority,        \* TCB -> priority
          sleep_ticks,     \* TCB -> ticks left to sleep
          current_thread,  \* the TCB the core runs
          next_thread,     \* the TCB PendSV will switch to, or NULL
          pc,              \* TCB -> the step its kernel call is at, or "user"
          ticks,           \* TCB -> the argument of the sleep it is entering
          best_thread      \* TCB -> the local variable of its reschedule

schedVars == <<ready_list, state, priority, sleep_ticks, current_thread,
               next_thread, pc, ticks, best_thread>>

TCBs == Threads \cup {Idle}

\* MP_THREAD_RUNNING is declared but the kernel assigns it nowhere.
States == {"FREE", "READY", "BLOCKED", "SLEEPING", "TERMINATED"}

\* mp_sched_init: the idle thread is current and alone on the list.
SchedInit == /\ ready_list = <<Idle>>
             /\ state = [t \in TCBs |-> IF t = Idle THEN "READY" ELSE "FREE"]
             /\ priority = [t \in TCBs |-> 0]
             /\ sleep_ticks = [t \in TCBs |-> 0]
             /\ current_thread = Idle
             /\ next_thread = NULL
             /\ pc = [t \in TCBs |-> "user"]
             /\ ticks = [t \in TCBs |-> 0]
             /\ best_thread = [t \in TCBs |-> NULL]
-----------------------------------------------------------------------------
(***************************************************************************)
(* b is what the walk of mp_sched_reschedule ends with when the states are *)
(* st: of the ready TCBs on the list one of the highest priority, and the  *)
(* last of those, since the walk replaces its candidate on >=.             *)
(***************************************************************************)
IsBest(b, st) ==
  LET ready == {i \in 1 .. Len(ready_list) : st[ready_list[i]] = "READY"}
      Over(i, j) == \/ priority[ready_list[i]] > priority[ready_list[j]]
                    \/ priority[ready_list[i]] = priority[ready_list[j]] /\ i >= j
  IN  IF ready = {} THEN b = NULL
                    ELSE \E i \in ready : /\ b = ready_list[i]
                                          /\ \A j \in ready : Over(i, j)

\* Mutant of NextAfter: no comparison with current_thread.
NextAfterAny(b) == b

\* next_thread after a walk that ended with b; a stale one is not cleared.
NextAfter(b) == IF b # current_thread THEN b ELSE next_thread

\* Thread t is the one running and its call is at step from.
Step(t, from, to) == /\ t = current_thread
                     /\ pc[t] = from
                     /\ pc' = [pc EXCEPT ![t] = to]

Scan(t) == /\ Step(t, "scan", "store")
           /\ \E b \in TCBs \cup {NULL} : /\ IsBest(b, state)
                                          /\ best_thread' = [best_thread EXCEPT ![t] = b]
           /\ UNCHANGED <<ready_list, state, priority, sleep_ticks, current_thread,
                          next_thread, ticks>>

Store(t) == /\ Step(t, "store", "user")
            /\ next_thread' = NextAfter(best_thread[t])
            /\ best_thread' = [best_thread EXCEPT ![t] = NULL]
            /\ UNCHANGED <<ready_list, state, priority, sleep_ticks, current_thread,
                           ticks>>
-----------------------------------------------------------------------------
\* A thread that has exited has no further code to run.
Alive(t) == state[t] # "TERMINATED"

(***************************************************************************)
(* mp_thread_create takes any unused TCB and puts it at the head of the    *)
(* list.  One step: until the assignment of ready_list nobody else reads   *)
(* the new TCB, given that no other thread is inside mp_thread_create.     *)
(***************************************************************************)
Create(c, t, p) == /\ Alive(c)
                   /\ state[t] = "FREE"
                   /\ Step(c, "user", "scan")
                   /\ state' = [state EXCEPT ![t] = "READY"]
                   /\ priority' = [priority EXCEPT ![t] = p]
                   /\ ready_list' = <<t>> \o ready_list
                   /\ UNCHANGED <<sleep_ticks, current_thread, next_thread, ticks,
                                  best_thread>>

\* mp_thread_yield, and each turn of the loop mp_thread_join waits in.
Yield(t) == /\ Alive(t)
            /\ Step(t, "user", "scan")
            /\ UNCHANGED <<ready_list, state, priority, sleep_ticks, current_thread,
                           next_thread, ticks, best_thread>>

\* mp_thread_sleep writes the state first and the ticks after it.
Sleep(t, n) == /\ Alive(t)
               /\ Step(t, "user", "set_ticks")
               /\ state' = [state EXCEPT ![t] = "SLEEPING"]
               /\ ticks' = [ticks EXCEPT ![t] = n]
               /\ UNCHANGED <<ready_list, priority, sleep_ticks, current_thread,
                              next_thread, best_thread>>

SleepTicks(t) == /\ Step(t, "set_ticks", "scan")
                 /\ sleep_ticks' = [sleep_ticks EXCEPT ![t] = ticks[t]]
                 /\ ticks' = [ticks EXCEPT ![t] = 0]
                 /\ UNCHANGED <<ready_list, state, priority, current_thread,
                                next_thread, best_thread>>

\* mp_thread_exit; its return address is itself, so it may run again.
Exit(t) == /\ Step(t, "user", "scan")
           /\ state' = [state EXCEPT ![t] = "TERMINATED"]
           /\ UNCHANGED <<ready_list, priority, sleep_ticks, current_thread,
                          next_thread, ticks, best_thread>>
-----------------------------------------------------------------------------
\* Mutant of TickedSleep: no test before the decrement.
TickedSleepUntested == [t \in TCBs |-> IF state[t] = "SLEEPING"
                                       THEN sleep_ticks[t] - 1 ELSE sleep_ticks[t]]

\* The wake-up loop of mp_sched_tick: sleep(0) too ends at the next tick.
TickedSleep == [t \in TCBs |-> IF state[t] = "SLEEPING" /\ sleep_ticks[t] > 0
                               THEN sleep_ticks[t] - 1 ELSE sleep_ticks[t]]

\* Mutant of TickedState: the wake-up test is made only after a decrement.
TickedStateNested == [t \in TCBs |-> IF /\ state[t] = "SLEEPING" /\ sleep_ticks[t] > 0
                                        /\ TickedSleep[t] = 0
                                     THEN "READY" ELSE state[t]]

TickedState == [t \in TCBs |-> IF state[t] = "SLEEPING" /\ TickedSleep[t] = 0
                               THEN "READY" ELSE state[t]]

\* mp_hal_cpu_pendsv_handler when next_thread is n.
PendSV(n) == /\ current_thread' = IF n # NULL THEN n ELSE current_thread
             /\ next_thread' = NULL

\* Mutant of Tick: mp_sched_tick does not reschedule.
TickNoPreempt == /\ sleep_ticks' = TickedSleep
                 /\ state' = TickedState
                 /\ PendSV(next_thread)
                 /\ UNCHANGED <<ready_list, priority, pc, ticks, best_thread>>

(***************************************************************************)
(* The SysTick handler: mp_sched_tick, then PendSV, which it pends and     *)
(* which is taken before any thread code because the two exceptions have   *)
(* the same priority.                                                      *)
(***************************************************************************)
Tick == /\ sleep_ticks' = TickedSleep
        /\ state' = TickedState
        /\ \E b \in TCBs \cup {NULL} : /\ IsBest(b, TickedState)
                                       /\ PendSV(NextAfter(b))
        /\ UNCHANGED <<ready_list, priority, pc, ticks, best_thread>>

SchedStep(t) == \/ \E n \in Threads, p \in Priorities : Create(t, n, p)
                \/ Scan(t)
                \/ Store(t)
                \/ t # Idle /\ Yield(t)
                \/ t # Idle /\ \E n \in 0 .. MaxSleep : Sleep(t, n)
                \/ SleepTicks(t)
                \/ t # Idle /\ Exit(t)

SchedNext == Tick \/ \E t \in TCBs : SchedStep(t)

\* SysTick is a free-running hardware timer: ticks keep coming.
SchedSpec == SchedInit /\ [][SchedNext]_schedVars /\ WF_schedVars(Tick)
-----------------------------------------------------------------------------
\* Everything but pc, whose steps a module with more kernel calls adds to.
Typed == /\ ready_list \in Seq(TCBs)
         /\ state \in [TCBs -> States]
         /\ priority \in [TCBs -> Nat]
         /\ sleep_ticks \in [TCBs -> 0 .. MaxSleep]
         /\ current_thread \in TCBs
         /\ next_thread \in TCBs \cup {NULL}
         /\ ticks \in [TCBs -> 0 .. MaxSleep]
         /\ best_thread \in [TCBs -> TCBs \cup {NULL}]

SchedSteps == {"user", "scan", "store", "set_ticks"}

\* The scheduler's variables keep their types: TCB pointers point to TCBs,
\* tick counts do not run below 0.
SchedTypeOK == Typed /\ pc \in [TCBs -> SchedSteps]

(***************************************************************************)
(* A pending switch is a switch: next_thread never names the thread that   *)
(* is running, at whatever step a tick or a preempted call left it.        *)
(***************************************************************************)
NextIsAnother == next_thread # current_thread

(***************************************************************************)
(* Preemptive priority scheduling: the tick leaves the core to the best    *)
(* ready thread.                                                           *)
(***************************************************************************)
TickRunsBest == [][Tick => IsBest(current_thread', state')]_schedVars

\* A thread that sleeps is woken: no interleaving leaves it asleep for good.
SleepersWake == \A t \in Threads : state[t] = "SLEEPING" ~> state[t] # "SLEEPING"

\* t is ready and every other ready thread has a lower priority.
Foremost(t) == /\ state[t] = "READY"
               /\ \A u \in TCBs \ {t} : state[u] = "READY" => priority[u] < priority[t]

(***************************************************************************)
(* A thread that stays ready and above every other ready thread gets the   *)
(* core and keeps it, even if its own calls left a stale next_thread.      *)
(***************************************************************************)
ForemostRuns == \A t \in Threads : <>[]Foremost(t) => <>[](current_thread = t)
=============================================================================
