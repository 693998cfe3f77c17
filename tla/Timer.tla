-------------------------------- MODULE Timer --------------------------------
(***************************************************************************)
(* The software timers of src/src/kernel/timer.c: an intrusive list that   *)
(* mp_timer_tick walks, calling back into code that may itself create,     *)
(* start and stop timers while the walk holds a pointer into the list.     *)
(*                                                                         *)
(* The walk is taken one timer at a time.  Calls from threads come between *)
(* two walks, calls from a callback during one; calls and the walk do not  *)
(* otherwise interrupt each other here, although the critical sections of  *)
(* timer.c are commented out.  Nothing under src/ calls mp_timer_tick, so  *)
(* that no walk need ever begin, and a callback may restart its timers for *)
(* ever: nothing is said of when a timer fires.  Two uses of the calls are *)
(* left out: creating a timer that is on the list, which cuts off those    *)
(* behind it, and a periodic timer whose period is 0.                      *)
(*                                                                         *)
(* A time is the milliseconds left to it: due is expiry_ms less the clock, *)
(* and 0 from expiry on.                                                   *)
(***************************************************************************)
EXTENDS Integers, FiniteSets

CONSTANTS Timers,
          NULL,
          Delays,    \* the delays timers are created with
          Periods,   \* their periods, and 0 for a one-shot timer
          MaxTimerCalls   \* timer calls one callback makes at most (a bound)

ASSUME TimersAssumption == IsFiniteSet(Timers) /\ NULL \notin Timers
ASSUME TimesAssumption == Delays \subseteq Nat /\ Periods \subseteq Nat
ASSUME MaxTimerCallsAssumption == MaxTimerCalls \in Nat

VARIABLES timer_list,  \* the first timer of the list
          next,        \* timer -> the timer after it; stale once it is stopped
          due,         \* timer -> milliseconds to its expiry
          period,      \* timer -> its period, or 0 if it is one-shot
          curr,        \* the timer the walk is at
          stage,       \* "idle" between walks, "visit", or "callback" of curr
          calls,       \* timer calls left to the callback that runs
          started,     \* history: the timers started, neither stopped nor done
          waiting,     \* history: started and due when the walk began, and not
                       \* fired or stopped since
          lost         \* history: a callback has lost the walk its place

timerHistory == <<waiting, lost>>
timerVars == <<timer_list, next, due, period, curr, stage, calls, started, timerHistory>>

TimerInit == /\ timer_list = NULL
             /\ next = [t \in Timers |-> NULL]
             /\ due = [t \in Timers |-> 0]
             /\ period = [t \in Timers |-> 0]
             /\ curr = NULL
             /\ stage = "idle"
             /\ calls = 0
             /\ started = {}
             /\ waiting = {}
             /\ lost = FALSE
-----------------------------------------------------------------------------
\* Where following next from the head of the list leads in n steps.
Place[n \in 0 .. Cardinality(Timers)] ==
  IF n = 0 THEN timer_list
  ELSE IF Place[n - 1] = NULL THEN NULL ELSE next[Place[n - 1]]

Listed(t) == \E n \in DOMAIN Place : Place[n] = t

Create(t, d, p) == /\ ~Listed(t)
                   /\ due' = [due EXCEPT ![t] = d]
                   /\ period' = [period EXCEPT ![t] = p]
                   /\ next' = [next EXCEPT ![t] = NULL]
                   /\ UNCHANGED <<timer_list, started>>

\* Mutant of Start: no search for the timer before it is linked.
StartUnsearched(t) == /\ next' = [next EXCEPT ![t] = timer_list]
                      /\ timer_list' = t
                      /\ started' = started \cup {t}
                      /\ UNCHANGED <<due, period>>

\* mp_timer_start, which does nothing to a timer it finds on the list.
Start(t) == /\ ~Listed(t)
            /\ next' = [next EXCEPT ![t] = timer_list]
            /\ timer_list' = t
            /\ started' = started \cup {t}
            /\ UNCHANGED <<due, period>>

\* Mutant of Unlink: the timers behind the one stopped are cut off.
UnlinkCutting(t) == /\ timer_list' = IF timer_list = t THEN next[t] ELSE timer_list
                    /\ next' = [p \in Timers |-> IF Listed(t) /\ Listed(p) /\ next[p] = t
                                                 THEN NULL ELSE next[p]]

\* Mutant of Unlink: the timer's own next is cleared.
UnlinkClearing(t) == /\ timer_list' = IF timer_list = t THEN next[t] ELSE timer_list
                     /\ next' = [p \in Timers |-> IF p = t THEN NULL
                                                  ELSE IF Listed(t) /\ Listed(p) /\ next[p] = t
                                                       THEN next[t] ELSE next[p]]

\* mp_timer_stop: the timer's own next is left as it was.
Unlink(t) == /\ timer_list' = IF timer_list = t THEN next[t] ELSE timer_list
             /\ next' = [p \in Timers |-> IF Listed(t) /\ Listed(p) /\ next[p] = t
                                          THEN next[t] ELSE next[p]]

Stop(t) == /\ Listed(t)
           /\ Unlink(t)
           /\ started' = started \ {t}
           /\ UNCHANGED <<due, period>>

TimerCall(t) == \/ \E d \in Delays, p \in Periods : Create(t, d, p)
                \/ Start(t)
                \/ Stop(t)

ThreadCall == /\ stage = "idle"
              /\ \E t \in Timers : TimerCall(t)
              /\ UNCHANGED <<curr, stage, calls, timerHistory>>

\* The walk will go on from curr->next.  Once curr is off the list nobody keeps
\* that link right: the place is lost when curr is created anew, or when the timer
\* it leads to is stopped too.  Starting curr again leads back to the whole list.
PlaceLost(t) == \/ curr \notin started /\ t \in {curr, next[curr]} \ started'
                \/ lost /\ curr \notin started' \ started

CallbackCall == /\ stage = "callback"
                /\ calls > 0
                /\ \E t \in Timers : TimerCall(t) /\ lost' = PlaceLost(t)
                /\ calls' = calls - 1
                /\ waiting' = waiting \cap started'
                /\ UNCHANGED <<curr, stage>>
-----------------------------------------------------------------------------
\* A millisecond passes and mp_timer_tick takes the head of the list.
TickBegin == /\ stage = "idle"
             /\ due' = [t \in Timers |-> IF due[t] > 0 THEN due[t] - 1 ELSE 0]
             /\ curr' = timer_list
             /\ stage' = "visit"
             /\ waiting' = {t \in started : due'[t] = 0}
             /\ UNCHANGED <<timer_list, next, period, calls, started, lost>>

VisitPending == /\ stage = "visit"
                /\ curr # NULL
                /\ due[curr] > 0
                /\ curr' = next[curr]
                /\ UNCHANGED <<timer_list, next, due, period, stage, calls, started, timerHistory>>

VisitDue == /\ stage = "visit"
            /\ curr # NULL
            /\ due[curr] = 0
            /\ stage' = "callback"
            /\ calls' = MaxTimerCalls
            /\ waiting' = waiting \ {curr}
            /\ UNCHANGED <<timer_list, next, due, period, curr, started, lost>>

\* After its callback a periodic timer is due one period from now and a
\* one-shot timer is stopped.
Served(t) == IF period[t] > 0
             THEN /\ due' = [due EXCEPT ![t] = period[t]]
                  /\ UNCHANGED <<timer_list, next, started>>
             ELSE /\ Unlink(t)
                  /\ started' = started \ {t}
                  /\ UNCHANGED due

\* Mutant of CallbackReturn: the walk stays at the timer.
CallbackReturnStays == /\ stage = "callback"
                       /\ Served(curr)
                       /\ stage' = "visit"
                       /\ calls' = 0
                       /\ UNCHANGED <<period, curr, timerHistory>>

\* The walk goes on by the timer's own link, read when all that is done.
CallbackReturn == /\ stage = "callback"
                  /\ Served(curr)
                  /\ curr' = next'[curr]
                  /\ stage' = "visit"
                  /\ calls' = 0
                  /\ UNCHANGED <<period, timerHistory>>

TickEnd == /\ stage = "visit"
           /\ curr = NULL
           /\ stage' = "idle"
           /\ waiting' = {}
           /\ lost' = FALSE
           /\ UNCHANGED <<timer_list, next, due, period, curr, calls, started>>

TickStep == TickBegin \/ VisitPending \/ VisitDue \/ CallbackReturn \/ TickEnd

TimerNext == ThreadCall \/ CallbackCall \/ TickStep

TimerSpec == TimerInit /\ [][TimerNext]_timerVars
-----------------------------------------------------------------------------
(***************************************************************************)
(* Whatever timers callbacks start and stop while the walk is on them, no  *)
(* chain of next pointers closes on itself, so that the loops of start and *)
(* stop terminate, and the timers on the list are those started and        *)
(* neither stopped nor done: none is dropped and none is left.             *)
(***************************************************************************)
ListIsStarted == /\ Place[Cardinality(Timers)] = NULL
                 /\ {t \in Timers : Listed(t)} = started

(***************************************************************************)
(* A stopped timer stays silent, although the list changes under the walk, *)
(* but for one sequence of calls, after which the code does fire it: a     *)
(* callback stops its own timer and then the one behind it, and            *)
(* mp_timer_tick goes on to that one by the link the first has kept.       *)
(***************************************************************************)
OnlyStartedFire == [][VisitDue => lost \/ curr \in started]_timerVars

(***************************************************************************)
(* A walk passes over no timer that was due when it began: at its end each *)
(* has fired or was stopped, whatever callbacks did to the list before it, *)
(* behind it and to the timer the walk was at; but for a callback that     *)
(* stops its own timer and then creates it anew, or stops the one behind.  *)
(***************************************************************************)
NoneMissed == [][TickEnd => lost \/ waiting = {}]_timerVars
=============================================================================
