------------------------------ MODULE Watchdog ------------------------------
(***************************************************************************)
(* The software watchdog of src/src/kernel/watchdog.c: a table of entries, *)
(* each with the time its thread last checked in, which a supervisor goes  *)
(* through to report the threads that are late.  Threads register and      *)
(* check in between the supervisor's looks at two entries; the clock does  *)
(* not stand still, but the supervisor reads it once.                      *)
(*                                                                         *)
(* Times are counted back from the clock: an entry's age.                  *)
(***************************************************************************)
EXTENDS Integers

CONSTANTS Watched,     \* the threads that register
          TableSize,   \* MAX_WDT_ENTRIES
          Timeout

ASSUME WatchdogAssumption == TableSize \in Nat \ {0} /\ Timeout \in Nat

VARIABLES wdt_table,   \* i -> {} or {[thread, age]}
          looking,     \* the entry the supervisor is at, or -1
          passed,      \* time gone by since the supervisor read the clock
          reported,    \* the threads it reported in this round
          silent,      \* history: thread -> time since it registered or checked in
          late,        \* history: the registered threads late as the round began
          spoke,       \* history: the threads that called during the round
          doubled      \* history: the threads that registered twice

wdtVars == <<wdt_table, looking, passed, reported, silent, late, spoke, doubled>>

Entries == 0 .. TableSize - 1

\* Beyond this age nothing changes (a bound).
Oldest == Timeout + 2

WdtInit == /\ wdt_table = [i \in Entries |-> {}]
           /\ looking = -1 /\ passed = 0 /\ reported = {}
           /\ silent = [t \in Watched |-> 0]
           /\ late = {} /\ spoke = {} /\ doubled = {}
-----------------------------------------------------------------------------
TableFree == {i \in Entries : wdt_table[i] = {}}
EntriesOf(t) == {i \in Entries : \E e \in wdt_table[i] : e.thread = t}
Foremost(S) == CHOOSE i \in S : \A j \in S : i <= j

Calls(t) == /\ silent' = [silent EXCEPT ![t] = 0]
            /\ spoke' = spoke \cup {t}

\* The first entry that is free; a full table takes nobody, and says nothing.
WdtRegister(t) == /\ wdt_table' = IF TableFree = {} THEN wdt_table
                                  ELSE [wdt_table EXCEPT ![Foremost(TableFree)] = {[thread |-> t, age |-> 0]}]
                  /\ Calls(t)
                  /\ doubled' = IF EntriesOf(t) = {} THEN doubled ELSE doubled \cup {t}
                  /\ UNCHANGED <<looking, passed, reported, late>>

\* Mutant of WdtCheckIn: it stops at the first entry in use.
WdtCheckInFirst(t) == /\ wdt_table' = [i \in Entries |->
                           IF EntriesOf(t) # {} /\ i = Foremost(Entries \ TableFree)
                           THEN {[e EXCEPT !.age = 0] : e \in wdt_table[i]} ELSE wdt_table[i]]
                      /\ Calls(t)
                      /\ UNCHANGED <<looking, passed, reported, late, doubled>>

\* The first entry of the thread, if it has one.
WdtCheckIn(t) == /\ wdt_table' = [i \in Entries |->
                      IF EntriesOf(t) # {} /\ i = Foremost(EntriesOf(t)) THEN {[thread |-> t, age |-> 0]}
                      ELSE wdt_table[i]]
                 /\ Calls(t)
                 /\ UNCHANGED <<looking, passed, reported, late, doubled>>

\* mp_wdt_init again: the table is cleared, under the supervisor's feet if need be.
WdtClear == /\ wdt_table' = [i \in Entries |-> {}]
            /\ spoke' = Watched /\ doubled' = {}
            /\ UNCHANGED <<looking, passed, reported, silent, late>>

Older(age) == IF age < Oldest THEN age + 1 ELSE age

\* A millisecond, of which a round of the supervisor takes one at most (a bound).
WdtClock == /\ passed = 0
            /\ passed' = IF looking = -1 THEN 0 ELSE 1
            /\ wdt_table' = [i \in Entries |-> {[e EXCEPT !.age = Older(@)] : e \in wdt_table[i]}]
            /\ silent' = [t \in Watched |-> Older(silent[t])]
            /\ UNCHANGED <<looking, reported, late, spoke, doubled>>

SupervisorStarts == /\ looking = -1
                    /\ looking' = 0 /\ reported' = {} /\ spoke' = {}
                    /\ late' = {t \in Watched : EntriesOf(t) # {} /\ silent[t] > Timeout}
                    /\ UNCHANGED <<wdt_table, passed, silent, doubled>>

\* By the clock as it was read, in unsigned arithmetic: a check-in since then lies
\* ahead of it, and counts as ages ago.
IsLate(e) == e.age - passed > Timeout \/ e.age < passed

SupervisorLooks == /\ looking \in Entries
                   /\ reported' = reported \cup {e.thread : e \in {x \in wdt_table[looking] : IsLate(x)}}
                   /\ looking' = IF looking + 1 \in Entries THEN looking + 1 ELSE -1
                   /\ passed' = IF looking + 1 \in Entries THEN passed ELSE 0
                   /\ UNCHANGED <<wdt_table, silent, late, spoke, doubled>>

WdtNext == \/ \E t \in Watched : WdtRegister(t) \/ WdtCheckIn(t)
           \/ WdtClear
           \/ WdtClock
           \/ SupervisorStarts \/ SupervisorLooks

WdtSpec == WdtInit /\ [][WdtNext]_wdtVars
-----------------------------------------------------------------------------
(***************************************************************************)
(* A round of the supervisor reports the registered threads that had been  *)
(* silent for longer than the timeout when it began, all of them and no    *)
(* others; but for threads that registered twice, which have an entry no   *)
(* check-in reaches, and threads that called during the round.             *)
(***************************************************************************)
WatchdogExact == looking = -1 => \A t \in Watched \ (doubled \cup spoke) : t \in reported <=> t \in late
=============================================================================
