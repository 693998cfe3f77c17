---------------------------- MODULE CoreMeeting ----------------------------
(***************************************************************************)
(* How the two cores of the nRF54L15 meet and talk: barrier and rendezvous *)
(* of src/platform/nrf54l15/shared/core_sync.c, mailbox, semaphores and    *)
(* events of ipc.c, registry of shared threads of shared_memory.c.  The    *)
(* critical sections mask the interrupts of one core: accesses to what the *)
(* cores share are steps of their own.  A core makes one call at a time.   *)
(*                                                                         *)
(* Time is abstracted: a wait with a time-out may give up whenever it has  *)
(* just found its condition false.  Values that a call carries along are   *)
(* the number of the call.                                                 *)
(***************************************************************************)
EXTENDS Integers, Sequences, FiniteSets

CONSTANTS Parties,   \* the cores
          MaxCalls,  \* calls of one kind by a core (a bound)
          Slots      \* entries of the thread registry, 0 .. MAX_SHARED_THREADS - 1

ASSUME PartiesAssumption == IsFiniteSet(Parties) /\ Cardinality(Parties) = 2
ASSUME MaxCallsAssumption == MaxCalls \in Nat
ASSUME SlotsAssumption == IsFiniteSet(Slots) /\ Slots \subseteq Nat

VARIABLES at,              \* core -> where its call is, "user" between calls
          turn,            \* core -> number of calls it has begun
          cores_arrived, cores_released,
          seen,            \* core -> value it loaded and will write back
          done,            \* core -> barriers it was let through
          clobbered,       \* history: a write may have wiped out the other core's arrival
          core_ready, data,
          read,            \* core -> data it read from the other
          oldest,          \* core -> first call of the other during its own
          stranded,        \* history: a core's flag was cleared before it met, or its partner left
          sent,            \* core -> messages it put into the mailbox
          mailbox,         \* core -> message it sent that was not cleared, 0 for none
          received,        \* core -> messages it received, in order
          event,           \* core -> the other core's mailbox event is set for it
          semaphore, given, taken,
          raced,           \* history: two cores were inside one table or semaphore
          threads, next_global_id, thread_count,
          slot             \* core -> entry it found free

barrierVars == <<cores_arrived, cores_released, seen, done, clobbered>>
rendezvousVars == <<core_ready, data, read, oldest, stranded>>
mailVars == <<sent, mailbox, received, event>>
tableVars == <<semaphore, given, taken, raced, threads, next_global_id, thread_count, slot>>
meetVars == <<at, turn, barrierVars, rendezvousVars, mailVars, tableVars>>

Other(c) == CHOOSE d \in Parties : d # c

MeetInit == /\ at = [c \in Parties |-> "user"]
            /\ turn = [c \in Parties |-> 0]
            /\ cores_arrived = {} /\ cores_released = {}
            /\ seen = [c \in Parties |-> {}]
            /\ done = [c \in Parties |-> 0] /\ clobbered = FALSE
            /\ core_ready = [c \in Parties |-> FALSE]
            /\ data = [c \in Parties |-> 0] /\ read = data /\ oldest = data
            /\ stranded = FALSE
            /\ sent = data /\ mailbox = data /\ received = [c \in Parties |-> << >>]
            /\ event = [c \in Parties |-> FALSE]
            /\ semaphore = 0 /\ given = 0 /\ taken = 0 /\ raced = FALSE
            /\ threads = [i \in Slots |-> -1]
            /\ next_global_id = 0 /\ thread_count = 0
            /\ slot = data

Goes(c, from, to) == at[c] = from /\ at' = [at EXCEPT ![c] = to]
Enters(c, to) == /\ turn[c] < MaxCalls /\ turn' = [turn EXCEPT ![c] = @ + 1]
                 /\ Goes(c, "user", to)
-----------------------------------------------------------------------------
(***************************************************************************)
(* The barrier: cores_arrived |= and &= are a load and a store each.       *)
(***************************************************************************)
Arrive(c) == /\ Enters(c, "arrive")
             /\ seen' = [seen EXCEPT ![c] = cores_arrived]
             /\ UNCHANGED <<cores_arrived, cores_released, done, clobbered>>

Arrived(c) == /\ Goes(c, "arrive", "gather")
              /\ cores_arrived' = seen[c] \cup {c}
              /\ clobbered' = (clobbered \/ cores_arrived # seen[c])
              /\ UNCHANGED <<turn, cores_released, seen, done>>

\* Mutant of AllArrived: any core's arrival will do.
AnyArrived == cores_arrived # {}

AllArrived == cores_arrived = Parties

Gather(c) == /\ Goes(c, "gather", IF AllArrived THEN "hold" ELSE "late")
             /\ UNCHANGED <<turn, barrierVars>>

\* Not all are here: look again, or the time is over and the arrival is withdrawn.
GiveUp(c) == /\ \/ Goes(c, "late", "gather") /\ UNCHANGED seen
                \/ Goes(c, "late", "withdraw") /\ seen' = [seen EXCEPT ![c] = cores_arrived]
             /\ UNCHANGED <<turn, cores_arrived, cores_released, done, clobbered>>

Withdraw(c) == /\ Goes(c, "withdraw", "user")
               /\ cores_arrived' = seen[c] \ {c}
               /\ clobbered' = (clobbered \/ cores_arrived # seen[c])
               /\ UNCHANGED <<turn, cores_released, seen, done>>

Pass(c) == /\ c \in cores_released
           /\ Goes(c, "hold", "user")
           /\ done' = [done EXCEPT ![c] = @ + 1]
           /\ UNCHANGED <<turn, cores_arrived, cores_released, seen, clobbered>>

\* A core between its calls releases, or initialises the barrier, which its
\* start-up and its test do without a look at the other core.
Release(c) == /\ at[c] = "user"
              /\ cores_released' = Parties
              /\ UNCHANGED <<at, turn, cores_arrived, seen, done, clobbered>>

BarrierInit(c) == /\ at[c] = "user"
                  /\ cores_arrived' = {} /\ cores_released' = {}
                  /\ clobbered' = (clobbered \/ at[Other(c)] # "user")
                  /\ UNCHANGED <<at, turn, seen, done>>

BarrierStep(c) == \/ Arrive(c)
                  \/ Arrived(c)
                  \/ Gather(c)
                  \/ GiveUp(c)
                  \/ Withdraw(c)
                  \/ Pass(c)
                  \/ Release(c)
                  \/ BarrierInit(c)

BarrierNext == /\ \E c \in Parties : BarrierStep(c)
               /\ UNCHANGED <<rendezvousVars, mailVars, tableVars>>
-----------------------------------------------------------------------------
(***************************************************************************)
(* The rendezvous.  The first core that sees the other ready reads its     *)
(* data and clears both flags.                                             *)
(***************************************************************************)
Bring(c) == /\ Enters(c, "bring")
            /\ data' = [data EXCEPT ![c] = turn'[c]]
            /\ oldest' = [oldest EXCEPT ![c] =
                 turn[Other(c)] + (IF at[Other(c)] = "user" THEN 1 ELSE 0)]
            /\ UNCHANGED <<core_ready, read, stranded>>

Ready(c) == /\ Goes(c, "bring", "meet")
            /\ core_ready' = [core_ready EXCEPT ![c] = TRUE]
            /\ UNCHANGED <<turn, data, read, oldest, stranded>>

\* Mutant of Meet: the test is inverted.
MeetAbsent(c) == /\ Goes(c, "meet", IF core_ready[Other(c)] THEN "missed" ELSE "fetch")
                 /\ UNCHANGED <<turn, rendezvousVars>>

Meet(c) == /\ Goes(c, "meet", IF core_ready[Other(c)] THEN "fetch" ELSE "missed")
           /\ UNCHANGED <<turn, rendezvousVars>>

MeetAgain(c) == Goes(c, "missed", "meet") /\ UNCHANGED <<turn, rendezvousVars>>

\* Mutant of Leave: the flag stays up.
LeaveReady(c) == Goes(c, "missed", "user") /\ UNCHANGED <<turn, rendezvousVars>>

\* The time is over.
Leave(c) == /\ Goes(c, "missed", "user")
            /\ core_ready' = [core_ready EXCEPT ![c] = FALSE]
            /\ stranded' = (stranded \/ core_ready[Other(c)])
            /\ UNCHANGED <<turn, data, read, oldest>>

Fetch(c) == /\ Goes(c, "fetch", "clear mine")
            /\ read' = [read EXCEPT ![c] = data[Other(c)]]
            /\ UNCHANGED <<turn, core_ready, data, oldest, stranded>>

\* A core that looks for the flag that goes down here has not met its partner.
Looking == {"meet", "missed"}

ClearMine(c) == /\ Goes(c, "clear mine", "clear other")
                /\ core_ready' = [core_ready EXCEPT ![c] = FALSE]
                /\ stranded' = (stranded \/ at[Other(c)] \in Looking)
                /\ UNCHANGED <<turn, data, read, oldest>>

ClearOther(c) == /\ Goes(c, "clear other", "user")
                 /\ core_ready' = [core_ready EXCEPT ![Other(c)] = FALSE]
                 /\ stranded' = (stranded \/ at[Other(c)] \in Looking)
                 /\ UNCHANGED <<turn, data, read, oldest>>

\* The steps of a call that was entered; Leave is the time-out's.
RendezvousGoesOn(c) == \/ Ready(c)
                       \/ Meet(c)
                       \/ MeetAgain(c)
                       \/ Fetch(c)
                       \/ ClearMine(c)
                       \/ ClearOther(c)

RendezvousStep(c) == Bring(c) \/ Leave(c) \/ RendezvousGoesOn(c)

RendezvousNext == /\ \E c \in Parties : RendezvousStep(c)
                  /\ UNCHANGED <<barrierVars, mailVars, tableVars>>
-----------------------------------------------------------------------------
(***************************************************************************)
(* The mailbox.  The register that a core writes is the one the other core *)
(* reads (external).  It holds the first word of a message; what follows   *)
(* in the receiver's buffer, the checksum that is compared included, is    *)
(* what the buffer held before: the comparison goes either way.            *)
(***************************************************************************)

\* Mutant of Send: no look whether the mailbox is empty.
SendOver(c) == /\ sent[c] < MaxCalls
               /\ sent' = [sent EXCEPT ![c] = @ + 1]
               /\ mailbox' = [mailbox EXCEPT ![c] = sent'[c]]
               /\ event' = [event EXCEPT ![Other(c)] = TRUE]
               /\ UNCHANGED <<at, turn, received>>

\* A thread or, for an answer to CORE_READY, the interrupt handler sends.
Send(c) == /\ sent[c] < MaxCalls
           /\ mailbox[c] = 0
           /\ sent' = [sent EXCEPT ![c] = @ + 1]
           /\ mailbox' = [mailbox EXCEPT ![c] = sent'[c]]
           /\ event' = [event EXCEPT ![Other(c)] = TRUE]
           /\ UNCHANGED <<at, turn, received>>

\* A message that fails the comparison stays in the mailbox.
Receive(c) == /\ mailbox[Other(c)] # 0
              /\ Goes(c, "user", "received")
              /\ received' = [received EXCEPT ![c] = Append(@, mailbox[Other(c)])]
              /\ UNCHANGED <<turn, sent, mailbox, event>>

Clear(c) == /\ Goes(c, "received", "user")
            /\ mailbox' = [mailbox EXCEPT ![Other(c)] = 0]
            /\ UNCHANGED <<turn, sent, received, event>>

EventTaken(c) == /\ event[c] /\ at[c] = "user"
                 /\ event' = [event EXCEPT ![c] = FALSE]
                 /\ UNCHANGED <<at, turn, sent, mailbox, received>>

MailStep(c) == \/ Send(c)
               \/ Receive(c)
               \/ Clear(c)
               \/ EventTaken(c)

MailNext == /\ \E c \in Parties : MailStep(c)
            /\ UNCHANGED <<barrierVars, rendezvousVars, tableVars>>
-----------------------------------------------------------------------------
(***************************************************************************)
(* A cross-core semaphore: give stores 1, take tests and clears.  The      *)
(* registry: a slot is found free, then filled, with no lock.              *)
(***************************************************************************)
registryVars == <<threads, next_global_id, thread_count, slot>>

SemGive(c) == /\ Enters(c, "user")
              /\ semaphore' = 1
              /\ given' = given + 1
              /\ UNCHANGED <<taken, raced, registryVars>>

SemTest(c) == /\ semaphore # 0
              /\ Goes(c, "user", "take")
              /\ raced' = (raced \/ at[Other(c)] = "take")
              /\ UNCHANGED <<turn, semaphore, given, taken, registryVars>>

SemTake(c) == /\ Goes(c, "take", "user")
              /\ semaphore' = 0
              /\ taken' = taken + 1
              /\ UNCHANGED <<turn, given, raced, registryVars>>

RegisterFind(c) == /\ Enters(c, "register")
                   /\ \E i \in Slots : /\ threads[i] = -1
                                       /\ \A j \in Slots : j < i => threads[j] # -1
                                       /\ slot' = [slot EXCEPT ![c] = i]
                   /\ raced' = (raced \/ at[Other(c)] \in {"register", "unregister"})
                   /\ UNCHANGED <<semaphore, given, taken, threads, next_global_id, thread_count>>

\* Mutant of RegisterFill: the next thread gets the same id.
RegisterFillSameId(c) == /\ Goes(c, "register", "user")
                         /\ threads' = [threads EXCEPT ![slot[c]] = next_global_id]
                         /\ thread_count' = thread_count + 1
                         /\ UNCHANGED <<turn, semaphore, given, taken, next_global_id, raced, slot>>

RegisterFill(c) == /\ Goes(c, "register", "user")
                   /\ threads' = [threads EXCEPT ![slot[c]] = next_global_id]
                   /\ next_global_id' = next_global_id + 1
                   /\ thread_count' = thread_count + 1
                   /\ UNCHANGED <<turn, semaphore, given, taken, raced, slot>>

UnregisterFind(c) == /\ Goes(c, "user", "unregister")
                     /\ \E i \in Slots : /\ threads[i] # -1
                                         /\ slot' = [slot EXCEPT ![c] = i]
                     /\ raced' = (raced \/ at[Other(c)] \in {"register", "unregister"})
                     /\ UNCHANGED <<turn, semaphore, given, taken, threads, next_global_id, thread_count>>

UnregisterDrop(c) == /\ Goes(c, "unregister", "user")
                     /\ threads' = [threads EXCEPT ![slot[c]] = -1]
                     /\ thread_count' = thread_count - 1
                     /\ UNCHANGED <<turn, semaphore, given, taken, raced, next_global_id, slot>>

TableStep(c) == \/ SemGive(c)
                \/ SemTest(c)
                \/ SemTake(c)
                \/ RegisterFind(c)
                \/ RegisterFill(c)
                \/ UnregisterFind(c)
                \/ UnregisterDrop(c)

TableNext == /\ \E c \in Parties : TableStep(c)
             /\ UNCHANGED <<barrierVars, rendezvousVars, mailVars>>
-----------------------------------------------------------------------------
(***************************************************************************)
(* A core that was let through the barrier, and one that waits to be let   *)
(* through, has met the other: it has come to its wait at least once.  And *)
(* an arrival stays recorded until its core withdraws it, unless a stale   *)
(* value of cores_arrived was written back or the barrier initialised with *)
(* a core inside.                                                          *)
(***************************************************************************)
BarrierMeets == \A c \in Parties :
  /\ at[c] = "hold" \/ done[c] > 0 => turn[Other(c)] > 0
  /\ at[c] \in {"gather", "late", "hold"} /\ ~clobbered => c \in cores_arrived

(***************************************************************************)
(* The data that a core takes away from a rendezvous are those of a call   *)
(* that the other core was making during its own, calls that timed out     *)
(* before included.                                                        *)
(***************************************************************************)
RendezvousOverlaps == \A c \in Parties :
                        at[c] \in {"clear mine", "clear other"} => read[c] >= oldest[c]

(***************************************************************************)
(* A core whose partner has come too gets out of the rendezvous, unless    *)
(* the partner cleared a flag that a core was still looking for, or gave   *)
(* up although both had come.                                              *)
(***************************************************************************)
RendezvousEnds == [](~stranded) => \A c \in Parties :
                    at[c] \in Looking /\ core_ready[c] /\ core_ready[Other(c)] ~> at[c] = "user"

(***************************************************************************)
(* The messages that a core sent with success are received by the other,   *)
(* each of them once and in order, but for the one in the mailbox.         *)
(***************************************************************************)
MailInOrder == \A c \in Parties :
  LET d == Other(c)
  IN  received[d] \o (IF mailbox[c] = 0 \/ at[d] = "received" THEN << >> ELSE <<mailbox[c]>>)
        = [i \in 1 .. sent[c] |-> i]

(***************************************************************************)
(* No give of the semaphore is taken twice, and the registry counts the    *)
(* threads that are registered and knows each by an id of its own; unless  *)
(* two cores were inside one of them at once.                              *)
(***************************************************************************)
TablesExact == ~raced =>
  LET active == {i \in Slots : threads[i] # -1}
  IN  /\ taken <= given
      /\ thread_count = Cardinality(active)
      /\ \A i, j \in active : threads[i] = threads[j] => i = j
=============================================================================
