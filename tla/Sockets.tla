------------------------------ MODULE Sockets ------------------------------
(***************************************************************************)
(* The socket table of src/src/network/socket.c: slots that hold the       *)
(* descriptors of the system below (lwIP or POSIX, external).  Creating    *)
(* and closing a socket hold a lock, which is a flag tested and then set;  *)
(* accept and connect write the table without it, and every call checks    *)
(* its slot before it locks.                                               *)
(*                                                                         *)
(* The table starts zeroed, and 0 is not the mark of a free slot: a slot   *)
(* must be closed before it can be used for the first time, which asks for *)
(* descriptor 0 to be closed.  Here 0 is not a descriptor the system gives *)
(* out, as lwIP's start higher; where they start at 0 a zeroed slot and a  *)
(* socket can share it.  Any thread uses and closes any slot of the table. *)
(***************************************************************************)
EXTENDS Integers, FiniteSets

CONSTANTS SockThreads, SockSlots,
          Descriptors  \* what the system has to give out

ASSUME DescriptorsAssumption == Descriptors \subseteq Nat \ {0}
ASSUME SockSlotsAssumption == SockSlots # {}

VARIABLES fd,          \* slot -> descriptor, or -1
          connected,   \* the slots marked connected
          socket_mutex_locked,
          at,          \* thread -> where it is in its call
          slot,        \* thread -> the slot its call is about
          fresh,       \* thread -> descriptor made for its call, or -1
          open, wired, \* the system's: descriptors open, descriptors connected
          raced        \* history: two calls met in the window of one of them

socketVars == <<fd, connected, socket_mutex_locked, at, slot, fresh, open, wired, raced>>

SocketInit == /\ fd = [s \in SockSlots |-> 0]
              /\ connected = {}
              /\ socket_mutex_locked = FALSE
              /\ at = [t \in SockThreads |-> "out"]
              /\ slot = [t \in SockThreads |-> CHOOSE s \in SockSlots : TRUE]
              /\ fresh = [t \in SockThreads |-> -1]
              /\ open = {} /\ wired = {}
              /\ raced = FALSE
-----------------------------------------------------------------------------
Goes(t, place) == at' = [at EXCEPT ![t] = place]
Others(t) == SockThreads \ {t}
Met(met) == raced' = (raced \/ met)

Valid(s) == fd[s] # -1

SocketCall(t) == /\ at[t] = "out" /\ Goes(t, "create: lock")
                 /\ UNCHANGED <<fd, connected, socket_mutex_locked, slot, fresh, open, wired, raced>>

\* The test of the slot comes before the lock.
CloseCall(t, s) == /\ at[t] = "out" /\ Valid(s)
                   /\ Goes(t, "close: lock") /\ slot' = [slot EXCEPT ![t] = s]
                   /\ Met(\E u \in Others(t) : at[u] # "out" /\ slot[u] = s)
                   /\ UNCHANGED <<fd, connected, socket_mutex_locked, fresh, open, wired>>

LockTested(t) == /\ ~socket_mutex_locked
                 /\ \/ at[t] = "create: lock" /\ Goes(t, "create: set")
                    \/ at[t] = "close: lock" /\ Goes(t, "close: set")
                 /\ Met(\E u \in Others(t) : at[u] \in {"create: set", "close: set"})
                 /\ UNCHANGED <<fd, connected, socket_mutex_locked, slot, fresh, open, wired>>

LockSet(t) == /\ \/ at[t] = "create: set" /\ Goes(t, "create: find")
                 \/ at[t] = "close: set" /\ Goes(t, "close: drop")
              /\ socket_mutex_locked' = TRUE
              /\ UNCHANGED <<fd, connected, slot, fresh, open, wired, raced>>

Free == {s \in SockSlots : fd[s] = -1}
Lowest(S) == {s \in S : \A r \in S : s <= r}
Spare == Descriptors \ open

\* A slot is found, then the system asked for a descriptor, lowest first.
CreateFinds(t) == /\ at[t] = "create: find"
                  /\ \E s \in Lowest(Free), d \in Lowest(Spare) :
                       /\ slot' = [slot EXCEPT ![t] = s]
                       /\ fresh' = [fresh EXCEPT ![t] = d]
                       /\ open' = open \cup {d}
                  /\ Goes(t, "create: store")
                  /\ Met(\E u \in Others(t) : at[u] \in {"create: store", "accept: store", "close: drop"})
                  /\ UNCHANGED <<fd, connected, socket_mutex_locked, wired>>

CreateFails(t) == /\ at[t] = "create: find" /\ (Free = {} \/ Spare = {})
                  /\ socket_mutex_locked' = FALSE /\ Goes(t, "out")
                  /\ UNCHANGED <<fd, connected, slot, fresh, open, wired, raced>>

CreateStores(t) == /\ at[t] = "create: store"
                   /\ fd' = [fd EXCEPT ![slot[t]] = fresh[t]]
                   /\ connected' = connected \ {slot[t]}
                   /\ fresh' = [fresh EXCEPT ![t] = -1]
                   /\ socket_mutex_locked' = FALSE /\ Goes(t, "out")
                   /\ UNCHANGED <<slot, open, wired, raced>>

CloseDrops(t) == /\ at[t] = "close: drop"
                 /\ open' = open \ {fd[slot[t]]} /\ wired' = wired \ {fd[slot[t]]}
                 /\ fd' = [fd EXCEPT ![slot[t]] = -1]
                 /\ connected' = connected \ {slot[t]}
                 /\ socket_mutex_locked' = FALSE /\ Goes(t, "out")
                 /\ UNCHANGED <<slot, fresh, raced>>
-----------------------------------------------------------------------------
\* The system connects; the mark is set when its call has returned.
ConnectCall(t, s) == /\ at[t] = "out" /\ Valid(s) /\ fd[s] \in open
                     /\ wired' = wired \cup {fd[s]}
                     /\ Goes(t, "connect: mark") /\ slot' = [slot EXCEPT ![t] = s]
                     /\ Met(\E u \in Others(t) : at[u] # "out" /\ slot[u] = s)
                     /\ UNCHANGED <<fd, connected, socket_mutex_locked, fresh, open>>

ConnectMarks(t) == /\ at[t] = "connect: mark"
                   /\ connected' = connected \cup {slot[t]}
                   /\ Goes(t, "out")
                   /\ UNCHANGED <<fd, socket_mutex_locked, slot, fresh, open, wired, raced>>

\* accept: the system has a connection, then a slot is looked for, unlocked.
AcceptFinds(t, s) == /\ at[t] = "out" /\ Valid(s)
                     /\ \E r \in Lowest(Free), d \in Lowest(Spare) :
                          /\ slot' = [slot EXCEPT ![t] = r]
                          /\ fresh' = [fresh EXCEPT ![t] = d]
                          /\ open' = open \cup {d} /\ wired' = wired \cup {d}
                     /\ Goes(t, "accept: store")
                     /\ Met(\E u \in Others(t) : at[u] \in {"create: store", "accept: store", "close: drop"})
                     /\ UNCHANGED <<fd, connected, socket_mutex_locked>>

\* Mutant of AcceptNoSlot: the connection accepted is not closed.
AcceptLeaks(t, s) == /\ at[t] = "out" /\ Valid(s) /\ Free = {} /\ Spare # {}
                     /\ open' = open \cup Lowest(Spare)
                     /\ UNCHANGED <<fd, connected, socket_mutex_locked, at, slot, fresh, wired, raced>>

\* No slot is free: the connection accepted is closed again.
AcceptNoSlot(t, s) == /\ at[t] = "out" /\ Valid(s) /\ Free = {} /\ Spare # {}
                      /\ UNCHANGED socketVars

AcceptStores(t) == /\ at[t] = "accept: store"
                   /\ fd' = [fd EXCEPT ![slot[t]] = fresh[t]]
                   /\ connected' = connected \cup {slot[t]}
                   /\ fresh' = [fresh EXCEPT ![t] = -1]
                   /\ Goes(t, "out")
                   /\ UNCHANGED <<socket_mutex_locked, slot, open, wired, raced>>

SocketNext == \E t \in SockThreads :
                \/ SocketCall(t) \/ LockTested(t) \/ LockSet(t)
                \/ CreateFinds(t) \/ CreateFails(t) \/ CreateStores(t)
                \/ CloseDrops(t)
                \/ ConnectMarks(t) \/ AcceptStores(t)
                \/ \E s \in SockSlots : CloseCall(t, s) \/ ConnectCall(t, s)
                                        \/ AcceptFinds(t, s) \/ AcceptNoSlot(t, s)

SocketSpec == SocketInit /\ [][SocketNext]_socketVars
-----------------------------------------------------------------------------
(***************************************************************************)
(* No descriptor is lost and none is shared: what is open in the system    *)
(* is what the slots hold, each descriptor in one slot only, or what a     *)
(* call in progress is about to store; and a slot marked connected holds   *)
(* a connected descriptor.  Unless two calls met in the window one of them *)
(* leaves: between test and set of the lock, between finding a slot and    *)
(* storing into it, or between checking a slot and using it.               *)
(***************************************************************************)
SocketsExact == ~raced =>
  /\ open = ({fd[s] : s \in SockSlots} \cup {fresh[t] : t \in SockThreads}) \ {-1, 0}
  /\ \A r, s \in SockSlots : r # s /\ fd[r] = fd[s] => fd[r] \in {-1, 0}
  /\ \A s \in connected : fd[s] \in wired
=============================================================================
