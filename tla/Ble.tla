-------------------------------- MODULE Ble --------------------------------
(***************************************************************************)
(* The BLE manager (src/src/ble/ble_mgr.c) over its ESP32 backend          *)
(* (ble_esp32.c).  Each keeps a ble_state of its own: the backend's is     *)
(* written by the callbacks of the Bluetooth stack, the manager's by its   *)
(* host task when it takes the backend's events from a bounded queue that  *)
(* drops what does not fit, and both by the calls that start and stop      *)
(* advertising.  The call stores its state after it has asked the stack,   *)
(* so that callbacks and events may come in between.                       *)
(*                                                                         *)
(* The stack (external) advertises, connects one peer, and delivers its    *)
(* callbacks in order in a task of its own.  A call of start or stop is    *)
(* made by the host task or by the application, one at a time.             *)
(***************************************************************************)
EXTENDS Integers, Sequences, FiniteSets

CONSTANTS EventDepth, DataDepth,  \* depths of event_mq, of rx_mq and tx_mq
          MaxCallbacks            \* callbacks of the stack waiting at once (a bound)

ASSUME DepthsAssumption == EventDepth \in Nat /\ DataDepth \in Nat

VARIABLES manager, backend,  \* ble_state in ble_mgr.c and in ble_esp32.c
          stack,             \* "off", "idle", "advertising" or "connected"
          callbacks,         \* the stack's callbacks not yet made
          event_mq,
          rx, tx,            \* messages in rx_mq and in tx_mq
          listening,         \* ble_data_callback is set
          asked,             \* the call begun: "none", "start" or "stop"
          granted,              \* what the backend will store for it, or "none"
          hosting,           \* the call is the host task's own
          slipped            \* history since init: see the properties

bleVars == <<manager, backend, stack, callbacks, event_mq, rx, tx, listening,
             asked, granted, hosting, slipped>>

BleInit == /\ manager = "disconnected" /\ backend = "disconnected"
           /\ stack = "off" /\ callbacks = << >>
           /\ event_mq = << >> /\ rx = 0 /\ tx = 0 /\ listening = FALSE
           /\ asked = "none" /\ granted = "none" /\ hosting = FALSE
           /\ slipped = FALSE
-----------------------------------------------------------------------------
CallsBack(events) == /\ Len(callbacks) + Len(events) <= MaxCallbacks
                     /\ callbacks' = callbacks \o events

\* mp_ble_init: the queues start empty, the stack is brought up.
ManagerInit == /\ stack = "off" /\ asked = "none"
               /\ stack' = "idle"
               /\ backend' = "ready" /\ manager' = "ready"
               /\ event_mq' = << >> /\ rx' = 0 /\ tx' = 0
               /\ slipped' = FALSE
               /\ UNCHANGED <<callbacks, listening, asked, granted, hosting>>

\* The stack or a registration fails: the queues are new, the backend keeps its state.
ManagerInitFails == /\ stack = "off" /\ asked = "none"
                    /\ manager' = "error"
                    /\ event_mq' = << >> /\ rx' = 0 /\ tx' = 0
                    /\ slipped' = TRUE
                    /\ UNCHANGED <<backend, stack, callbacks, listening, asked, granted, hosting>>

ManagerDeinit == /\ stack # "off" /\ asked = "none"
                 /\ stack' = "off" /\ callbacks' = << >>
                 /\ backend' = "disconnected" /\ manager' = "disconnected"
                 /\ slipped' = (slipped \/ event_mq # << >> \/ callbacks # << >>)
                 /\ UNCHANGED <<event_mq, rx, tx, listening, asked, granted, hosting>>
-----------------------------------------------------------------------------
Startable == {"ready", "disconnected"}

\* The stack takes the request to advertise: it answers with a callback.
Advertise == IF stack = "idle" THEN /\ stack' = "advertising" /\ CallsBack(<<"adv started">>)
             ELSE UNCHANGED <<stack, callbacks>>

\* mp_ble_esp32_start_adv up to its store, after the manager's own guard.
StartAdv(host) == /\ asked = "none" /\ manager \in Startable /\ stack # "off"
                  /\ asked' = "start" /\ hosting' = host
                  /\ IF backend \in Startable
                     THEN Advertise /\ granted' = "advertising"
                     ELSE UNCHANGED <<stack, callbacks>> /\ granted' = "none"
                  /\ slipped' = (slipped \/ callbacks # << >>)
                  /\ UNCHANGED <<manager, backend, event_mq, rx, tx, listening>>

\* The stack refuses, or is off: the backend returns without its store.
StartAdvFails(host) == /\ asked = "none" /\ manager \in Startable /\ backend \in Startable
                       /\ asked' = "start" /\ hosting' = host /\ granted' = "none"
                       /\ slipped' = TRUE
                       /\ UNCHANGED <<manager, backend, stack, callbacks, event_mq, rx, tx, listening>>

StopAdv == /\ asked = "none" /\ manager = "advertising"
           /\ asked' = "stop" /\ hosting' = FALSE
           /\ IF backend = "advertising"
              THEN /\ granted' = "ready"
                   /\ IF stack = "advertising"
                      THEN stack' = "idle" /\ CallsBack(<<"adv stopped">>)
                      ELSE UNCHANGED <<stack, callbacks>>
              ELSE granted' = "none" /\ UNCHANGED <<stack, callbacks>>
           /\ slipped' = (slipped \/ callbacks # << >> \/ event_mq # << >>)
           /\ UNCHANGED <<manager, backend, event_mq, rx, tx, listening>>

\* The stack refuses to stop, and the backend returns without its store.
StopAdvFails == /\ asked = "none" /\ manager = "advertising" /\ backend = "advertising"
                /\ asked' = "stop" /\ hosting' = FALSE /\ granted' = "none"
                /\ slipped' = TRUE
                /\ UNCHANGED <<manager, backend, stack, callbacks, event_mq, rx, tx, listening>>

\* The backend's store and then the manager's, which is made in any case.
AdvStored == /\ asked # "none"
             /\ backend' = IF granted = "none" THEN backend ELSE granted
             /\ manager' = IF asked = "start" THEN "advertising" ELSE "ready"
             /\ asked' = "none" /\ granted' = "none"
             /\ UNCHANGED <<stack, callbacks, event_mq, rx, tx, listening, hosting, slipped>>
-----------------------------------------------------------------------------
\* The peer.
Connect == /\ stack = "advertising" /\ stack' = "connected"
           /\ CallsBack(<<"connected">>)
           /\ UNCHANGED <<manager, backend, event_mq, rx, tx, listening, asked, granted, hosting, slipped>>

Disconnect == /\ stack = "connected" /\ stack' = "idle"
              /\ CallsBack(<<"disconnected">>)
              /\ UNCHANGED <<manager, backend, event_mq, rx, tx, listening, asked, granted, hosting, slipped>>

Write == /\ stack = "connected"
         /\ CallsBack(<<"written">>)
         /\ UNCHANGED <<manager, backend, stack, event_mq, rx, tx, listening, asked, granted, hosting, slipped>>

\* mp_mq_send without waiting: a full queue loses the event.
Sends(event) == event_mq' = IF Len(event_mq) < EventDepth THEN Append(event_mq, event) ELSE event_mq

Slips == slipped' = (slipped \/ asked # "none" \/ Len(event_mq) = EventDepth)

Is(event) == callbacks # << >> /\ Head(callbacks) = event

\* The GAP callback.  It stores the state before it sends the event.
GapState == [event \in {"adv started", "adv stopped", "connected"} |->
               CASE event = "adv started" -> "advertising"
                 [] event = "adv stopped" -> "ready"
                 [] event = "connected" -> "connected"]

GapCallback == \E event \in DOMAIN GapState :
                 /\ Is(event)
                 /\ backend' = GapState[event]
                 /\ callbacks' = Tail(callbacks)
                 /\ Sends(event) /\ Slips
                 /\ UNCHANGED <<manager, stack, rx, tx, listening, asked, granted, hosting>>

\* Mutant of GapLost: the event is sent, the state not stored.
GapLostUnstored == /\ Is("disconnected") /\ stack = "idle"
                   /\ Sends("disconnected") /\ Slips
                   /\ callbacks' = Tail(callbacks)
                   /\ UNCHANGED <<manager, backend, stack, rx, tx, listening, asked, granted, hosting>>

\* On the loss of its peer the callback advertises again itself.
GapLost == /\ Is("disconnected")
           /\ Sends("disconnected") /\ Slips
           /\ backend' = "advertising"
           /\ callbacks' = Tail(callbacks) \o (IF stack = "idle" THEN <<"adv started">> ELSE << >>)
           /\ stack' = IF stack = "idle" THEN "advertising" ELSE stack
           /\ UNCHANGED <<manager, rx, tx, listening, asked, granted, hosting>>

\* ... and the stack refuses.
GapLostUnheard == /\ Is("disconnected")
                  /\ Sends("disconnected")
                  /\ backend' = "disconnected"
                  /\ callbacks' = Tail(callbacks)
                  /\ slipped' = TRUE
                  /\ UNCHANGED <<manager, stack, rx, tx, listening, asked, granted, hosting>>

\* A write of the peer: the data into rx_mq, the event into event_mq; either may be lost.
GattWrite == /\ Is("written")
             /\ rx' = IF rx < DataDepth THEN rx + 1 ELSE rx
             /\ Sends("data")
             /\ slipped' = (slipped \/ rx = DataDepth \/ Len(event_mq) = EventDepth)
             /\ callbacks' = Tail(callbacks)
             /\ UNCHANGED <<manager, backend, stack, tx, listening, asked, granted, hosting>>
-----------------------------------------------------------------------------
\* The host task takes an event; not while it is in a call of its own.
Takes(event) == /\ event_mq # << >> /\ Head(event_mq) = event
                /\ ~(asked # "none" /\ hosting)
                /\ event_mq' = Tail(event_mq)

HostSeesAdv == \/ Takes("adv started") /\ UNCHANGED <<manager, backend, stack, callbacks, rx, tx,
                                                     listening, asked, granted, hosting, slipped>>
               \/ Takes("adv stopped") /\ UNCHANGED <<manager, backend, stack, callbacks, rx, tx,
                                                     listening, asked, granted, hosting, slipped>>

HostConnected == /\ Takes("connected")
                 /\ manager' = "connected"
                 /\ slipped' = (slipped \/ asked # "none")
                 /\ UNCHANGED <<backend, stack, callbacks, rx, tx, listening, asked, granted, hosting>>

\* It starts advertising again, which the backend has done already.
HostDisconnected == /\ Takes("disconnected") /\ asked = "none"
                    /\ manager' = "disconnected"
                    /\ asked' = "start" /\ hosting' = TRUE
                    /\ IF backend \in Startable /\ stack # "off"
                       THEN Advertise /\ granted' = "advertising"
                       ELSE UNCHANGED <<stack, callbacks>> /\ granted' = "none"
                    /\ slipped' = (slipped \/ backend \in Startable)
                    /\ UNCHANGED <<backend, rx, tx, listening>>

HostData == /\ Takes("data")
            /\ rx' = IF listening /\ rx > 0 THEN rx - 1 ELSE rx
            /\ slipped' = (slipped \/ ~listening)
            /\ UNCHANGED <<manager, backend, stack, callbacks, tx, listening, asked, granted, hosting>>

SetDataCallback == /\ listening' = TRUE
                   /\ UNCHANGED <<manager, backend, stack, callbacks, event_mq, rx, tx, asked, granted, hosting, slipped>>

\* mp_ble_send_data: what the stack does not take waits in tx_mq, which the
\* manager's host task never empties.
SendQueued == /\ manager = "connected" /\ backend = "connected"
              /\ tx < DataDepth /\ tx' = tx + 1
              /\ UNCHANGED <<manager, backend, stack, callbacks, event_mq, rx, listening, asked, granted, hosting, slipped>>

BleNext == \/ ManagerInit \/ ManagerInitFails \/ ManagerDeinit
           \/ \E host \in BOOLEAN : StartAdv(host) \/ StartAdvFails(host)
           \/ StopAdv \/ StopAdvFails
           \/ AdvStored
           \/ Connect \/ Disconnect \/ Write
           \/ GapCallback
           \/ GapLost \/ GapLostUnheard
           \/ GattWrite
           \/ HostSeesAdv \/ HostConnected \/ HostDisconnected \/ HostData
           \/ SetDataCallback
           \/ SendQueued

BleSpec == BleInit /\ [][BleNext]_bleVars
-----------------------------------------------------------------------------
(***************************************************************************)
(* When no call is in progress and neither a callback nor an event waits,  *)
(* the manager, its backend and the stack are in the same state; and each  *)
(* data event that waits for the host task stands for one message in the   *)
(* receive queue.  Unless since init an event or a message was lost, an    *)
(* event had no callback to go to, the stack refused to advertise or to    *)
(* stop (the manager stores its state in any case: ble_mgr.c), or a call   *)
(* and a callback or an event overtook each other.                         *)
(***************************************************************************)
BleInStep == ~slipped =>
  /\ asked = "none" /\ callbacks = << >> /\ event_mq = << >> =>
       /\ backend = manager
       /\ manager = [off |-> "disconnected", idle |-> "ready", advertising |-> "advertising",
                     connected |-> "connected"][stack]
  /\ rx = Cardinality({n \in DOMAIN event_mq : event_mq[n] = "data"})
=============================================================================
