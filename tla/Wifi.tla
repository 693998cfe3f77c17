------------------------------- MODULE Wifi -------------------------------
(***************************************************************************)
(* The WiFi driver of src/src/network/wifi.c over ESP-IDF.  wifi_state is  *)
(* written by the calls of the application, each after what it asks of     *)
(* ESP-IDF, and by the handler of ESP-IDF's events, which runs in a task   *)
(* of its own: an event may be handled before the call that caused it has  *)
(* stored its state.                                                       *)
(*                                                                         *)
(* ESP-IDF (external) is a radio with a mode, a link to an access point    *)
(* and a queue of events that it delivers in order.  The application makes *)
(* one call at a time.                                                     *)
(***************************************************************************)
EXTENDS Integers, Sequences

CONSTANT MaxRadioEvents  \* events waiting at once (a bound)

VARIABLES wifi_state, configured,
          wifiStore,     \* state the call in progress is about to store, or "none"
          radio,         \* "none" without init, then "idle", "sta" or "ap"
          joining, link, \* the station was shown to connect; is connected
          radioEvents,
          shown,          \* what the WiFi task last shown the status callback
          overtaken      \* history: a call began with events waiting, or one was
                         \* handled before the call had stored its state

wifiVars == <<wifi_state, configured, wifiStore, radio, joining, link, radioEvents, shown, overtaken>>

WifiInit == /\ wifi_state = "disconnected" /\ configured = FALSE
            /\ wifiStore = "none"
            /\ radio = "none" /\ joining = FALSE /\ link = FALSE
            /\ radioEvents = << >> /\ shown = "nothing" /\ overtaken = FALSE
-----------------------------------------------------------------------------
Posts(events) == /\ Len(radioEvents) + Len(events) <= MaxRadioEvents
                 /\ radioEvents' = radioEvents \o events

\* ESP-IDF: the events of leaving the present mode for another.
Leaving(mode) == IF radio = mode THEN << >>
                 ELSE CASE radio = "sta" -> IF link THEN <<"sta disconnected", "sta stop">> ELSE <<"sta stop">>
                        [] radio = "ap" -> <<"ap stop">>
                        [] OTHER -> << >>

Mode(mode, events) == /\ Posts(Leaving(mode) \o events)
                      /\ radio' = mode
                      /\ link' = (link /\ radio = mode)

\* A call that is let in does its part with ESP-IDF and stores its state later.
WifiCall(store) == /\ wifiStore = "none" /\ wifiStore' = store
                   /\ overtaken' = (overtaken \/ radioEvents # << >>)
                   /\ UNCHANGED <<wifi_state, configured, shown>>

WifiStarts == /\ radio = "none"
              /\ Mode("idle", << >>) /\ UNCHANGED joining
              /\ WifiCall("ready")

WifiDeinit == /\ radio # "none"
              /\ Mode("none", << >>) /\ joining' = FALSE
              /\ WifiCall("disconnected")

SetConfig == /\ wifiStore = "none"
             /\ configured' = TRUE
             /\ UNCHANGED <<wifi_state, wifiStore, radio, joining, link, radioEvents, shown, overtaken>>

WifiConnect == /\ wifi_state \in {"ready", "disconnected"} /\ configured /\ radio # "none"
               /\ Mode("sta", << >>) /\ joining' = TRUE
               /\ WifiCall("connecting")

\* esp_wifi_connect fails: the station stays started, the state as it was.
ConnectFails == /\ wifi_state \in {"ready", "disconnected"} /\ configured /\ radio # "none"
                /\ Mode("sta", << >>) /\ UNCHANGED joining
                /\ WifiCall("none")

WifiDisconnect == /\ wifi_state \in {"connected", "connecting"}
                  /\ Mode("idle", << >>) /\ joining' = FALSE
                  /\ WifiCall("disconnected")

StartAp == /\ radio # "none"
           /\ Mode("ap", IF radio = "ap" THEN << >> ELSE <<"ap start">>) /\ joining' = FALSE
           /\ WifiCall("ap")

StartApFails == /\ radio # "none"
                /\ Mode("idle", << >>) /\ joining' = FALSE
                /\ WifiCall("none")

StopAp == /\ wifi_state = "ap"
          /\ Mode("idle", << >>) /\ joining' = FALSE
          /\ WifiCall("ready")

\* The scan blocks: it is over, and its event posted, before the call goes on.
ScanStart == /\ wifi_state = "ready" /\ radio # "none"
             /\ Mode("sta", <<"scan done">>) /\ UNCHANGED joining
             /\ WifiCall("scanning")

WifiStored == /\ wifiStore # "none"
              /\ wifi_state' = wifiStore
              /\ wifiStore' = "none"
              /\ UNCHANGED <<configured, radio, joining, link, radioEvents, shown, overtaken>>
-----------------------------------------------------------------------------
\* The radio finds its access point, or loses it.
Joined == /\ radio = "sta" /\ joining /\ ~link
          /\ Posts(<<"sta connected">>)
          /\ link' = TRUE /\ joining' = FALSE
          /\ UNCHANGED <<wifi_state, configured, wifiStore, radio, shown, overtaken>>

Lost == /\ link
        /\ Posts(<<"sta disconnected">>)
        /\ link' = FALSE
        /\ UNCHANGED <<wifi_state, configured, wifiStore, radio, joining, shown, overtaken>>

StateOf == [event \in {"scan done", "sta stop", "ap stop", "sta connected", "sta disconnected", "ap start"} |->
              CASE event \in {"scan done", "sta stop", "ap stop"} -> "ready"
                [] event = "sta connected" -> "connected"
                [] event = "sta disconnected" -> "disconnected"
                [] event = "ap start" -> "ap"]

\* Mutant of EventHandled: the loss of the link is left to the WiFi task.
EventUnhandled == /\ radioEvents # << >>
                  /\ wifi_state' = IF Head(radioEvents) = "sta disconnected" THEN wifi_state
                                   ELSE StateOf[Head(radioEvents)]
                  /\ radioEvents' = Tail(radioEvents)
                  /\ overtaken' = (overtaken \/ wifiStore # "none")
                  /\ UNCHANGED <<configured, wifiStore, radio, joining, link, shown>>

EventHandled == /\ radioEvents # << >>
                /\ wifi_state' = StateOf[Head(radioEvents)]
                /\ radioEvents' = Tail(radioEvents)
                /\ overtaken' = (overtaken \/ wifiStore # "none")
                /\ UNCHANGED <<configured, wifiStore, radio, joining, link, shown>>

\* The WiFi task looks at the state and, when it is up, asks the driver.
TaskLooks == /\ wifi_state \in {"connected", "disconnected"}
             /\ shown' = IF wifi_state = "connected" THEN IF link THEN "link" ELSE "no link" ELSE "off"
             /\ UNCHANGED <<wifi_state, configured, wifiStore, radio, joining, link, radioEvents, overtaken>>

WifiNext == \/ WifiStarts
            \/ WifiDeinit
            \/ SetConfig
            \/ WifiConnect
            \/ ConnectFails
            \/ WifiDisconnect
            \/ StartAp
            \/ StartApFails
            \/ StopAp
            \/ ScanStart
            \/ WifiStored
            \/ Joined
            \/ Lost
            \/ EventHandled
            \/ TaskLooks

WifiSpec == WifiInit /\ [][WifiNext]_wifiVars
-----------------------------------------------------------------------------
(***************************************************************************)
(* When no call is in progress and no event waits, wifi_state tells the    *)
(* truth: connected with the link up and only then, AP mode with the       *)
(* access point up and only then; unless a call was ever made with events  *)
(* waiting or an event handled inside one.                                 *)
(***************************************************************************)
WifiStateTrue == wifiStore = "none" /\ radioEvents = << >> /\ ~overtaken =>
                   /\ wifi_state = "connected" <=> link
                   /\ wifi_state = "ap" <=> radio = "ap"
=============================================================================
