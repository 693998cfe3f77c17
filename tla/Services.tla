------------------------------ MODULE Services ------------------------------
(***************************************************************************)
(* The services above the scheduler side by side: message queue, timers,   *)
(* watchdog, log, sockets, HTTP client, WiFi, BLE, and the SPI and I2C     *)
(* drivers.  They share no state; a behaviour moves one part, picked in    *)
(* the initial state, and the others stay as they were initialised.        *)
(***************************************************************************)
EXTENDS MessageQueue, Timer, Watchdog, LogRing, Sockets, Http, Wifi, Ble, Buses

VARIABLE part

Parts == {"queue", "timers", "watchdog", "log", "sockets", "http", "wifi", "ble", "buses"}

driverVars == <<socketVars, httpVars, wifiVars, bleVars, busVars>>
utilVars == <<vars, timerVars, wdtVars, logVars>>
serviceVars == <<part, utilVars, driverVars>>

ServicesInit == /\ part \in Parts
                /\ Init /\ TimerInit /\ WdtInit /\ LogInit
                /\ SocketInit /\ HttpInit /\ WifiInit /\ BleInit /\ BusInit
                /\ part = "buses" \/ driver = "spi"

QueueMoves == part = "queue" /\ Next /\ UNCHANGED <<part, timerVars, wdtVars, logVars, driverVars>>
TimersMove == part = "timers" /\ TimerNext /\ UNCHANGED <<part, vars, wdtVars, logVars, driverVars>>

UtilMoves == /\ \/ part = "watchdog" /\ WdtNext /\ UNCHANGED logVars
                \/ part = "log" /\ LogNext /\ UNCHANGED wdtVars
             /\ UNCHANGED <<part, vars, timerVars, driverVars>>

DriverMoves ==
  /\ \/ part = "sockets" /\ SocketNext /\ UNCHANGED <<httpVars, wifiVars, bleVars, busVars>>
     \/ part = "http" /\ HttpNext /\ UNCHANGED <<socketVars, wifiVars, bleVars, busVars>>
     \/ part = "wifi" /\ WifiNext /\ UNCHANGED <<socketVars, httpVars, bleVars, busVars>>
     \/ part = "ble" /\ BleNext /\ UNCHANGED <<socketVars, httpVars, wifiVars, busVars>>
     \/ part = "buses" /\ BusNext /\ UNCHANGED <<socketVars, httpVars, wifiVars, bleVars>>
  /\ UNCHANGED <<part, utilVars>>

ServicesNext == QueueMoves \/ TimersMove \/ UtilMoves \/ DriverMoves

ServicesSpec == ServicesInit /\ [][ServicesNext]_serviceVars
=============================================================================
