---------------------------- MODULE DeviceProofs ----------------------------
(***************************************************************************)
(* What the drivers prove, each for any values of its constants: the SPI   *)
(* and I2C drivers (Buses), the WiFi driver (Wifi), and the BLE manager    *)
(* over its backend (Ble).                                                 *)
(***************************************************************************)
EXTENDS Buses, Wifi, Ble, FiniteSetTheorems, TLAPS

Devices == [bus : BusNumbers, speed : Speeds]
Opening == [step : {"take", "bring up"}, handle : Handles, to : Devices]
Serving == [step : {"free", "wire"}, handle : Handles]

BusTypes == /\ driver \in {"spi", "i2c"}
            /\ device \in [Handles -> SUBSET Devices]
            /\ \A h \in Handles : \A c, d \in device[h] : c = d
            /\ bus \in [BusNumbers -> Speeds \cup {0}]
            /\ selected \subseteq BusNumbers
            /\ doing \in [BusThreads -> {Idle} \cup Opening \cup Serving]
            /\ strayed \in BOOLEAN

Busy(t) == doing[t].step # "none"

\* A device that is open, and neither being opened nor being closed.
Settled(h) == /\ device[h] # {}
              /\ \A t \in BusThreads :
                    doing[t].step \in {"bring up", "free"} => doing[t].handle # h

(***************************************************************************)
(* As long as nothing strayed: a handle has one call, which finds its slot *)
(* as it left it; the buses that are up are those of the settled devices,  *)
(* one each, and the chips selected are those of the transfers.            *)
(***************************************************************************)
OneCall == \A t, u \in BusThreads :
             Busy(t) /\ Busy(u) /\ doing[t].handle = doing[u].handle => t = u

SlotStands == \A t \in BusThreads :
  /\ doing[t].step = "take" => device[doing[t].handle] = {}
  /\ doing[t].step = "bring up" => device[doing[t].handle] = {doing[t].to}
  /\ doing[t].step \in {"free", "wire"} => device[doing[t].handle] # {}

UpAsTold == \A h \in Handles : Settled(h) => \A d \in device[h] : bus[d.bus] = d.speed

OneEach == \A g, h \in Handles : Settled(g) /\ Settled(h) =>
             \A c \in device[g], d \in device[h] : c.bus = d.bus => g = h

UpForOne == \A b \in BusNumbers : bus[b] # 0 =>
              \E h \in Handles : Settled(h) /\ \E d \in device[h] : d.bus = b

SelectedExact == \A b \in BusNumbers : b \in selected <=>
  \E t \in BusThreads : /\ doing[t].step = "wire"
                        /\ \E d \in device[doing[t].handle] : d.bus = b

BusKnown == OneCall /\ SlotStands /\ UpAsTold /\ OneEach /\ UpForOne /\ SelectedExact

BusInv == BusTypes /\ (~strayed => BusKnown)
-----------------------------------------------------------------------------
\* What the shapes of calls are told apart by.
LEMMA CallShapes ==
  /\ Idle.step = "none"
  /\ \A c \in Opening : /\ c.step \in {"take", "bring up"} /\ c.handle \in Handles
                        /\ c.to \in Devices /\ c # Idle
  /\ \A c \in Serving : c.step \in {"free", "wire"} /\ c.handle \in Handles /\ c # Idle
<1>1. Idle.step = "none" BY DEF Idle
<1>2. ASSUME NEW c \in Opening
      PROVE  c.step \in {"take", "bring up"} /\ c.handle \in Handles /\ c.to \in Devices
  BY DEF Opening
<1>3. ASSUME NEW c \in Serving PROVE c.step \in {"free", "wire"} /\ c.handle \in Handles
  BY DEF Serving
<1>4. QED BY <1>1, <1>2, <1>3

LEMMA CallsTold ==
  ASSUME BusTypes, NEW t \in BusThreads
  PROVE  /\ doing[t] = Idle \/ doing[t] \in Opening \/ doing[t] \in Serving
         /\ doing[t].step = "none" <=> doing[t] = Idle
         /\ doing[t].step \in {"take", "bring up"} => doing[t] \in Opening
         /\ doing[t].step \in {"free", "wire"} => doing[t] \in Serving
         /\ doing[t].step \in {"none", "take", "bring up", "free", "wire"}
         /\ Busy(t) <=> t \in InCall
         /\ Busy(t) => doing[t].handle \in Handles
<1>1. doing[t] = Idle \/ doing[t] \in Opening \/ doing[t] \in Serving BY DEF BusTypes
<1>2. CASE doing[t] = Idle BY <1>2, CallShapes DEF Busy, InCall
<1>3. CASE doing[t] \in Opening BY <1>3, CallShapes DEF Busy, InCall
<1>4. CASE doing[t] \in Serving BY <1>4, CallShapes DEF Busy, InCall
<1>5. QED BY <1>1, <1>2, <1>3, <1>4

\* The one device of a slot is what Bus looks at.
LEMMA BusOfDevice ==
  ASSUME BusTypes, NEW h \in Handles, device[h] # {}
  PROVE  /\ \E d \in Devices : device[h] = {d} /\ Bus(h) = d.bus
         /\ Bus(h) \in BusNumbers
<1>1. PICK d \in device[h] : TRUE OBVIOUS
<1>2. d \in Devices /\ device[h] = {d} BY <1>1 DEF BusTypes
<1>3. (CHOOSE e \in device[h] : TRUE) = d BY <1>2
<1>4. QED BY <1>2, <1>3 DEF Bus, Devices

LEMMA DoesTyped ==
  ASSUME BusTypes, NEW t \in BusThreads, NEW call \in {Idle} \cup Opening \cup Serving,
         Does(t, call)
  PROVE  /\ doing' \in [BusThreads -> {Idle} \cup Opening \cup Serving]
         /\ doing'[t] = call
         /\ \A u \in BusThreads : u # t => doing'[u] = doing[u]
BY DEF BusTypes, Does

LEMMA StrayTold ==
  ASSUME BusTypes, NEW if \in BOOLEAN, Stray(if)
  PROVE  strayed' \in BOOLEAN /\ (~strayed' => ~strayed /\ ~if)
BY DEF BusTypes, Stray

LEMMA SlotWritten ==
  ASSUME BusTypes, NEW h \in Handles, NEW D \in SUBSET Devices, \A c, d \in D : c = d,
         device' = [device EXCEPT ![h] = D]
  PROVE  /\ device' \in [Handles -> SUBSET Devices]
         /\ \A g \in Handles : \A c, d \in device'[g] : c = d
         /\ device'[h] = D
         /\ \A g \in Handles : g # h => device'[g] = device[g]
BY DEF BusTypes

LEMMA SpeedSet ==
  ASSUME BusTypes, NEW b \in BusNumbers, NEW v \in Speeds \cup {0}, Sets(b, v)
  PROVE  /\ bus' \in [BusNumbers -> Speeds \cup {0}]
         /\ bus'[b] = v
         /\ \A c \in BusNumbers : c # b => bus'[c] = bus[c]
BY DEF BusTypes, Sets
-----------------------------------------------------------------------------
(***************************************************************************)
(* A step is about one thread and one handle: the other threads and the    *)
(* other handles are as they were, and so is what is settled elsewhere.    *)
(***************************************************************************)
About(t, h) == /\ \A u \in BusThreads : u # t => doing'[u] = doing[u]
               /\ \A g \in Handles : g # h => device'[g] = device[g]
               /\ doing[t].step # "none" => doing[t].handle = h
               /\ doing'[t].step # "none" => doing'[t].handle = h

LEMMA SettledElsewhere ==
  ASSUME NEW t \in BusThreads, NEW h \in Handles, About(t, h)
  PROVE  \A g \in Handles : g # h => (Settled(g)' <=> Settled(g))
<1> SUFFICES ASSUME NEW g \in Handles, g # h PROVE Settled(g)' <=> Settled(g)
  OBVIOUS
<1>1. device'[g] = device[g] BY DEF About
<1>2. ASSUME NEW u \in BusThreads
      PROVE  (doing'[u].step \in {"bring up", "free"} => doing'[u].handle # g)
               <=> (doing[u].step \in {"bring up", "free"} => doing[u].handle # g)
  <2>1. CASE u = t BY <2>1 DEF About
  <2>2. CASE u # t BY <2>2 DEF About
  <2>3. QED BY <2>1, <2>2
<1>3. QED BY <1>1, <1>2 DEF Settled

\* A thread that is in no call takes up one on a handle without a call.
LEMMA OneCallKept ==
  ASSUME OneCall, NEW t \in BusThreads, NEW h, About(t, h),
         \A u \in BusThreads \ {t} : Busy(u) => doing[u].handle # h
  PROVE  OneCall'
BY DEF OneCall, Busy, About

\* Whoever is in a call of its own on a handle is the only one there.
LEMMA Alone ==
  ASSUME OneCall, NEW t \in BusThreads, Busy(t)
  PROVE  \A u \in BusThreads \ {t} : Busy(u) => doing[u].handle # doing[t].handle
BY DEF OneCall

LEMMA SlotStandsAgain ==
  ASSUME BusTypes, SlotStands, NEW t \in BusThreads, NEW h, About(t, h),
         \A u \in BusThreads \ {t} : Busy(u) => doing[u].handle # h,
         doing'[t].step = "take" => device'[doing'[t].handle] = {},
         doing'[t].step = "bring up" => device'[doing'[t].handle] = {doing'[t].to},
         doing'[t].step \in {"free", "wire"} => device'[doing'[t].handle] # {}
  PROVE  SlotStands'
<1>1. ASSUME NEW u \in BusThreads, u # t, doing[u].step # "none"
      PROVE  doing'[u] = doing[u] /\ device'[doing[u].handle] = device[doing[u].handle]
  <2>1. doing[u].handle \in Handles /\ doing[u].handle # h BY <1>1, CallsTold DEF Busy
  <2>2. QED BY <1>1, <2>1 DEF About
<1>2. ASSUME NEW u \in BusThreads, u # t
      PROVE  /\ doing'[u].step = "take" => device'[doing'[u].handle] = {}
             /\ doing'[u].step = "bring up" => device'[doing'[u].handle] = {doing'[u].to}
             /\ doing'[u].step \in {"free", "wire"} => device'[doing'[u].handle] # {}
  <2>1. doing'[u] = doing[u] BY <1>2 DEF About
  <2>2. CASE doing[u].step = "none" BY <2>1, <2>2
  <2>3. CASE doing[u].step # "none"
    <3>1. device'[doing'[u].handle] = device[doing[u].handle] BY <1>1, <1>2, <2>3
    <3>2. QED BY <2>1, <3>1 DEF SlotStands
  <2>4. QED BY <2>2, <2>3
<1>3. QED
  <2>1. ASSUME NEW u \in BusThreads
        PROVE  /\ doing'[u].step = "take" => device'[doing'[u].handle] = {}
               /\ doing'[u].step = "bring up" => device'[doing'[u].handle] = {doing'[u].to}
               /\ doing'[u].step \in {"free", "wire"} => device'[doing'[u].handle] # {}
    BY <1>2
  <2>2. QED BY <2>1 DEF SlotStands

\* The transfers of the other threads keep their device.
LEMMA WiresElsewhere ==
  ASSUME BusTypes, NEW t \in BusThreads, NEW h, About(t, h),
         \A u \in BusThreads \ {t} : Busy(u) => doing[u].handle # h
  PROVE  \A u \in BusThreads \ {t} :
           /\ doing'[u] = doing[u]
           /\ doing[u].step = "wire" => device'[doing[u].handle] = device[doing[u].handle]
<1> SUFFICES ASSUME NEW u \in BusThreads \ {t}, doing[u].step = "wire"
             PROVE  device'[doing[u].handle] = device[doing[u].handle]
  BY DEF About
<1>1. doing[u].handle \in Handles /\ doing[u].handle # h BY CallsTold DEF Busy
<1>2. QED BY <1>1 DEF About

\* ... and the selected chips with them, when t is in no transfer.
LEMMA SelectedKept ==
  ASSUME BusTypes, SelectedExact, NEW t \in BusThreads, NEW h, About(t, h),
         \A u \in BusThreads \ {t} : Busy(u) => doing[u].handle # h,
         doing[t].step # "wire", doing'[t].step # "wire", selected' = selected
  PROVE  SelectedExact'
<1> SUFFICES ASSUME NEW b \in BusNumbers
             PROVE  b \in selected <=> \E u \in BusThreads :
                       doing'[u].step = "wire" /\ \E d \in device'[doing'[u].handle] : d.bus = b
  BY DEF SelectedExact
<1>1. \A u \in BusThreads : \/ u = t
                             \/ /\ doing'[u] = doing[u]
                                /\ doing[u].step = "wire" =>
                                     device'[doing[u].handle] = device[doing[u].handle]
  BY WiresElsewhere
<1>2. QED BY <1>1 DEF SelectedExact

\* A handle that is not settled, before and after, is of no matter to the buses.
LEMMA UpKept ==
  ASSUME UpAsTold, OneEach, UpForOne, NEW t \in BusThreads, NEW h \in Handles, About(t, h),
         ~Settled(h), ~Settled(h)', bus' = bus
  PROVE  UpAsTold' /\ OneEach' /\ UpForOne'
<1>1. \A g \in Handles : /\ Settled(g)' <=> Settled(g)
                         /\ Settled(g) => device'[g] = device[g]
  BY SettledElsewhere DEF About
<1>2. UpAsTold' BY <1>1 DEF UpAsTold
<1>3. OneEach' BY <1>1 DEF OneEach
<1>4. UpForOne' BY <1>1 DEF UpForOne
<1>5. QED BY <1>2, <1>3, <1>4
-----------------------------------------------------------------------------
LEMMA DriverInitInv == ASSUME BusInv, DriverInit PROVE BusInv'
<1>1. BusTypes BY DEF BusInv
<1>2. strayed' \in BOOLEAN
      /\ (~strayed' => ~strayed /\ InCall = {} /\ \A h \in Handles : device[h] = {})
  BY <1>1, StrayTold DEF DriverInit
<1>3. \A h \in Handles : device'[h] = {} BY DEF DriverInit
<1>4. BusTypes' BY <1>1, <1>2 DEF DriverInit, BusTypes
<1>5. ASSUME ~strayed' PROVE BusKnown'
  <2>1. BusKnown /\ \A t \in BusThreads : doing[t].step = "none" /\ ~Busy(t)
    <3>1. ASSUME NEW t \in BusThreads PROVE ~Busy(t) BY <1>1, <1>2, <1>5, CallsTold
    <3>2. QED BY <1>2, <1>5, <3>1 DEF BusInv, Busy
  <2>2. \A h \in Handles : ~Settled(h) /\ ~Settled(h)' BY <1>2, <1>3, <1>5 DEF Settled
  <2>3. OneCall' BY <2>1 DEF DriverInit, OneCall, Busy
  <2>4. SlotStands' BY <2>1 DEF DriverInit, SlotStands
  <2>5. UpAsTold' /\ OneEach' BY <2>2 DEF UpAsTold, OneEach
  <2>6. UpForOne' BY <2>1, <2>2 DEF DriverInit, UpForOne, BusKnown
  <2>7. SelectedExact' BY <2>1 DEF DriverInit, SelectedExact, BusKnown
  <2>8. QED BY <2>3, <2>4, <2>5, <2>6, <2>7 DEF BusKnown
<1>6. QED BY <1>4, <1>5 DEF BusInv

LEMMA OpenFindsInv ==
  ASSUME BusInv, NEW t \in BusThreads, NEW b \in BusNumbers, NEW v \in Speeds,
         OpenFinds(t, b, v)
  PROVE  BusInv'
<1> DEFINE call(h) == [step |-> "take", handle |-> h, to |-> [bus |-> b, speed |-> v]]
<1>1. BusTypes BY DEF BusInv
<1>2. PICK h \in Handles : /\ device[h] = {} /\ Does(t, call(h))
                           /\ Stray(Among(t, {"take"}, h) # {})
  BY DEF OpenFinds
<1>3. call(h) \in Opening /\ call(h).step = "take" /\ call(h).handle = h
  BY DEF Opening, Devices
<1>4. /\ doing' \in [BusThreads -> {Idle} \cup Opening \cup Serving]
      /\ doing'[t].step = "take" /\ doing'[t].handle = h
      /\ \A u \in BusThreads : u # t => doing'[u] = doing[u]
  BY <1>1, <1>2, <1>3, DoesTyped
<1>5. /\ strayed' \in BOOLEAN
      /\ ~strayed' => ~strayed /\ \A u \in BusThreads \ {t} :
                         Busy(u) /\ doing[u].step = "take" => doing[u].handle # h
  <2>1. \A u \in BusThreads : Busy(u) <=> u \in InCall BY <1>1, CallsTold
  <2>2. QED BY <1>1, <1>2, <2>1, StrayTold DEF Among
<1>6. doing[t] = Idle /\ doing[t].step = "none" BY CallShapes DEF OpenFinds
<1>7. UNCHANGED <<driver, device, bus, selected>> BY DEF OpenFinds
<1>8. BusTypes' BY <1>1, <1>4, <1>5, <1>7 DEF BusTypes
<1>9. ASSUME ~strayed' PROVE BusKnown'
  <2>1. BusKnown BY <1>5, <1>9 DEF BusInv
  <2>2. About(t, h) BY <1>4, <1>6, <1>7 DEF About
  <2>3. \A u \in BusThreads \ {t} : Busy(u) => doing[u].handle # h
    <3>1. ASSUME NEW u \in BusThreads \ {t}, Busy(u) PROVE doing[u].handle # h
      <4>1. doing[u].step \in {"take", "bring up", "free", "wire"}
        BY <1>1, <3>1, CallsTold DEF Busy
      <4>2. CASE doing[u].step = "take" BY <1>5, <1>9, <3>1, <4>2
      <4>3. CASE doing[u].step # "take" BY <1>2, <2>1, <4>1, <4>3 DEF BusKnown, SlotStands
      <4>4. QED BY <4>2, <4>3
    <3>2. QED BY <3>1
  <2>4. OneCall' BY <2>1, <2>2, <2>3, OneCallKept DEF BusKnown
  <2>5. SlotStands'
    <3>1. SlotStands BY <2>1 DEF BusKnown
    <3>2. device'[doing'[t].handle] = {} BY <1>2, <1>4, <1>7
    <3>3. QED BY <1>1, <1>4, <2>2, <2>3, <3>1, <3>2, SlotStandsAgain
  <2>6. ~Settled(h) /\ ~Settled(h)' BY <1>2, <1>7 DEF Settled
  <2>7. UpAsTold' /\ OneEach' /\ UpForOne'
    BY <1>7, <2>1, <2>2, <2>6, UpKept DEF BusKnown
  <2>8. SelectedExact'
    BY <1>1, <1>4, <1>6, <1>7, <2>1, <2>2, <2>3, SelectedKept DEF BusKnown
  <2>9. QED BY <2>4, <2>5, <2>7, <2>8 DEF BusKnown
<1>10. QED BY <1>8, <1>9 DEF BusInv

LEMMA OpenTakesInv == ASSUME BusInv, NEW t \in BusThreads, OpenTakes(t) PROVE BusInv'
<1>1. BusTypes /\ doing[t].step = "take" BY DEF BusInv, OpenTakes
<1>2. doing[t] \in Opening BY <1>1, CallsTold
<1>2a. PICK h \in Handles, d \in Devices : doing[t].handle = h /\ doing[t].to = d
  BY <1>2, CallShapes
<1> DEFINE call == [doing[t] EXCEPT !.step = "bring up"]
<1>3. call \in Opening /\ call.step = "bring up" /\ call.handle = h /\ call.to = d
  BY <1>2, <1>2a DEF Opening
<1>4. /\ device' \in [Handles -> SUBSET Devices]
      /\ \A g \in Handles : \A e, f \in device'[g] : e = f
      /\ device'[h] = {d} /\ \A g \in Handles : g # h => device'[g] = device[g]
  <2>1. {d} \in SUBSET Devices /\ \A e, f \in {d} : e = f OBVIOUS
  <2>2. device' = [device EXCEPT ![h] = {d}] BY <1>2a DEF OpenTakes
  <2>3. QED BY <1>1, <2>1, <2>2, SlotWritten
<1>5. /\ doing' \in [BusThreads -> {Idle} \cup Opening \cup Serving]
      /\ doing'[t].step = "bring up" /\ doing'[t].handle = h /\ doing'[t].to = d
      /\ \A u \in BusThreads : u # t => doing'[u] = doing[u]
  <2>1. Does(t, call) BY DEF OpenTakes
  <2>2. QED BY <1>1, <1>3, <2>1, DoesTyped
<1>6. UNCHANGED <<driver, bus, selected, strayed>> BY DEF OpenTakes
<1>7. BusTypes' BY <1>1, <1>4, <1>5, <1>6 DEF BusTypes
<1> HIDE DEF call
<1>8. ASSUME ~strayed' PROVE BusKnown'
  <2>1. BusKnown BY <1>6, <1>8 DEF BusInv
  <2>2. About(t, h) BY <1>2a, <1>4, <1>5 DEF About
  <2>3. Busy(t) BY <1>1 DEF Busy
  <2>4. \A u \in BusThreads \ {t} : Busy(u) => doing[u].handle # h
    BY <1>2a, <2>1, <2>3, Alone DEF BusKnown
  <2>5. OneCall' BY <2>1, <2>2, <2>4, OneCallKept DEF BusKnown
  <2>6. SlotStands'
    <3>1. SlotStands BY <2>1 DEF BusKnown
    <3>2. device'[doing'[t].handle] = {doing'[t].to} BY <1>4, <1>5
    <3>3. QED BY <1>1, <1>5, <2>2, <2>4, <3>1, <3>2, SlotStandsAgain
  <2>7. ~Settled(h) /\ ~Settled(h)'
    <3>1. device[h] = {} BY <1>1, <1>2a, <2>1 DEF BusKnown, SlotStands
    <3>2. QED BY <1>5, <3>1 DEF Settled
  <2>8. UpAsTold' /\ OneEach' /\ UpForOne'
    BY <1>6, <2>1, <2>2, <2>7, UpKept DEF BusKnown
  <2>9. SelectedExact'
    BY <1>1, <1>5, <1>6, <2>1, <2>2, <2>4, SelectedKept DEF BusKnown
  <2>10. QED BY <2>5, <2>6, <2>8, <2>9 DEF BusKnown
<1>9. QED BY <1>7, <1>8 DEF BusInv

LEMMA IdleTyped ==
  ASSUME BusTypes, NEW t \in BusThreads, Does(t, Idle)
  PROVE  /\ doing' \in [BusThreads -> {Idle} \cup Opening \cup Serving]
         /\ doing'[t].step = "none"
         /\ \A u \in BusThreads : u # t => doing'[u] = doing[u]
BY DoesTyped, CallShapes

\* The handle and the device of a call that opens, the handle of one that serves.
LEMMA OpenerTold ==
  ASSUME BusTypes, NEW t \in BusThreads, doing[t].step = "bring up"
  PROVE  \E h \in Handles, d \in Devices : doing[t].handle = h /\ doing[t].to = d
BY CallsTold, CallShapes

LEMMA OpenWorksInv == ASSUME BusInv, NEW t \in BusThreads, OpenWorks(t) PROVE BusInv'
<1>1. BusTypes /\ doing[t].step = "bring up" BY DEF BusInv, OpenWorks
<1>2. PICK h \in Handles, d \in Devices : doing[t].handle = h /\ doing[t].to = d
  BY <1>1, OpenerTold
<1>3. d.bus \in BusNumbers /\ d.speed \in Speeds BY DEF Devices
<1>4. /\ bus' \in [BusNumbers -> Speeds \cup {0}] /\ bus'[d.bus] = d.speed
      /\ \A b \in BusNumbers : b # d.bus => bus'[b] = bus[b]
      /\ bus[d.bus] = 0
  <2>1. Sets(d.bus, d.speed) /\ bus[d.bus] = 0 BY <1>2 DEF OpenWorks, SpiUp, I2cUp
  <2>2. QED BY <1>1, <1>3, <2>1, SpeedSet
<1>5. UNCHANGED <<driver, device, selected, strayed>> BY DEF OpenWorks
<1>6. /\ doing' \in [BusThreads -> {Idle} \cup Opening \cup Serving]
      /\ doing'[t].step = "none" /\ \A u \in BusThreads : u # t => doing'[u] = doing[u]
  BY <1>1, IdleTyped DEF OpenWorks
<1>7. BusTypes' BY <1>1, <1>4, <1>5, <1>6 DEF BusTypes
<1>8. ASSUME ~strayed' PROVE BusKnown'
  <2>1. BusKnown BY <1>5, <1>8 DEF BusInv
  <2>2. About(t, h) BY <1>2, <1>5, <1>6 DEF About
  <2>3. Busy(t) BY <1>1 DEF Busy
  <2>4. \A u \in BusThreads \ {t} : Busy(u) => doing[u].handle # h
    BY <1>2, <2>1, <2>3, Alone DEF BusKnown
  <2>5. device[h] = {d} BY <1>1, <1>2, <2>1 DEF BusKnown, SlotStands
  <2>6. ~Settled(h) /\ Settled(h)'
    <3>1. ~Settled(h) BY <1>1, <1>2 DEF Settled
    <3>2. ASSUME NEW u \in BusThreads, doing'[u].step \in {"bring up", "free"}
          PROVE  doing'[u].handle # h
      BY <1>6, <2>4, <3>2 DEF Busy
    <3>3. QED BY <1>5, <2>5, <3>1, <3>2 DEF Settled
  <2>7. \A g \in Handles : g # h => (Settled(g)' <=> Settled(g)) BY <2>2, SettledElsewhere
  <2>8. \A g \in Handles : Settled(g) => \A c \in device[g] : c.bus # d.bus /\ c \in Devices
    <3>1. ASSUME NEW g \in Handles, Settled(g), NEW c \in device[g]
          PROVE  c.bus # d.bus /\ c \in Devices
      <4>1. c \in Devices /\ c.bus \in BusNumbers /\ c.speed \in Speeds
        <5>1. device[g] \in SUBSET Devices BY <1>1 DEF BusTypes
        <5>2. c \in Devices BY <3>1, <5>1
        <5>3. QED BY <5>2 DEF Devices
      <4>2. bus[c.bus] = c.speed BY <2>1, <3>1 DEF BusKnown, UpAsTold
      <4>3. QED BY <1>4, <4>1, <4>2, SpeedsAssumption
    <3>2. QED BY <3>1
  <2>9. UpAsTold'
    <3>1. ASSUME NEW g \in Handles, Settled(g)', NEW c \in device[g] PROVE bus'[c.bus] = c.speed
      <4>1. CASE g = h BY <1>4, <2>5, <4>1
      <4>2. CASE g # h
        <5>1. Settled(g) BY <2>7, <3>1, <4>2
        <5>2. c.bus # d.bus /\ c.bus \in BusNumbers BY <2>8, <5>1 DEF Devices
        <5>3. QED BY <1>4, <2>1, <5>1, <5>2 DEF BusKnown, UpAsTold
      <4>3. QED BY <4>1, <4>2
    <3>2. QED BY <1>5, <3>1 DEF UpAsTold
  <2>10. OneEach'
    <3>1. OneEach BY <2>1 DEF BusKnown
    <3>2. ASSUME NEW f \in Handles, NEW g \in Handles, Settled(f)', Settled(g)',
                 NEW b \in device[f], NEW c \in device[g], b.bus = c.bus
          PROVE  f = g
      <4>1. CASE f = h /\ g # h BY <2>5, <2>7, <2>8, <3>2, <4>1
      <4>2. CASE f # h /\ g = h BY <2>5, <2>7, <2>8, <3>2, <4>2
      <4>3. CASE f # h /\ g # h BY <2>7, <3>1, <3>2, <4>3 DEF OneEach
      <4>4. QED BY <4>1, <4>2, <4>3
    <3>3. QED BY <1>5, <3>2 DEF OneEach
  <2>11. UpForOne'
    <3>1. ASSUME NEW b \in BusNumbers, bus'[b] # 0
          PROVE  \E g \in Handles : Settled(g)' /\ \E c \in device[g] : c.bus = b
      <4>1. CASE b = d.bus BY <2>5, <2>6, <4>1
      <4>2. CASE b # d.bus
        <5>1. PICK g \in Handles : Settled(g) /\ \E c \in device[g] : c.bus = b
          BY <1>4, <2>1, <3>1, <4>2 DEF BusKnown, UpForOne
        <5>2. g # h BY <2>6, <5>1
        <5>3. QED BY <2>7, <5>1, <5>2
      <4>3. QED BY <4>1, <4>2
    <3>2. QED BY <1>5, <3>1 DEF UpForOne
  <2>12. OneCall' BY <2>1, <2>2, <2>4, OneCallKept DEF BusKnown
  <2>13. SlotStands' BY <1>1, <1>6, <2>1, <2>2, <2>4, SlotStandsAgain DEF BusKnown
  <2>14. SelectedExact'
    BY <1>1, <1>5, <1>6, <2>1, <2>2, <2>4, SelectedKept DEF BusKnown
  <2>15. QED BY <2>9, <2>10, <2>11, <2>12, <2>13, <2>14 DEF BusKnown
<1>9. QED BY <1>7, <1>8 DEF BusInv

\* A call ends on a slot it clears, which was not settled.
LEMMA SlotCleared ==
  ASSUME BusTypes, BusKnown, NEW t \in BusThreads, NEW h \in Handles,
         doing[t].handle = h, doing[t].step \in {"bring up", "free"},
         device' = [device EXCEPT ![h] = {}], Does(t, Idle), UNCHANGED <<bus, selected>>
  PROVE  BusKnown'
<1>1. device'[h] = {} /\ \A g \in Handles : g # h => device'[g] = device[g]
  <2>1. device \in [Handles -> SUBSET Devices] BY DEF BusTypes
  <2>2. QED BY <2>1
<1>2. doing'[t].step = "none" /\ \A u \in BusThreads : u # t => doing'[u] = doing[u]
  BY IdleTyped
<1>3. About(t, h) BY <1>1, <1>2 DEF About
<1>4. \A u \in BusThreads \ {t} : Busy(u) => doing[u].handle # h
  <2>1. Busy(t) BY DEF Busy
  <2>2. QED BY <2>1, Alone DEF BusKnown
<1>5. ~Settled(h) /\ ~Settled(h)' BY <1>1 DEF Settled
<1>6. UpAsTold' /\ OneEach' /\ UpForOne' BY <1>3, <1>5, UpKept DEF BusKnown
<1>7. OneCall' BY <1>3, <1>4, OneCallKept DEF BusKnown
<1>8. SlotStands' BY <1>2, <1>3, <1>4, SlotStandsAgain DEF BusKnown
<1>9. SelectedExact' BY <1>2, <1>3, <1>4, SelectedKept DEF BusKnown
<1>10. QED BY <1>6, <1>7, <1>8, <1>9 DEF BusKnown

LEMMA OpenFailsInv == ASSUME BusInv, NEW t \in BusThreads, OpenFails(t) PROVE BusInv'
<1>1. BusTypes /\ doing[t].step = "bring up" BY DEF BusInv, OpenFails
<1>2. PICK h \in Handles, d \in Devices : doing[t].handle = h /\ doing[t].to = d
  BY <1>1, OpenerTold
<1>3. d.bus \in BusNumbers /\ d.speed \in Speeds BY DEF Devices
<1>4. /\ bus' \in [BusNumbers -> Speeds \cup {0}] /\ strayed' \in BOOLEAN
      /\ ~strayed' => ~strayed /\ bus' = bus
  <2>1. CASE UNCHANGED <<bus, strayed>> BY <1>1, <2>1 DEF BusTypes
  <2>2. CASE Sets(d.bus, d.speed) /\ strayed' = TRUE BY <1>1, <1>3, <2>2, SpeedSet
  <2>3. QED BY <1>2, <2>1, <2>2 DEF OpenFails, SpiFails, I2cFails
<1>5. device' = [device EXCEPT ![h] = {}] /\ Does(t, Idle) /\ UNCHANGED <<driver, selected>>
  BY <1>2 DEF OpenFails
<1>6. /\ device' \in [Handles -> SUBSET Devices]
      /\ \A g \in Handles : \A c, e \in device'[g] : c = e
  BY <1>1, <1>5, SlotWritten
<1>7. doing' \in [BusThreads -> {Idle} \cup Opening \cup Serving] BY <1>1, <1>5, IdleTyped
<1>8. BusTypes' BY <1>1, <1>4, <1>5, <1>6, <1>7 DEF BusTypes
<1>9. ASSUME ~strayed' PROVE BusKnown'
  BY <1>1, <1>2, <1>4, <1>5, <1>9, SlotCleared DEF BusInv
<1>10. QED BY <1>8, <1>9 DEF BusInv

LEMMA CloseFreesInv == ASSUME BusInv, NEW t \in BusThreads, CloseFrees(t) PROVE BusInv'
<1>1. BusTypes /\ doing[t].step = "free" BY DEF BusInv, CloseFrees
<1>2. PICK h \in Handles : doing[t].handle = h BY <1>1, CallsTold, CallShapes
<1>3. /\ device' = [device EXCEPT ![h] = {}] /\ Does(t, Idle)
      /\ UNCHANGED <<driver, bus, selected, strayed>>
  BY <1>2 DEF CloseFrees
<1>4. /\ device' \in [Handles -> SUBSET Devices]
      /\ \A g \in Handles : \A c, e \in device'[g] : c = e
  BY <1>1, <1>3, SlotWritten
<1>5. doing' \in [BusThreads -> {Idle} \cup Opening \cup Serving] BY <1>1, <1>3, IdleTyped
<1>6. BusTypes' BY <1>1, <1>3, <1>4, <1>5 DEF BusTypes
<1>7. ASSUME ~strayed' PROVE BusKnown'
  BY <1>1, <1>2, <1>3, <1>7, SlotCleared DEF BusInv
<1>8. QED BY <1>6, <1>7 DEF BusInv
-----------------------------------------------------------------------------
\* Whoever holds a handle, and does not share it, finds it settled.
LEMMA HeldSettled ==
  ASSUME BusTypes, SlotStands, NEW t \in BusThreads, NEW h \in Handles,
         Held(t, h), ~Shared(t, h)
  PROVE  /\ doing[t].step = "none" /\ Settled(h)
         /\ \A u \in BusThreads \ {t} : Busy(u) => doing[u].handle # h
<1>1. doing[t].step = "none" /\ device[h] # {} BY CallShapes DEF Held
<1>2. \A u \in BusThreads \ {t} :
        Busy(u) /\ doing[u].step \in {"bring up", "free", "wire"} => doing[u].handle # h
  <2>1. \A u \in BusThreads : Busy(u) <=> u \in InCall BY CallsTold
  <2>2. QED BY <2>1 DEF Held, Shared, Among
<1>3. ASSUME NEW u \in BusThreads \ {t}, Busy(u) PROVE doing[u].handle # h
  <2>1. doing[u].step \in {"take", "bring up", "free", "wire"} BY <1>3, CallsTold DEF Busy
  <2>2. CASE doing[u].step = "take" BY <1>1, <2>2 DEF SlotStands
  <2>3. CASE doing[u].step # "take" BY <1>2, <1>3, <2>1, <2>3
  <2>4. QED BY <2>2, <2>3
<1>4. Settled(h)
  <2>1. ASSUME NEW u \in BusThreads, doing[u].step \in {"bring up", "free"}
        PROVE  doing[u].handle # h
    BY <1>1, <1>3, <2>1 DEF Busy
  <2>2. QED BY <1>1, <2>1 DEF Settled
<1>5. QED BY <1>1, <1>3, <1>4

LEMMA CloseTakesDownInv ==
  ASSUME BusInv, NEW t \in BusThreads, NEW h \in Handles, CloseTakesDown(t, h)
  PROVE  BusInv'
<1> DEFINE call == [step |-> "free", handle |-> h]
<1>1. BusTypes /\ device[h] # {} BY DEF BusInv, CloseTakesDown, Held
<1>2. PICK d \in Devices : device[h] = {d} /\ Bus(h) = d.bus BY <1>1, BusOfDevice
<1>3. d.bus \in BusNumbers BY DEF Devices
<1>4. /\ bus' \in [BusNumbers -> Speeds \cup {0}] /\ bus'[d.bus] = 0
      /\ \A b \in BusNumbers : b # d.bus => bus'[b] = bus[b]
  <2>1. Sets(d.bus, 0) BY <1>2 DEF CloseTakesDown, SpiDown, I2cDown
  <2>2. QED BY <1>1, <1>3, <2>1, SpeedSet
<1>5. UNCHANGED <<driver, device, selected>> BY DEF CloseTakesDown
<1>6. call \in Serving /\ call.step = "free" /\ call.handle = h BY DEF Serving
<1>7. /\ doing' \in [BusThreads -> {Idle} \cup Opening \cup Serving]
      /\ doing'[t].step = "free" /\ doing'[t].handle = h
      /\ \A u \in BusThreads : u # t => doing'[u] = doing[u]
  BY <1>1, <1>6, DoesTyped DEF CloseTakesDown
<1>8. strayed' \in BOOLEAN /\ (~strayed' => ~strayed /\ ~Shared(t, h))
  <2>1. Shared(t, h) \in BOOLEAN BY DEF Shared
  <2>2. QED BY <1>1, <2>1, StrayTold DEF CloseTakesDown
<1>9. BusTypes' BY <1>1, <1>4, <1>5, <1>7, <1>8 DEF BusTypes
<1>10. ASSUME ~strayed' PROVE BusKnown'
  <2>1. BusKnown /\ ~Shared(t, h) BY <1>8, <1>10 DEF BusInv
  <2>2. /\ doing[t].step = "none" /\ Settled(h)
        /\ \A u \in BusThreads \ {t} : Busy(u) => doing[u].handle # h
    BY <1>1, <2>1, HeldSettled DEF BusKnown, CloseTakesDown
  <2>3. About(t, h) BY <1>5, <1>7, <2>2 DEF About
  <2>4. ~Settled(h)' BY <1>7 DEF Settled
  <2>5. \A g \in Handles : Settled(g)' =>
           /\ g # h /\ Settled(g)
           /\ \A c \in device[g] : c.bus # d.bus /\ c.bus \in BusNumbers
    <3>1. ASSUME NEW g \in Handles, Settled(g)' PROVE g # h /\ Settled(g)
      BY <2>3, <2>4, <3>1, SettledElsewhere
    <3>2. ASSUME NEW g \in Handles, Settled(g)', NEW c \in device[g] PROVE c.bus # d.bus
      BY <1>2, <2>1, <2>2, <3>1, <3>2 DEF BusKnown, OneEach
    <3>3. ASSUME NEW g \in Handles, NEW c \in device[g] PROVE c.bus \in BusNumbers
      <4>1. device[g] \in SUBSET Devices BY <1>1 DEF BusTypes
      <4>2. c \in Devices BY <4>1
      <4>3. QED BY <4>2 DEF Devices
    <3>4. QED BY <3>1, <3>2, <3>3
  <2>6. UpAsTold' BY <1>4, <1>5, <2>1, <2>5 DEF BusKnown, UpAsTold
  <2>7. OneEach' BY <1>5, <2>1, <2>5 DEF BusKnown, OneEach
  <2>8. UpForOne'
    <3>1. ASSUME NEW b \in BusNumbers, bus'[b] # 0
          PROVE  \E g \in Handles : Settled(g)' /\ \E c \in device[g] : c.bus = b
      <4>1. b # d.bus /\ bus[b] # 0 BY <1>4, <3>1
      <4>2. PICK g \in Handles : Settled(g) /\ \E c \in device[g] : c.bus = b
        BY <2>1, <4>1 DEF BusKnown, UpForOne
      <4>3. g # h BY <1>2, <4>1, <4>2
      <4>4. Settled(g)' BY <2>3, <4>2, <4>3, SettledElsewhere
      <4>5. QED BY <4>2, <4>4
    <3>2. QED BY <1>5, <3>1 DEF UpForOne
  <2>9. OneCall' BY <2>1, <2>2, <2>3, OneCallKept DEF BusKnown
  <2>10. SlotStands'
    <3>1. device'[doing'[t].handle] # {} BY <1>1, <1>5, <1>7
    <3>2. QED BY <1>1, <1>7, <2>1, <2>2, <2>3, <3>1, SlotStandsAgain DEF BusKnown
  <2>11. SelectedExact' BY <1>1, <1>5, <1>7, <2>1, <2>2, <2>3, SelectedKept DEF BusKnown
  <2>12. QED BY <2>6, <2>7, <2>8, <2>9, <2>10, <2>11 DEF BusKnown
<1>11. QED BY <1>9, <1>10 DEF BusInv

LEMMA SetSpeedInv ==
  ASSUME BusInv, NEW t \in BusThreads, NEW h \in Handles, NEW v \in Speeds, SetSpeed(t, h, v)
  PROVE  BusInv'
<1>1. BusTypes /\ device[h] # {} BY DEF BusInv, SetSpeed, Held
<1>2. PICK d \in Devices : device[h] = {d} /\ Bus(h) = d.bus BY <1>1, BusOfDevice
<1> DEFINE e == [bus |-> Bus(h), speed |-> v]
<1>3. d.bus \in BusNumbers /\ e \in Devices /\ e.bus = d.bus /\ e.speed = v
  BY <1>2 DEF Devices
<1>4. /\ bus' \in [BusNumbers -> Speeds \cup {0}] /\ bus'[d.bus] = v
      /\ \A b \in BusNumbers : b # d.bus => bus'[b] = bus[b]
  BY <1>1, <1>2, <1>3, SpeedSet DEF SetSpeed
<1>5. /\ device' \in [Handles -> SUBSET Devices]
      /\ \A g \in Handles : \A c, f \in device'[g] : c = f
      /\ device'[h] = {e} /\ \A g \in Handles : g # h => device'[g] = device[g]
  <2> DEFINE D == {e}
  <2>1. D \in SUBSET Devices /\ \A c, f \in D : c = f BY <1>3
  <2>2. device' = [device EXCEPT ![h] = D] BY DEF SetSpeed
  <2> HIDE DEF D
  <2>3. /\ device' \in [Handles -> SUBSET Devices]
        /\ \A g \in Handles : \A c, f \in device'[g] : c = f
        /\ device'[h] = D /\ \A g \in Handles : g # h => device'[g] = device[g]
    BY <1>1, <2>1, <2>2, SlotWritten
  <2>4. QED BY <2>3 DEF D
<1> HIDE DEF e
<1>6. UNCHANGED <<driver, selected, doing>> BY DEF SetSpeed
<1>7. strayed' \in BOOLEAN /\ (~strayed' => ~strayed /\ ~Shared(t, h))
  <2>1. Shared(t, h) \in BOOLEAN BY DEF Shared
  <2>2. QED BY <1>1, <2>1, StrayTold DEF SetSpeed
<1>8. BusTypes' BY <1>1, <1>4, <1>5, <1>6, <1>7 DEF BusTypes
<1>9. ASSUME ~strayed' PROVE BusKnown'
  <2>1. BusKnown /\ ~Shared(t, h) BY <1>7, <1>9 DEF BusInv
  <2>2. /\ doing[t].step = "none" /\ Settled(h)
        /\ \A u \in BusThreads \ {t} : Busy(u) => doing[u].handle # h
    BY <1>1, <2>1, HeldSettled DEF BusKnown, SetSpeed
  <2>3. About(t, h) BY <1>5, <1>6, <2>2 DEF About
  <2>4. Settled(h)' BY <1>5, <1>6, <2>2 DEF Settled
  <2>5. \A g \in Handles : g # h => (Settled(g)' <=> Settled(g)) BY <2>3, SettledElsewhere
  <2>6. \A g \in Handles : g # h /\ Settled(g) =>
           \A c \in device[g] : c.bus # d.bus /\ c.bus \in BusNumbers
    <3>1. ASSUME NEW g \in Handles, g # h, Settled(g), NEW c \in device[g] PROVE c.bus # d.bus
      BY <1>2, <2>1, <2>2, <3>1 DEF BusKnown, OneEach
    <3>2. ASSUME NEW g \in Handles, NEW c \in device[g] PROVE c.bus \in BusNumbers
      <4>1. device[g] \in SUBSET Devices BY <1>1 DEF BusTypes
      <4>2. c \in Devices BY <4>1
      <4>3. QED BY <4>2 DEF Devices
    <3>3. QED BY <3>1, <3>2
  <2>7. UpAsTold'
    <3>1. ASSUME NEW g \in Handles, Settled(g)', NEW c \in device'[g] PROVE bus'[c.bus] = c.speed
      <4>1. CASE g = h BY <1>3, <1>4, <1>5, <4>1
      <4>2. CASE g # h
        <5>1. Settled(g) /\ c \in device[g] BY <1>5, <2>5, <3>1, <4>2
        <5>2. QED BY <1>4, <2>1, <2>6, <4>2, <5>1 DEF BusKnown, UpAsTold
      <4>3. QED BY <4>1, <4>2
    <3>2. QED BY <3>1 DEF UpAsTold
  <2>8. OneEach'
    <3>1. OneEach BY <2>1 DEF BusKnown
    <3>2. ASSUME NEW f \in Handles, NEW g \in Handles, Settled(f)', Settled(g)',
                 NEW b \in device'[f], NEW c \in device'[g], b.bus = c.bus
          PROVE  f = g
      <4>1. CASE f = h /\ g # h BY <1>3, <1>5, <2>5, <2>6, <3>2, <4>1
      <4>2. CASE f # h /\ g = h BY <1>3, <1>5, <2>5, <2>6, <3>2, <4>2
      <4>3. CASE f # h /\ g # h BY <1>5, <2>5, <3>1, <3>2, <4>3 DEF OneEach
      <4>4. QED BY <4>1, <4>2, <4>3
    <3>3. QED BY <3>2 DEF OneEach
  <2>9. UpForOne'
    <3>1. ASSUME NEW b \in BusNumbers, bus'[b] # 0
          PROVE  \E g \in Handles : Settled(g)' /\ \E c \in device'[g] : c.bus = b
      <4>1. CASE b = d.bus BY <1>3, <1>5, <2>4, <4>1
      <4>2. CASE b # d.bus
        <5>1. PICK g \in Handles : Settled(g) /\ \E c \in device[g] : c.bus = b
          BY <1>4, <2>1, <3>1, <4>2 DEF BusKnown, UpForOne
        <5>2. g # h BY <1>2, <4>2, <5>1
        <5>3. QED BY <1>5, <2>5, <5>1, <5>2
      <4>3. QED BY <4>1, <4>2
    <3>2. QED BY <3>1 DEF UpForOne
  <2>10. OneCall' BY <1>6, <2>1 DEF BusKnown, OneCall, Busy
  <2>11. SlotStands' BY <1>1, <1>6, <2>1, <2>2, <2>3, SlotStandsAgain DEF BusKnown
  <2>12. SelectedExact' BY <1>1, <1>6, <2>1, <2>2, <2>3, SelectedKept DEF BusKnown
  <2>13. QED BY <2>7, <2>8, <2>9, <2>10, <2>11, <2>12 DEF BusKnown
<1>10. QED BY <1>8, <1>9 DEF BusInv

LEMMA SetSpeedFailsInv ==
  ASSUME BusInv, NEW t \in BusThreads, NEW h \in Handles, NEW v \in Speeds,
         SetSpeedFails(t, h, v)
  PROVE  BusInv'
<1>1. BusTypes /\ device[h] # {} BY DEF BusInv, SetSpeedFails, Held
<1> DEFINE e == [bus |-> Bus(h), speed |-> v]
<1>2. e \in Devices BY <1>1, BusOfDevice DEF Devices
<1>3. {e} \in SUBSET Devices /\ \A c, f \in {e} : c = f BY <1>2
<1>4. /\ device' \in [Handles -> SUBSET Devices]
      /\ \A g \in Handles : \A c, f \in device'[g] : c = f
  BY <1>1, <1>3, SlotWritten DEF SetSpeedFails
<1>5. strayed' = TRUE /\ UNCHANGED <<driver, bus, selected, doing>> BY DEF SetSpeedFails
<1>6. QED BY <1>1, <1>4, <1>5 DEF BusInv, BusTypes
-----------------------------------------------------------------------------
\* Nothing changes for the buses when nothing becomes settled or ceases to be.
LEMMA UpSame ==
  ASSUME UpAsTold, OneEach, UpForOne, device' = device, bus' = bus,
         \A g \in Handles : Settled(g)' <=> Settled(g)
  PROVE  UpAsTold' /\ OneEach' /\ UpForOne'
<1>1. UpAsTold' BY DEF UpAsTold
<1>2. OneEach' BY DEF OneEach
<1>3. UpForOne' BY DEF UpForOne
<1>4. QED BY <1>1, <1>2, <1>3

\* The device of a transfer is settled.
LEMMA WireSettled ==
  ASSUME OneCall, SlotStands, NEW t \in BusThreads, doing[t].step = "wire"
  PROVE  /\ Settled(doing[t].handle)
         /\ \A u \in BusThreads \ {t} : Busy(u) => doing[u].handle # doing[t].handle
<1>1. \A u \in BusThreads \ {t} : Busy(u) => doing[u].handle # doing[t].handle
  BY Alone DEF Busy
<1>2. device[doing[t].handle] # {} BY DEF SlotStands
<1>3. \A u \in BusThreads : doing[u].step \in {"bring up", "free"} =>
                             doing[u].handle # doing[t].handle
  BY <1>1 DEF Busy
<1>4. QED BY <1>1, <1>2, <1>3 DEF Settled

LEMMA TransferSelectsInv ==
  ASSUME BusInv, NEW t \in BusThreads, NEW h \in Handles, TransferSelects(t, h)
  PROVE  BusInv'
<1> DEFINE call == [step |-> "wire", handle |-> h]
<1>1. BusTypes /\ device[h] # {} BY DEF BusInv, TransferSelects, Held
<1>2. PICK d \in Devices : device[h] = {d} /\ Bus(h) = d.bus BY <1>1, BusOfDevice
<1>3. d.bus \in BusNumbers BY DEF Devices
<1>4. selected' = selected \cup {d.bus} BY <1>2 DEF TransferSelects
<1>5. UNCHANGED <<driver, device, bus>> BY DEF TransferSelects
<1>6. call \in Serving /\ call.step = "wire" /\ call.handle = h BY DEF Serving
<1>7. /\ doing' \in [BusThreads -> {Idle} \cup Opening \cup Serving]
      /\ doing'[t].step = "wire" /\ doing'[t].handle = h
      /\ \A u \in BusThreads : u # t => doing'[u] = doing[u]
  BY <1>1, <1>6, DoesTyped DEF TransferSelects
<1>8. strayed' \in BOOLEAN /\ (~strayed' => ~strayed /\ ~Shared(t, h))
  <2>1. Shared(t, h) \in BOOLEAN BY DEF Shared
  <2>2. QED BY <1>1, <2>1, StrayTold DEF TransferSelects
<1>9. BusTypes' BY <1>1, <1>3, <1>4, <1>5, <1>7, <1>8 DEF BusTypes
<1>10. ASSUME ~strayed' PROVE BusKnown'
  <2>1. BusKnown /\ ~Shared(t, h) BY <1>8, <1>10 DEF BusInv
  <2>2. /\ doing[t].step = "none" /\ Settled(h)
        /\ \A u \in BusThreads \ {t} : Busy(u) => doing[u].handle # h
    BY <1>1, <2>1, HeldSettled DEF BusKnown, TransferSelects
  <2>3. About(t, h) BY <1>5, <1>7, <2>2 DEF About
  <2>4. Settled(h)'
    <3>1. ASSUME NEW u \in BusThreads, doing'[u].step \in {"bring up", "free"}
          PROVE  doing'[u].handle # h
      BY <1>7, <2>2, <3>1 DEF Busy
    <3>2. QED BY <1>1, <1>5, <3>1 DEF Settled
  <2>5. \A g \in Handles : Settled(g)' <=> Settled(g) BY <2>2, <2>3, <2>4, SettledElsewhere
  <2>6. UpAsTold' /\ OneEach' /\ UpForOne' BY <1>5, <2>1, <2>5, UpSame DEF BusKnown
  <2>7. OneCall' BY <2>1, <2>2, <2>3, OneCallKept DEF BusKnown
  <2>8. SlotStands'
    <3>1. device'[doing'[t].handle] # {} BY <1>1, <1>5, <1>7
    <3>2. QED BY <1>1, <1>7, <2>1, <2>2, <2>3, <3>1, SlotStandsAgain DEF BusKnown
  <2>9. SelectedExact'
    <3>1. ASSUME NEW b \in BusNumbers
          PROVE  b \in selected' <=>
                   \E u \in BusThreads : /\ doing'[u].step = "wire"
                                         /\ \E c \in device[doing'[u].handle] : c.bus = b
      <4>1. CASE b = d.bus BY <1>2, <1>4, <1>7, <4>1
      <4>2. CASE b # d.bus
        <5>1. b \in selected' <=> b \in selected BY <1>4, <4>2
        <5>2. b \in selected <=>
                \E u \in BusThreads : /\ doing[u].step = "wire"
                                      /\ \E c \in device[doing[u].handle] : c.bus = b
          BY <2>1 DEF BusKnown, SelectedExact
        <5>3. ~\E c \in device[h] : c.bus = b BY <1>2, <4>2
        <5>4. QED BY <1>7, <2>2, <5>1, <5>2, <5>3
      <4>3. QED BY <4>1, <4>2
    <3>2. QED BY <1>5, <3>1 DEF SelectedExact
  <2>10. QED BY <2>6, <2>7, <2>8, <2>9 DEF BusKnown
<1>11. QED BY <1>9, <1>10 DEF BusInv

LEMMA TransferEndsInv == ASSUME BusInv, NEW t \in BusThreads, TransferEnds(t) PROVE BusInv'
<1>1. BusTypes /\ doing[t].step = "wire" BY DEF BusInv, TransferEnds
<1>2. PICK h \in Handles : doing[t].handle = h /\ device[h] # {}
  BY <1>1, CallsTold, CallShapes DEF TransferEnds
<1>3. PICK d \in Devices : device[h] = {d} /\ Bus(h) = d.bus BY <1>1, <1>2, BusOfDevice
<1>4. selected' = selected \ {d.bus} BY <1>2, <1>3 DEF TransferEnds
<1>5. UNCHANGED <<driver, device, bus, strayed>> BY DEF TransferEnds
<1>6. /\ doing' \in [BusThreads -> {Idle} \cup Opening \cup Serving]
      /\ doing'[t].step = "none" /\ \A u \in BusThreads : u # t => doing'[u] = doing[u]
  BY <1>1, IdleTyped DEF TransferEnds
<1>7. BusTypes' BY <1>1, <1>4, <1>5, <1>6 DEF BusTypes
<1>8. ASSUME ~strayed' PROVE BusKnown'
  <2>1. BusKnown BY <1>5, <1>8 DEF BusInv
  <2>2. Settled(h) /\ \A u \in BusThreads \ {t} : Busy(u) => doing[u].handle # h
    BY <1>1, <1>2, <2>1, WireSettled DEF BusKnown
  <2>3. About(t, h) BY <1>2, <1>5, <1>6 DEF About
  <2>4. Settled(h)'
    <3>1. ASSUME NEW u \in BusThreads, doing'[u].step \in {"bring up", "free"}
          PROVE  doing'[u].handle # h
      BY <1>6, <2>2, <3>1 DEF Busy
    <3>2. QED BY <1>2, <1>5, <3>1 DEF Settled
  <2>5. \A g \in Handles : Settled(g)' <=> Settled(g) BY <2>2, <2>3, <2>4, SettledElsewhere
  <2>6. UpAsTold' /\ OneEach' /\ UpForOne' BY <1>5, <2>1, <2>5, UpSame DEF BusKnown
  <2>7. OneCall' BY <2>1, <2>2, <2>3, OneCallKept DEF BusKnown
  <2>8. SlotStands' BY <1>1, <1>6, <2>1, <2>2, <2>3, SlotStandsAgain DEF BusKnown
  <2>9. SelectedExact'
    <3>1. ASSUME NEW u \in BusThreads \ {t}, doing[u].step = "wire"
          PROVE  \A c \in device[doing[u].handle] : c.bus # d.bus
      <4>1. Settled(doing[u].handle) BY <2>1, <3>1, WireSettled DEF BusKnown
      <4>2. doing[u].handle \in Handles /\ doing[u].handle # h
        BY <1>1, <2>2, <3>1, CallsTold DEF Busy
      <4>3. QED BY <1>3, <2>1, <2>2, <4>1, <4>2 DEF BusKnown, OneEach
    <3>2. ASSUME NEW b \in BusNumbers
          PROVE  b \in selected' <=>
                   \E u \in BusThreads : /\ doing'[u].step = "wire"
                                         /\ \E c \in device[doing'[u].handle] : c.bus = b
      <4>1. b \in selected <=>
              \E u \in BusThreads : /\ doing[u].step = "wire"
                                    /\ \E c \in device[doing[u].handle] : c.bus = b
        BY <2>1 DEF BusKnown, SelectedExact
      <4>2. CASE b = d.bus BY <1>4, <1>6, <3>1, <4>2
      <4>3. CASE b # d.bus
        <5>1. ~\E c \in device[doing[t].handle] : c.bus = b BY <1>2, <1>3, <4>3
        <5>2. QED BY <1>4, <1>6, <4>1, <4>3, <5>1
      <4>4. QED BY <4>2, <4>3
    <3>3. QED BY <1>5, <3>2 DEF SelectedExact
  <2>10. QED BY <2>6, <2>7, <2>8, <2>9 DEF BusKnown
<1>9. QED BY <1>7, <1>8 DEF BusInv
-----------------------------------------------------------------------------
LEMMA BusStepInv == BusInv /\ [BusNext]_busVars => BusInv'
<1> SUFFICES ASSUME BusInv, [BusNext]_busVars PROVE BusInv'
  OBVIOUS
<1>1. CASE UNCHANGED busVars
  <2>1. BusTypes' BY <1>1 DEF busVars, BusInv, BusTypes
  <2>2. ASSUME ~strayed' PROVE BusKnown'
    <3>1. BusKnown BY <1>1, <2>2 DEF busVars, BusInv
    <3>2. \A h \in Handles : Settled(h)' <=> Settled(h) BY <1>1 DEF busVars, Settled
    <3>3. UpAsTold' /\ OneEach' /\ UpForOne' BY <1>1, <3>1, <3>2, UpSame DEF busVars, BusKnown
    <3>4. OneCall' BY <1>1, <3>1 DEF busVars, BusKnown, OneCall, Busy
    <3>5. SlotStands' BY <1>1, <3>1 DEF busVars, BusKnown, SlotStands
    <3>6. SelectedExact' BY <1>1, <3>1 DEF busVars, BusKnown, SelectedExact
    <3>7. QED BY <3>3, <3>4, <3>5, <3>6 DEF BusKnown
  <2>3. QED BY <2>1, <2>2 DEF BusInv
<1>2. CASE BusNext
  BY <1>2, DriverInitInv, OpenFindsInv, OpenTakesInv, OpenWorksInv, OpenFailsInv,
     CloseTakesDownInv, CloseFreesInv, SetSpeedInv, SetSpeedFailsInv, TransferSelectsInv,
     TransferEndsInv
  DEF BusNext
<1>3. QED BY <1>1, <1>2

LEMMA BusInitInv == ASSUME BusInit PROVE BusInv
<1>1. \A t \in BusThreads : doing[t] = Idle /\ doing[t].step = "none" /\ ~Busy(t)
  BY CallShapes DEF BusInit, Busy
<1>2. \A h \in Handles : device[h] = {} /\ ~Settled(h) BY DEF BusInit, Settled
<1>3. BusTypes BY DEF BusInit, BusTypes
<1>4. OneCall /\ SlotStands BY <1>1 DEF OneCall, SlotStands
<1>5. UpAsTold /\ OneEach BY <1>2 DEF UpAsTold, OneEach
<1>6. UpForOne BY DEF BusInit, UpForOne
<1>7. SelectedExact BY <1>1 DEF BusInit, SelectedExact
<1>8. QED BY <1>3, <1>4, <1>5, <1>6, <1>7 DEF BusInv, BusKnown

(***************************************************************************)
(* The drivers keep table, buses and chip selects in step for any threads, *)
(* handles, buses and speeds (mp_spi_open, mp_i2c_open and their like):    *)
(* a bus that is up is the bus of one open device, at its speed, and a     *)
(* transfer runs on a bus that is up with its chip selected.               *)
(***************************************************************************)
THEOREM BusesStayExact == BusSpec => []BusesExact
<1>1. BusInv => BusesExact
  <2> SUFFICES ASSUME BusTypes, BusKnown
               PROVE  /\ InCall = {} =>
                           /\ \A b \in BusNumbers : bus[b] # 0 <=>
                                 \E h \in Handles : [bus |-> b, speed |-> bus[b]] \in device[h]
                           /\ \A g, h \in Handles :
                                 device[g] # {} /\ device[h] # {} /\ Bus(g) = Bus(h) => g = h
                           /\ selected = {}
                      /\ \A t \in InCall : doing[t].step = "wire" =>
                           bus[Bus(doing[t].handle)] # 0 /\ Bus(doing[t].handle) \in selected
    BY DEF BusInv, BusesExact
  <2>1. ASSUME NEW h \in Handles, Settled(h)
        PROVE  \E d \in Devices : /\ device[h] = {d} /\ Bus(h) = d.bus
                                 /\ bus[d.bus] = d.speed /\ bus[d.bus] # 0
    <3>1. PICK d \in Devices : device[h] = {d} /\ Bus(h) = d.bus
      BY <2>1, BusOfDevice DEF Settled
    <3>2. bus[d.bus] = d.speed BY <2>1, <3>1 DEF BusKnown, UpAsTold
    <3>3. d.speed # 0 BY SpeedsAssumption DEF Devices
    <3>4. QED BY <3>1, <3>2, <3>3
  <2>2. ASSUME InCall = {}
        PROVE  /\ \A b \in BusNumbers : bus[b] # 0 <=>
                     \E h \in Handles : [bus |-> b, speed |-> bus[b]] \in device[h]
               /\ \A g, h \in Handles :
                     device[g] # {} /\ device[h] # {} /\ Bus(g) = Bus(h) => g = h
               /\ selected = {}
    <3>1. \A t \in BusThreads : doing[t].step = "none" BY <2>2, CallsTold DEF Busy
    <3>2. \A h \in Handles : device[h] # {} <=> Settled(h) BY <3>1 DEF Settled
    <3>3. ASSUME NEW b \in BusNumbers, bus[b] # 0
          PROVE  \E h \in Handles : [bus |-> b, speed |-> bus[b]] \in device[h]
      <4>1. PICK h \in Handles : Settled(h) /\ \E c \in device[h] : c.bus = b
        BY <3>3 DEF BusKnown, UpForOne
      <4>2. PICK d \in Devices : device[h] = {d} /\ bus[d.bus] = d.speed BY <2>1, <4>1
      <4>3. d = [bus |-> b, speed |-> bus[b]] BY <4>1, <4>2 DEF Devices
      <4>4. QED BY <4>2, <4>3
    <3>4. ASSUME NEW b \in BusNumbers, NEW h \in Handles,
                 [bus |-> b, speed |-> bus[b]] \in device[h]
          PROVE  bus[b] # 0
      <4>1. PICK d \in Devices : device[h] = {d} /\ bus[d.bus] # 0 BY <2>1, <3>2, <3>4
      <4>2. d.bus = b BY <3>4, <4>1
      <4>3. QED BY <4>1, <4>2
    <3>5. ASSUME NEW g \in Handles, NEW h \in Handles,
                 device[g] # {}, device[h] # {}, Bus(g) = Bus(h)
          PROVE  g = h
      <4>1. PICK c \in Devices : device[g] = {c} /\ Bus(g) = c.bus BY <2>1, <3>2, <3>5
      <4>2. PICK d \in Devices : device[h] = {d} /\ Bus(h) = d.bus BY <2>1, <3>2, <3>5
      <4>3. QED BY <3>2, <3>5, <4>1, <4>2 DEF BusKnown, OneEach
    <3>6. selected = {} BY <3>1 DEF BusKnown, SelectedExact, BusTypes
    <3>7. QED BY <3>3, <3>4, <3>5, <3>6
  <2>3. ASSUME NEW t \in InCall, doing[t].step = "wire"
        PROVE  bus[Bus(doing[t].handle)] # 0 /\ Bus(doing[t].handle) \in selected
    <3>1. t \in BusThreads BY DEF InCall
    <3>2. doing[t].handle \in Handles BY <2>3, <3>1, CallsTold DEF Busy
    <3>3. Settled(doing[t].handle) BY <2>3, <3>1, WireSettled DEF BusKnown
    <3>4. PICK d \in Devices : /\ device[doing[t].handle] = {d} /\ Bus(doing[t].handle) = d.bus
                               /\ bus[d.bus] # 0
      BY <2>1, <3>2, <3>3
    <3>5. d.bus \in BusNumbers BY DEF Devices
    <3>6. d.bus \in selected BY <2>3, <3>1, <3>4, <3>5 DEF BusKnown, SelectedExact
    <3>7. QED BY <3>4, <3>6
  <2>4. QED BY <2>2, <2>3
<1>2. QED BY <1>1, BusInitInv, BusStepInv, PTL DEF BusSpec

-----------------------------------------------------------------------------
(***************************************************************************)
(* WiFi.  What wifi_state will be when the call in progress has stored its *)
(* state and the events that wait have been handled is what the radio is   *)
(* now: true at any time until a call and an event overtake each other.    *)
(***************************************************************************)
LastOf(s) == s[Len(s)]

RadioEvents == {"scan done", "sta stop", "ap stop", "sta connected", "sta disconnected", "ap start"}

Told == IF radioEvents # << >> THEN StateOf[LastOf(radioEvents)]
           ELSE IF wifiStore # "none" THEN wifiStore ELSE wifi_state

RadioIs == /\ radio \in {"none", "idle", "sta", "ap"}
           /\ link \in BOOLEAN
           /\ link => radio = "sta"
           /\ radioEvents \in Seq(RadioEvents)

Truth(state) == (state = "connected" <=> link) /\ (state = "ap" <=> radio = "ap")

WifiInv == RadioIs /\ (~overtaken => Truth(Told))

LEMMA LastOfJoined ==
  ASSUME NEW u \in Seq(RadioEvents), NEW v \in Seq(RadioEvents)
  PROVE  /\ u \o v \in Seq(RadioEvents)
         /\ u \o v # << >> <=> u # << >> \/ v # << >>
         /\ v # << >> => LastOf(u \o v) = LastOf(v)
         /\ v = << >> => u \o v = u
<1> HIDE DEF RadioEvents
<1>1. /\ u \o v \in Seq(RadioEvents) /\ Len(u \o v) = Len(u) + Len(v)
      /\ \A i \in 1 .. Len(u) + Len(v) : (u \o v)[i] = IF i <= Len(u) THEN u[i] ELSE v[i - Len(u)]
  OBVIOUS
<1>2. Len(u) \in Nat /\ Len(v) \in Nat OBVIOUS
<1>3. (u # << >> <=> Len(u) # 0) /\ (v # << >> <=> Len(v) # 0) OBVIOUS
<1>4. u \o v # << >> <=> Len(u \o v) # 0 BY <1>1
<1>5. ASSUME v # << >> PROVE LastOf(u \o v) = LastOf(v)
  <2>1. Len(u) + Len(v) \in 1 .. Len(u) + Len(v) /\ ~(Len(u) + Len(v) <= Len(u))
        /\ Len(u) + Len(v) - Len(u) = Len(v)
    BY <1>2, <1>3, <1>5
  <2> QED BY <1>1, <2>1 DEF LastOf
<1>6. ASSUME v = << >> PROVE u \o v = u BY <1>6
<1> QED BY <1>1, <1>2, <1>3, <1>4, <1>5, <1>6

LEMMA OneEvent ==
  ASSUME NEW event \in RadioEvents
  PROVE  <<event>> \in Seq(RadioEvents) /\ <<event>> # << >> /\ LastOf(<<event>>) = event
  BY DEF LastOf

LEMMA States ==
  /\ StateOf["scan done"] = "ready" /\ StateOf["sta stop"] = "ready" /\ StateOf["ap stop"] = "ready"
  /\ StateOf["sta connected"] = "connected" /\ StateOf["sta disconnected"] = "disconnected"
  /\ StateOf["ap start"] = "ap"
  BY DEF StateOf

LEMMA LeavingIs ==
  ASSUME NEW mode, RadioIs
  PROVE  /\ Leaving(mode) \in Seq(RadioEvents)
         /\ Leaving(mode) # << >> <=> radio # mode /\ radio \in {"sta", "ap"}
         /\ Leaving(mode) # << >> => StateOf[LastOf(Leaving(mode))] = "ready"
<1>1. CASE radio = mode
  <2>1. Leaving(mode) = << >> BY <1>1 DEF Leaving
  <2> QED BY <1>1, <2>1
<1>2. CASE radio # mode /\ radio = "sta" /\ link
  <2> DEFINE both == <<"sta disconnected", "sta stop">>
  <2>1. Leaving(mode) = both BY <1>2 DEF Leaving
  <2>2. both \in Seq(RadioEvents) /\ Len(both) = 2 /\ both[2] = "sta stop" /\ both # << >> BY DEF RadioEvents
  <2> HIDE DEF both
  <2>3. LastOf(both) = "sta stop" BY <2>2 DEF LastOf
  <2> QED BY <1>2, <2>1, <2>2, <2>3, States
<1>3. CASE radio # mode /\ radio = "sta" /\ ~link
  <2>1. Leaving(mode) = <<"sta stop">> BY <1>3 DEF Leaving
  <2>2. "sta stop" \in RadioEvents BY DEF RadioEvents
  <2> QED BY <1>3, <2>1, <2>2, OneEvent, States
<1>4. CASE radio # mode /\ radio = "ap"
  <2>1. Leaving(mode) = <<"ap stop">> BY <1>4 DEF Leaving
  <2>2. "ap stop" \in RadioEvents BY DEF RadioEvents
  <2> QED BY <1>4, <2>1, <2>2, OneEvent, States
<1>5. CASE radio # mode /\ radio \in {"none", "idle"}
  <2>1. Leaving(mode) = << >> BY <1>5 DEF Leaving
  <2> QED BY <1>5, <2>1
<1> QED BY <1>1, <1>2, <1>3, <1>4, <1>5 DEF RadioIs

\* What a call settles on: the state of its own event, of the mode it leaves, or the
\* one it stores.
LEMMA CallSettles ==
  ASSUME WifiInv, NEW mode \in {"none", "idle", "sta", "ap"}, NEW store,
         NEW events \in Seq(RadioEvents), Mode(mode, events), WifiCall(store)
  PROVE  /\ RadioIs'
         /\ radio' = mode /\ link' = (link /\ radio = mode)
         /\ ~overtaken' => /\ Truth(wifi_state)
                           /\ Told' = IF events # << >> THEN StateOf[LastOf(events)]
                                         ELSE IF radio # mode /\ radio \in {"sta", "ap"} THEN "ready"
                                         ELSE IF store # "none" THEN store ELSE wifi_state
<1> DEFINE L == Leaving(mode)
<1>1. /\ L \in Seq(RadioEvents)
      /\ L # << >> <=> radio # mode /\ radio \in {"sta", "ap"}
      /\ L # << >> => StateOf[LastOf(L)] = "ready"
  BY LeavingIs DEF WifiInv
<1>2. /\ radioEvents' = radioEvents \o (L \o events) /\ radio' = mode /\ link' = (link /\ radio = mode)
      /\ wifiStore = "none" /\ wifiStore' = store /\ overtaken' = (overtaken \/ radioEvents # << >>)
      /\ wifi_state' = wifi_state
  BY DEF Mode, Posts, WifiCall
<1> HIDE DEF L
<1>3. /\ L \o events \in Seq(RadioEvents)
      /\ L \o events # << >> <=> L # << >> \/ events # << >>
      /\ events # << >> => LastOf(L \o events) = LastOf(events)
      /\ events = << >> => L \o events = L
  BY <1>1, LastOfJoined
<1>4. radioEvents \in Seq(RadioEvents) BY DEF WifiInv, RadioIs
<1>5. radioEvents' \in Seq(RadioEvents) BY <1>2, <1>3, <1>4, LastOfJoined
<1>6. RadioIs' BY <1>2, <1>5 DEF WifiInv, RadioIs
<1>7. ASSUME ~overtaken' PROVE radioEvents = << >> /\ Truth(wifi_state)
  BY <1>2, <1>7 DEF WifiInv, Told
<1>8. ASSUME ~overtaken' PROVE radioEvents' = L \o events
  <2>1. << >> \o (L \o events) = L \o events BY <1>3
  <2> QED BY <1>2, <1>7, <1>8, <2>1
<1>9. ASSUME ~overtaken'
      PROVE  Told' = IF events # << >> THEN StateOf[LastOf(events)]
                        ELSE IF radio # mode /\ radio \in {"sta", "ap"} THEN "ready"
                        ELSE IF store # "none" THEN store ELSE wifi_state
  <2>1. Told' = IF radioEvents' # << >> THEN StateOf[LastOf(radioEvents')]
                   ELSE IF store # "none" THEN store ELSE wifi_state
    BY <1>2 DEF Told, StateOf, LastOf
  <2>2. radioEvents' = L \o events BY <1>8, <1>9
  <2> QED BY <1>1, <1>3, <2>1, <2>2
<1> QED BY <1>2, <1>6, <1>7, <1>9

LEMMA ToldNext ==
  Told' = IF radioEvents' # << >> THEN StateOf[LastOf(radioEvents')]
             ELSE IF wifiStore' # "none" THEN wifiStore' ELSE wifi_state'
  BY DEF Told, StateOf, LastOf

LEMMA WifiInitInv == WifiInit => WifiInv
<1> SUFFICES ASSUME WifiInit PROVE WifiInv
  OBVIOUS
<1>1. radioEvents = << >> /\ << >> \in Seq(RadioEvents) BY DEF WifiInit
<1>2. RadioIs BY <1>1 DEF WifiInit, RadioIs
<1>3. Told = "disconnected" BY <1>1 DEF WifiInit, Told
<1> QED BY <1>2, <1>3 DEF WifiInit, WifiInv, Truth

LEMMA NoEventsLeft ==
  ASSUME NEW s \in Seq(RadioEvents), Len(s) = 0
  PROVE  s = << >>
  OBVIOUS

LEMMA WifiStepInv == WifiInv /\ [WifiNext]_wifiVars => WifiInv'
<1> SUFFICES ASSUME WifiInv, [WifiNext]_wifiVars PROVE WifiInv'
  OBVIOUS
<1>1. RadioIs BY DEF WifiInv
<1>2. << >> \in Seq(RadioEvents) OBVIOUS
<1>3. CASE WifiStarts
  <2>1. Mode("idle", << >>) /\ WifiCall("ready") /\ radio = "none" BY <1>3 DEF WifiStarts
  <2>2. /\ RadioIs' /\ radio' = "idle" /\ link' = (link /\ radio = "idle")
        /\ ~overtaken' => /\ Truth(wifi_state)
                          /\ Told' = IF radio # "idle" /\ radio \in {"sta", "ap"} THEN "ready"
                                        ELSE IF "ready" # "none" THEN "ready" ELSE wifi_state
    BY <1>2, <2>1, CallSettles
  <2> QED BY <1>1, <2>1, <2>2 DEF WifiInv, Truth, RadioIs
<1>4. CASE WifiDeinit
  <2>1. Mode("none", << >>) /\ WifiCall("disconnected") BY <1>4 DEF WifiDeinit
  <2>2. /\ RadioIs' /\ radio' = "none" /\ link' = (link /\ radio = "none")
        /\ ~overtaken' => /\ Truth(wifi_state)
                          /\ Told' = IF radio # "none" /\ radio \in {"sta", "ap"} THEN "ready"
                                        ELSE IF "disconnected" # "none" THEN "disconnected" ELSE wifi_state
    BY <1>2, <2>1, CallSettles
  <2> QED BY <1>1, <2>1, <2>2 DEF WifiInv, Truth, RadioIs
<1>5. CASE WifiConnect
  <2>1. Mode("sta", << >>) /\ WifiCall("connecting") /\ wifi_state \in {"ready", "disconnected"} BY <1>5 DEF WifiConnect
  <2>2. /\ RadioIs' /\ radio' = "sta" /\ link' = (link /\ radio = "sta")
        /\ ~overtaken' => /\ Truth(wifi_state)
                          /\ Told' = IF radio # "sta" /\ radio \in {"sta", "ap"} THEN "ready"
                                        ELSE IF "connecting" # "none" THEN "connecting" ELSE wifi_state
    BY <1>2, <2>1, CallSettles
  <2> QED BY <1>1, <2>1, <2>2 DEF WifiInv, Truth, RadioIs
<1>6. CASE ConnectFails
  <2>1. Mode("sta", << >>) /\ WifiCall("none") /\ wifi_state \in {"ready", "disconnected"} BY <1>6 DEF ConnectFails
  <2>2. /\ RadioIs' /\ radio' = "sta" /\ link' = (link /\ radio = "sta")
        /\ ~overtaken' => /\ Truth(wifi_state)
                          /\ Told' = IF radio # "sta" /\ radio \in {"sta", "ap"} THEN "ready"
                                        ELSE IF "none" # "none" THEN "none" ELSE wifi_state
    BY <1>2, <2>1, CallSettles
  <2> QED BY <1>1, <2>1, <2>2 DEF WifiInv, Truth, RadioIs
<1>7. CASE WifiDisconnect
  <2>1. Mode("idle", << >>) /\ WifiCall("disconnected") BY <1>7 DEF WifiDisconnect
  <2>2. /\ RadioIs' /\ radio' = "idle" /\ link' = (link /\ radio = "idle")
        /\ ~overtaken' => /\ Truth(wifi_state)
                          /\ Told' = IF radio # "idle" /\ radio \in {"sta", "ap"} THEN "ready"
                                        ELSE IF "disconnected" # "none" THEN "disconnected" ELSE wifi_state
    BY <1>2, <2>1, CallSettles
  <2> QED BY <1>1, <2>1, <2>2 DEF WifiInv, Truth, RadioIs
<1>8. CASE StartApFails
  <2>1. Mode("idle", << >>) /\ WifiCall("none") BY <1>8 DEF StartApFails
  <2>2. /\ RadioIs' /\ radio' = "idle" /\ link' = (link /\ radio = "idle")
        /\ ~overtaken' => /\ Truth(wifi_state)
                          /\ Told' = IF radio # "idle" /\ radio \in {"sta", "ap"} THEN "ready"
                                        ELSE IF "none" # "none" THEN "none" ELSE wifi_state
    BY <1>2, <2>1, CallSettles
  <2> QED BY <1>1, <2>1, <2>2 DEF WifiInv, Truth, RadioIs
<1>9. CASE StopAp
  <2>1. Mode("idle", << >>) /\ WifiCall("ready") BY <1>9 DEF StopAp
  <2>2. /\ RadioIs' /\ radio' = "idle" /\ link' = (link /\ radio = "idle")
        /\ ~overtaken' => /\ Truth(wifi_state)
                          /\ Told' = IF radio # "idle" /\ radio \in {"sta", "ap"} THEN "ready"
                                        ELSE IF "ready" # "none" THEN "ready" ELSE wifi_state
    BY <1>2, <2>1, CallSettles
  <2> QED BY <1>1, <2>1, <2>2 DEF WifiInv, Truth, RadioIs
<1>10. CASE StartAp
  <2> DEFINE events == IF radio = "ap" THEN << >> ELSE <<"ap start">>
  <2>1. Mode("ap", events) /\ WifiCall("ap") BY <1>10 DEF StartAp
  <2>2. "ap start" \in RadioEvents BY DEF RadioEvents
  <2>3. events \in Seq(RadioEvents) /\ (events # << >> => StateOf[LastOf(events)] = "ap")
        /\ (events = << >> => radio = "ap")
    BY <1>2, <2>2, OneEvent, States
  <2> HIDE DEF events
  <2>4. /\ RadioIs' /\ radio' = "ap" /\ link' = (link /\ radio = "ap")
        /\ ~overtaken' => Told' = IF events # << >> THEN StateOf[LastOf(events)]
                                    ELSE IF radio # "ap" /\ radio \in {"sta", "ap"} THEN "ready"
                                    ELSE "ap"
    BY <2>1, <2>3, CallSettles
  <2> QED BY <1>1, <2>3, <2>4 DEF WifiInv, Truth, RadioIs
<1>11. CASE ScanStart
  <2>1. Mode("sta", <<"scan done">>) /\ WifiCall("scanning") /\ wifi_state = "ready" BY <1>11 DEF ScanStart
  <2>2. "scan done" \in RadioEvents BY DEF RadioEvents
  <2>3. <<"scan done">> \in Seq(RadioEvents) /\ <<"scan done">> # << >>
        /\ StateOf[LastOf(<<"scan done">>)] = "ready"
    BY <2>2, OneEvent, States
  <2>4. /\ RadioIs' /\ radio' = "sta" /\ link' = (link /\ radio = "sta")
        /\ ~overtaken' => Truth(wifi_state) /\ Told' = "ready"
    BY <2>1, <2>3, CallSettles
  <2> QED BY <1>1, <2>1, <2>4 DEF WifiInv, Truth, RadioIs
<1>12. CASE WifiStored
  <2>1. RadioIs' BY <1>1, <1>12 DEF WifiStored, RadioIs
  <2>2. Told' = Told BY <1>12, ToldNext DEF WifiStored, Told
  <2> QED BY <1>12, <2>1, <2>2 DEF WifiStored, WifiInv, Truth
<1>13. ASSUME NEW event \in RadioEvents, Posts(<<event>>), UNCHANGED <<radio, overtaken>>,
             link' \in BOOLEAN, link' => radio = "sta",
             (StateOf[event] = "connected") <=> link', (StateOf[event] = "ap") <=> radio = "ap"
      PROVE  WifiInv'
  <2>1. radioEvents' \in Seq(RadioEvents) /\ radioEvents' # << >> /\ LastOf(radioEvents') = event
    <3>1. radioEvents' = radioEvents \o <<event>> BY <1>13 DEF Posts
    <3>2. <<event>> \in Seq(RadioEvents) /\ <<event>> # << >> /\ LastOf(<<event>>) = event
      BY <1>13, OneEvent
    <3>3. radioEvents \in Seq(RadioEvents) BY <1>1 DEF RadioIs
    <3> QED BY <3>1, <3>2, <3>3, LastOfJoined
  <2>2. RadioIs' BY <1>1, <1>13, <2>1 DEF RadioIs
  <2>3. Told' = StateOf[event] BY <2>1, ToldNext
  <2> QED BY <1>13, <2>2, <2>3 DEF WifiInv, Truth
<1>14. CASE Joined
  <2>1. Posts(<<"sta connected">>) /\ UNCHANGED <<radio, overtaken>> /\ link' = TRUE /\ radio = "sta"
    BY <1>14 DEF Joined
  <2>2. "sta connected" \in RadioEvents BY DEF RadioEvents
  <2> QED BY <1>13, <2>1, <2>2, States
<1>15. CASE Lost
  <2>1. Posts(<<"sta disconnected">>) /\ UNCHANGED <<radio, overtaken>> /\ link' = FALSE /\ radio = "sta"
    BY <1>1, <1>15 DEF Lost, RadioIs
  <2>2. "sta disconnected" \in RadioEvents BY DEF RadioEvents
  <2> QED BY <1>13, <2>1, <2>2, States
<1>16. CASE EventHandled
  <2>1. /\ radioEvents # << >> /\ radioEvents' = Tail(radioEvents)
        /\ wifi_state' = StateOf[Head(radioEvents)] /\ wifiStore' = wifiStore
        /\ overtaken' = (overtaken \/ wifiStore # "none") /\ UNCHANGED <<radio, link>>
    BY <1>16 DEF EventHandled
  <2>2. /\ radioEvents \in Seq(RadioEvents) /\ Tail(radioEvents) \in Seq(RadioEvents)
        /\ Len(Tail(radioEvents)) = Len(radioEvents) - 1 /\ Head(radioEvents) = radioEvents[1]
        /\ Len(radioEvents) \in Nat \ {0}
        /\ \A i \in 1 .. Len(radioEvents) - 1 : Tail(radioEvents)[i] = radioEvents[i + 1]
    BY <1>1, <2>1 DEF RadioIs
  <2>3. RadioIs' BY <1>1, <2>1, <2>2 DEF RadioIs
  <2>4. ASSUME ~overtaken' PROVE Told' = Told
    <3>1. CASE Len(radioEvents) = 1
      <4>1. Tail(radioEvents) = << >>
        <5>1. Len(Tail(radioEvents)) = 0 BY <2>2, <3>1
        <5>2. Tail(radioEvents) \in Seq(RadioEvents) BY <2>2
        <5> QED BY <5>1, <5>2, NoEventsLeft
      <4>2. LastOf(radioEvents) = Head(radioEvents) BY <2>2, <3>1 DEF LastOf
      <4>3. Told' = wifi_state' BY <2>1, <2>4, <4>1, ToldNext
      <4> QED BY <2>1, <4>2, <4>3 DEF Told
    <3>2. CASE Len(radioEvents) # 1
      <4>1. Tail(radioEvents) # << >> BY <2>2, <3>2
      <4>2. LastOf(Tail(radioEvents)) = LastOf(radioEvents)
        <5>1. Len(radioEvents) - 1 \in 1 .. Len(radioEvents) - 1 BY <2>2, <3>2
        <5> QED BY <2>2, <5>1 DEF LastOf
      <4> QED BY <2>1, <4>1, <4>2, ToldNext DEF Told
    <3> QED BY <3>1, <3>2
  <2>5. ~overtaken' => ~overtaken BY <2>1
  <2> QED BY <2>1, <2>3, <2>4, <2>5 DEF WifiInv, Truth
<1>17. CASE SetConfig \/ TaskLooks \/ UNCHANGED wifiVars
  <2>1. UNCHANGED <<wifi_state, wifiStore, radio, link, radioEvents, overtaken>>
    BY <1>17 DEF SetConfig, TaskLooks, wifiVars
  <2>2. Told' = Told BY <2>1, ToldNext DEF Told
  <2> QED BY <1>1, <2>1, <2>2 DEF WifiInv, RadioIs, Truth
<1> QED BY <1>3, <1>4, <1>5, <1>6, <1>7, <1>8, <1>9, <1>10, <1>11, <1>12, <1>14, <1>15, <1>16, <1>17 DEF WifiNext

\* For any number of events that may wait: when all is quiet and nothing was overtaken,
\* wifi_state is what the radio is.
THEOREM WifiTellsTruth == WifiSpec => []WifiStateTrue
<1>1. WifiInit => WifiInv BY WifiInitInv
<1>2. WifiInv /\ [WifiNext]_wifiVars => WifiInv' BY WifiStepInv
<1>3. WifiInv => WifiStateTrue BY DEF WifiInv, Truth, Told, WifiStateTrue
<1> QED BY <1>1, <1>2, <1>3, PTL DEF WifiSpec

-----------------------------------------------------------------------------
(***************************************************************************)
(* BLE.  Callbacks become events and events become the manager's state, so *)
(* that what counts is how each queue ends: with a link made, a link lost, *)
(* or neither.  The stack's own state fixes what its callbacks may be and  *)
(* what the backend will store when they are made; a link the manager has  *)
(* not heard of is still in the one queue or in the other.                 *)
(***************************************************************************)
BleEvents == {"adv started", "adv stopped", "connected", "disconnected", "written", "data"}
Links == {"connected", "disconnected"}

Unlinked(q) == \A n \in 1 .. Len(q) : q[n] \notin Links
Ended(q, e) == \E n \in 1 .. Len(q) : q[n] = e /\ \A m \in 1 .. Len(q) : m > n => q[m] \notin Links

\* The states when the call in progress has made its stores.
WillBack == IF granted # "none" THEN granted ELSE backend
WillManage == IF asked = "start" THEN "advertising" ELSE IF asked = "stop" THEN "ready" ELSE manager

OffIn == manager = "disconnected" /\ backend = "disconnected" /\ event_mq = << >> /\ asked = "none"

QuietIn == /\ callbacks \in {<< >>, <<"adv stopped">>}
           /\ callbacks = << >> => WillBack = "ready"
           /\ Unlinked(event_mq) /\ WillManage = "ready"

LosingIn == /\ callbacks # << >>
            /\ \A n \in 1 .. Len(callbacks) : callbacks[n] = "disconnected" <=> n = Len(callbacks)

AdvertisingIn == /\ callbacks \in {<< >>, <<"adv started">>}
                 /\ callbacks = << >> => WillBack = "advertising"
                 /\ Ended(event_mq, "disconnected") \/ (Unlinked(event_mq) /\ WillManage = "advertising")

HeardIn == /\ \A n \in 1 .. Len(callbacks) : callbacks[n] = "written"
           /\ WillBack = "connected"
           /\ Ended(event_mq, "connected") \/ (Unlinked(event_mq) /\ WillManage = "connected")

ConnectedIn == /\ \A n \in 1 .. Len(callbacks) : /\ callbacks[n] \in {"adv started", "connected", "written"}
                                                 /\ callbacks[n] = "adv started" => n = 1
               /\ (\E n \in 1 .. Len(callbacks) : callbacks[n] = "connected") \/ HeardIn

Agree == /\ stack = "off" => OffIn
         /\ stack = "idle" => QuietIn \/ LosingIn
         /\ stack = "advertising" => AdvertisingIn
         /\ stack = "connected" => ConnectedIn

DataIn(q) == Cardinality({n \in 1 .. Len(q) : q[n] = "data"})

BleTypes == /\ stack \in {"off", "idle", "advertising", "connected"}
            /\ callbacks \in Seq(BleEvents) /\ event_mq \in Seq(BleEvents)
            /\ asked \in {"none", "start", "stop"} /\ granted \in {"none", "advertising", "ready"}
            /\ asked = "none" => granted = "none"
            /\ stack = "off" => callbacks = << >>
            /\ Len(event_mq) <= EventDepth
            /\ rx \in 0 .. DataDepth
            /\ slipped \in BOOLEAN

BleInv == BleTypes /\ (~slipped => Agree /\ rx = DataIn(event_mq))

-----------------------------------------------------------------------------
\* How a queue ends, and how much data is in it, as it is added to and taken from.
LEMMA AppendedIs ==
  ASSUME NEW q \in Seq(BleEvents), NEW e \in BleEvents
  PROVE  /\ q \o <<e>> = Append(q, e)
         /\ Append(q, e) \in Seq(BleEvents) /\ Append(q, e) # << >>
         /\ Len(Append(q, e)) = Len(q) + 1 /\ Len(q) \in Nat
         /\ \A n \in 1 .. Len(q) : Append(q, e)[n] = q[n]
         /\ Append(q, e)[Len(q) + 1] = e
<1> HIDE DEF BleEvents
<1> QED OBVIOUS

LEMMA NothingLeft ==
  ASSUME NEW S, NEW q \in Seq(S), Len(q) = 0
  PROVE  q = << >>
  OBVIOUS

LEMMA TailIs ==
  ASSUME NEW q \in Seq(BleEvents), q # << >>
  PROVE  /\ Tail(q) \in Seq(BleEvents) /\ Len(Tail(q)) = Len(q) - 1
         /\ Len(q) \in Nat \ {0} /\ Head(q) = q[1] /\ Head(q) \in BleEvents
         /\ \A n \in 1 .. Len(q) - 1 : Tail(q)[n] = q[n + 1]
         /\ Len(q) = 1 => Tail(q) = << >>
<1> HIDE DEF BleEvents
<1>1. /\ Tail(q) \in Seq(BleEvents) /\ Len(Tail(q)) = Len(q) - 1
      /\ Len(q) \in Nat \ {0} /\ Head(q) = q[1] /\ Head(q) \in BleEvents
      /\ \A n \in 1 .. Len(q) - 1 : Tail(q)[n] = q[n + 1]
  OBVIOUS
<1>2. ASSUME Len(q) = 1 PROVE Tail(q) = << >>
  <2>1. Tail(q) \in Seq(BleEvents) /\ Len(Tail(q)) = 0 BY <1>1, <1>2
  <2> QED BY <2>1, NothingLeft
<1> QED BY <1>1, <1>2

LEMMA EndAppended ==
  ASSUME NEW q \in Seq(BleEvents), NEW e \in BleEvents
  PROVE  /\ e \in Links => Ended(Append(q, e), e)
         /\ e \notin Links /\ Unlinked(q) => Unlinked(Append(q, e))
         /\ e \notin Links => \A mark : Ended(q, mark) => Ended(Append(q, e), mark)
<1> DEFINE a == Append(q, e)
<1>1. /\ Len(a) = Len(q) + 1 /\ Len(q) \in Nat
      /\ \A n \in 1 .. Len(q) : a[n] = q[n]
      /\ a[Len(q) + 1] = e
  BY AppendedIs
<1> HIDE DEF a
<1>2. \A n \in 1 .. Len(a) : n \in 1 .. Len(q) \/ n = Len(q) + 1 BY <1>1
<1>3. e \in Links => Ended(a, e)
  <2>1. Len(q) + 1 \in 1 .. Len(a) /\ \A m \in 1 .. Len(a) : ~(m > Len(q) + 1) BY <1>1
  <2> QED BY <1>1, <2>1 DEF Ended
<1>4. e \notin Links /\ Unlinked(q) => Unlinked(a) BY <1>1, <1>2 DEF Unlinked
<1>5. ASSUME e \notin Links, NEW mark, Ended(q, mark) PROVE Ended(a, mark)
  <2>1. PICK n \in 1 .. Len(q) : q[n] = mark /\ \A m \in 1 .. Len(q) : m > n => q[m] \notin Links
    BY <1>5 DEF Ended
  <2>2. n \in 1 .. Len(a) /\ a[n] = mark BY <1>1, <2>1
  <2>3. \A m \in 1 .. Len(a) : m > n => a[m] \notin Links BY <1>1, <1>2, <1>5, <2>1
  <2> QED BY <2>2, <2>3 DEF Ended
<1> QED BY <1>3, <1>4, <1>5 DEF a

LEMMA EndTaken ==
  ASSUME NEW q \in Seq(BleEvents), q # << >>
  PROVE  /\ Unlinked(q) => Unlinked(Tail(q)) /\ Head(q) \notin Links
         /\ \A mark : Ended(q, mark) => Ended(Tail(q), mark) \/ (Head(q) = mark /\ Unlinked(Tail(q)))
<1> DEFINE t == Tail(q)
<1>1. /\ Len(t) = Len(q) - 1 /\ Len(q) \in Nat \ {0} /\ Head(q) = q[1]
      /\ \A n \in 1 .. Len(q) - 1 : t[n] = q[n + 1]
  BY TailIs
<1> HIDE DEF t
<1>2. Unlinked(q) => Unlinked(t) /\ Head(q) \notin Links BY <1>1 DEF Unlinked
<1>3. ASSUME NEW mark, Ended(q, mark) PROVE Ended(t, mark) \/ (Head(q) = mark /\ Unlinked(t))
  <2>1. PICK n \in 1 .. Len(q) : q[n] = mark /\ \A m \in 1 .. Len(q) : m > n => q[m] \notin Links
    BY <1>3 DEF Ended
  <2>2. \A m \in 1 .. Len(t) : t[m] = q[m + 1] /\ m + 1 \in 1 .. Len(q) BY <1>1
  <2>3. CASE n = 1
    <3>1. Head(q) = mark BY <1>1, <2>1, <2>3
    <3>2. \A m \in 1 .. Len(t) : t[m] \notin Links
      <4>1. \A m \in 1 .. Len(t) : m + 1 > n BY <2>3
      <4> QED BY <2>1, <2>2, <4>1
    <3> QED BY <3>1, <3>2 DEF Unlinked
  <2>4. CASE n # 1
    <3>1. n - 1 \in 1 .. Len(t) /\ t[n - 1] = mark
      <4>1. n - 1 \in 1 .. Len(q) - 1 /\ (n - 1) + 1 = n BY <1>1, <2>4
      <4> QED BY <1>1, <2>1, <4>1
    <3>2. \A m \in 1 .. Len(t) : m > n - 1 => t[m] \notin Links
      <4>1. \A m \in 1 .. Len(t) : m > n - 1 => m + 1 > n OBVIOUS
      <4> QED BY <2>1, <2>2, <4>1
    <3> QED BY <3>1, <3>2 DEF Ended
  <2> QED BY <2>3, <2>4
<1> QED BY <1>2, <1>3 DEF t

LEMMA DataAppended ==
  ASSUME NEW q \in Seq(BleEvents), NEW e \in BleEvents
  PROVE  /\ DataIn(q) \in Nat
         /\ DataIn(Append(q, e)) = IF e = "data" THEN DataIn(q) + 1 ELSE DataIn(q)
<1> DEFINE D == {n \in 1 .. Len(q) : q[n] = "data"}
           a == Append(q, e)
           E == {n \in 1 .. Len(a) : a[n] = "data"}
<1>1. /\ Len(a) = Len(q) + 1 /\ Len(q) \in Nat
      /\ \A n \in 1 .. Len(q) : a[n] = q[n]
      /\ a[Len(q) + 1] = e
  BY AppendedIs
<1> HIDE DEF a
<1>2. IsFiniteSet(D) /\ Cardinality(D) \in Nat
  <2>1. IsFiniteSet(1 .. Len(q)) BY <1>1, FS_Interval
  <2>2. D \in SUBSET (1 .. Len(q)) OBVIOUS
  <2> QED BY <2>1, <2>2, FS_Subset, FS_CardinalityType
<1>3. CASE e = "data"
  <2>1. E = D \cup {Len(q) + 1} /\ Len(q) + 1 \notin D BY <1>1, <1>3
  <2> HIDE DEF D, E
  <2>2. Cardinality(E) = Cardinality(D) + 1 BY <1>2, <2>1, FS_AddElement
  <2> QED BY <1>2, <1>3, <2>2 DEF D, E, DataIn, a
<1>4. CASE e # "data"
  <2>1. E = D BY <1>1, <1>4
  <2> QED BY <1>2, <1>4, <2>1 DEF DataIn, a
<1> QED BY <1>3, <1>4

LEMMA NoData == DataIn(<< >>) = 0
<1>1. {n \in 1 .. Len(<< >>) : << >>[n] = "data"} = {} OBVIOUS
<1> QED BY <1>1, FS_EmptySet DEF DataIn

LEMMA DataTaken ==
  ASSUME NEW q \in Seq(BleEvents), q # << >>
  PROVE  /\ DataIn(q) \in Nat /\ DataIn(Tail(q)) \in Nat
         /\ DataIn(q) = IF Head(q) = "data" THEN DataIn(Tail(q)) + 1 ELSE DataIn(Tail(q))
<1> DEFINE t == Tail(q)
           D == {n \in 1 .. Len(t) : t[n] = "data"}
           E == {n \in 1 .. Len(q) : q[n] = "data"}
           M == E \ {1}
           f == [n \in D |-> n + 1]
<1>1. /\ Len(t) = Len(q) - 1 /\ Len(q) \in Nat \ {0} /\ Head(q) = q[1]
      /\ \A n \in 1 .. Len(q) - 1 : t[n] = q[n + 1]
  BY TailIs
<1> HIDE DEF t
<1>2. IsFiniteSet(D) /\ Cardinality(D) \in Nat
  <2>1. IsFiniteSet(1 .. Len(t)) BY <1>1, FS_Interval
  <2>2. D \in SUBSET (1 .. Len(t)) OBVIOUS
  <2> QED BY <2>1, <2>2, FS_Subset, FS_CardinalityType
<1>3. \A n \in D : n + 1 \in M BY <1>1
<1>4. ASSUME NEW m \in M PROVE m - 1 \in D /\ (m - 1) + 1 = m
  <2>1. m - 1 \in 1 .. Len(q) - 1 /\ (m - 1) + 1 = m BY <1>1
  <2> QED BY <1>1, <2>1
<1>5. \A n \in D : n \in Int OBVIOUS
<1>6. 1 \notin M /\ (Head(q) = "data" => E = M \cup {1}) /\ (Head(q) # "data" => E = M)
  BY <1>1
<1> HIDE DEF D, E, M
<1>7. f \in Bijection(D, M)
  <2>1. f \in [D -> M] /\ \A n \in D : f[n] = n + 1 BY <1>3
  <2>2. \A m \in M : \E n \in D : f[n] = m BY <1>4, <2>1
  <2>3. \A n, k \in D : f[n] = f[k] => n = k BY <1>5, <2>1
  <2> QED BY <2>1, <2>2, <2>3 DEF Bijection, Injection, IsInjective, Surjection
<1>8. IsFiniteSet(M) /\ Cardinality(M) = Cardinality(D)
  BY <1>2, <1>7, FS_Bijection DEF ExistsBijection
<1>9. Cardinality(E) = IF Head(q) = "data" THEN Cardinality(D) + 1 ELSE Cardinality(D)
  BY <1>2, <1>6, <1>8, FS_AddElement
<1>10. DataIn(q) = Cardinality(E) BY DEF DataIn, E
<1>11. DataIn(Tail(q)) = Cardinality(D) BY DEF DataIn, D, t
<1> QED BY <1>2, <1>9, <1>10, <1>11

LEMMA NewQueue == /\ << >> \in Seq(BleEvents) /\ Len(<< >>) = 0 /\ Len(<< >>) <= EventDepth
                  /\ 0 \in 0 .. DataDepth
                  /\ \A e \in BleEvents : << >> \o <<e>> = <<e>>
<1>1. << >> \in Seq(BleEvents) /\ Len(<< >>) = 0 OBVIOUS
<1>2. \A e \in BleEvents : << >> \o <<e>> = <<e>> OBVIOUS
<1> QED BY <1>1, <1>2, DepthsAssumption


-----------------------------------------------------------------------------
LEMMA BleInitInv == BleInit => BleInv
<1> SUFFICES ASSUME BleInit PROVE BleInv
  OBVIOUS
<1>2. BleTypes BY NewQueue DEF BleInit, BleTypes
<1>3. Agree BY DEF BleInit, Agree, OffIn
<1>4. DataIn(event_mq) = 0 BY NoData DEF BleInit
<1> QED BY <1>2, <1>3, <1>4 DEF BleInit, BleInv

LEMMA ManagerInitInv == ASSUME BleInv, ManagerInit PROVE BleInv'
<1>1. << >> \in Seq(BleEvents) /\ Len(<< >>) = 0 OBVIOUS
<1>2. BleTypes' BY NewQueue DEF BleInv, ManagerInit, BleTypes
<1>3. callbacks = << >> /\ granted = "none" BY DEF BleInv, BleTypes, ManagerInit
<1>4. QuietIn' BY <1>1, <1>3 DEF ManagerInit, QuietIn, WillBack, WillManage, Unlinked
<1>5. DataIn(event_mq') = 0 BY NoData DEF ManagerInit
<1>6. Agree' BY <1>4 DEF ManagerInit, Agree
<1> QED BY <1>2, <1>5, <1>6 DEF ManagerInit, BleInv, DataIn

LEMMA ManagerInitFailsInv == ASSUME BleInv, ManagerInitFails PROVE BleInv'
<1>2. BleTypes' BY NewQueue DEF BleInv, ManagerInitFails, BleTypes
<1> QED BY <1>2 DEF ManagerInitFails, BleInv

LEMMA ManagerDeinitInv == ASSUME BleInv, ManagerDeinit PROVE BleInv'
<1>2. BleTypes' BY NewQueue DEF BleInv, ManagerDeinit, BleTypes
<1>3. ASSUME ~slipped' PROVE ~slipped /\ event_mq = << >> BY <1>3 DEF ManagerDeinit
<1>4. ASSUME ~slipped' PROVE Agree' BY <1>3, <1>4 DEF ManagerDeinit, Agree, OffIn
<1>5. ASSUME ~slipped' PROVE rx' = DataIn(event_mq') BY <1>3, <1>5 DEF ManagerDeinit, BleInv
<1> QED BY <1>2, <1>4, <1>5 DEF BleInv, DataIn

\* A call that begins slips if a callback waits; else the stack is as it says.
LEMMA StartAdvInv == ASSUME BleInv, NEW host \in BOOLEAN, StartAdv(host) PROVE BleInv'
<1>0. "adv started" \in BleEvents BY DEF BleEvents
<1>1. /\ asked = "none" /\ granted = "none" /\ manager \in Startable /\ stack # "off" /\ asked' = "start"
      /\ slipped' = (slipped \/ callbacks # << >>)
      /\ UNCHANGED <<manager, backend, event_mq, rx>>
      /\ granted' = IF backend \in Startable THEN "advertising" ELSE "none"
  BY DEF StartAdv, BleInv, BleTypes
<1>2. \/ stack = "idle" /\ stack' = "advertising" /\ callbacks' = callbacks \o <<"adv started">>
         /\ backend \in Startable
      \/ UNCHANGED <<stack, callbacks>> /\ (stack = "idle" => backend \notin Startable)
  BY DEF StartAdv, Advertise, CallsBack
<1>3. callbacks \in Seq(BleEvents) BY DEF BleInv, BleTypes
<1>4. callbacks' \in Seq(BleEvents)
  <2>1. callbacks \o <<"adv started">> \in Seq(BleEvents) BY <1>0, <1>3, AppendedIs
  <2> QED BY <1>2, <1>3, <2>1
<1>5. BleTypes' BY <1>1, <1>2, <1>4 DEF BleInv, BleTypes
<1>6. ASSUME ~slipped' PROVE Agree'
  <2>1. ~slipped /\ callbacks = << >> /\ Len(callbacks) = 0 BY <1>1, <1>6
  <2>2. Agree BY <2>1 DEF BleInv
  <2>3. WillBack = backend /\ WillManage = manager /\ WillManage' = "advertising"
        /\ WillBack' = IF backend \in Startable THEN "advertising" ELSE backend
    BY <1>1 DEF WillBack, WillManage
  <2>4. CASE stack = "idle"
    <3>1. QuietIn /\ backend = "ready" BY <2>1, <2>2, <2>3, <2>4 DEF Agree, LosingIn, QuietIn
    <3>a. callbacks \o <<"adv started">> = <<"adv started">> BY <1>0, <2>1, NewQueue
    <3>2. stack' = "advertising" /\ callbacks' = <<"adv started">> BY <1>2, <2>4, <3>1, <3>a DEF Startable
    <3>3. Unlinked(event_mq)' BY <1>1, <3>1 DEF QuietIn, Unlinked, Links
    <3> QED BY <2>3, <3>2, <3>3 DEF Agree, AdvertisingIn
  <2>5. CASE stack = "advertising"
    <3>1. AdvertisingIn /\ stack' = "advertising" /\ callbacks' = callbacks BY <1>2, <2>2, <2>5 DEF Agree
    <3>2. backend = "advertising" /\ Ended(event_mq, "disconnected")
      BY <1>1, <2>1, <2>3, <3>1 DEF AdvertisingIn, Startable
    <3>3. WillBack' = "advertising" /\ Ended(event_mq', "disconnected") BY <1>1, <2>3, <3>2
    <3> QED BY <2>1, <3>1, <3>3 DEF Agree, AdvertisingIn, Ended, Links
  <2>6. CASE stack = "connected"
    <3>1. ConnectedIn /\ stack' = "connected" /\ callbacks' = callbacks BY <1>2, <2>2, <2>6 DEF Agree
    <3>2. HeardIn BY <2>1, <3>1 DEF ConnectedIn
    <3>3. backend = "connected" /\ Ended(event_mq, "connected")
      BY <1>1, <2>3, <3>2 DEF HeardIn, Startable
    <3>4. WillBack' = "connected" /\ Ended(event_mq', "connected") BY <1>1, <2>3, <3>3 DEF Startable
    <3>5. HeardIn' BY <2>1, <3>1, <3>4 DEF HeardIn, Ended, Links
    <3> QED BY <2>1, <3>1, <3>5 DEF Agree, ConnectedIn
  <2> QED BY <1>1, <2>4, <2>5, <2>6 DEF BleInv, BleTypes
<1>7. ASSUME ~slipped' PROVE rx' = DataIn(event_mq') BY <1>1, <1>7 DEF BleInv
<1> QED BY <1>5, <1>6, <1>7 DEF BleInv, DataIn

LEMMA StartAdvFailsInv == ASSUME BleInv, NEW host, StartAdvFails(host) PROVE BleInv'
<1>1. BleTypes' BY DEF BleInv, BleTypes, StartAdvFails
<1> QED BY <1>1 DEF StartAdvFails, BleInv

LEMMA StopAdvFailsInv == ASSUME BleInv, StopAdvFails PROVE BleInv'
<1>1. BleTypes' BY DEF BleInv, BleTypes, StopAdvFails
<1> QED BY <1>1 DEF StopAdvFails, BleInv

LEMMA StopAdvInv == ASSUME BleInv, StopAdv PROVE BleInv'
<1>0. "adv stopped" \in BleEvents BY DEF BleEvents
<1>1. /\ asked = "none" /\ granted = "none" /\ manager = "advertising" /\ asked' = "stop"
      /\ slipped' = (slipped \/ callbacks # << >> \/ event_mq # << >>)
      /\ UNCHANGED <<manager, backend, event_mq, rx>>
      /\ granted' \in {"none", "ready"} /\ stack' \in {stack, "idle"} /\ (stack = "off" => stack' = "off")
      /\ callbacks' = callbacks \/ (callbacks' = callbacks \o <<"adv stopped">> /\ stack # "off")
  BY DEF StopAdv, BleInv, BleTypes, CallsBack
<1>2. callbacks \in Seq(BleEvents) BY DEF BleInv, BleTypes
<1>3. callbacks' \in Seq(BleEvents)
  <2>1. callbacks \o <<"adv stopped">> \in Seq(BleEvents) BY <1>0, <1>2, AppendedIs
  <2> QED BY <1>1, <1>2, <2>1
<1>a. stack' = "off" => stack = "off" BY <1>1
<1>b. stack = "off" => callbacks' = callbacks BY <1>1
<1>4. BleTypes' BY <1>1, <1>3, <1>a, <1>b DEF BleInv, BleTypes
<1>5. ASSUME ~slipped' PROVE Agree'
  <2>1. ~slipped /\ callbacks = << >> /\ event_mq = << >> BY <1>1, <1>5
  <2>2. Agree /\ Len(event_mq) = 0 /\ ~Ended(event_mq, "connected") /\ Unlinked(event_mq)
    BY <2>1, NewQueue DEF BleInv, Ended, Unlinked
  <2>3. WillBack = backend /\ WillManage = "advertising" BY <1>1 DEF WillBack, WillManage
  <2>5. stack = "advertising"
    <3>1. ~OffIn BY <1>1 DEF OffIn
    <3>2. ~QuietIn /\ ~LosingIn BY <2>1, <2>3 DEF QuietIn, LosingIn
    <3>3. ~ConnectedIn
      <4>1. \A n \in 1 .. Len(callbacks) : FALSE BY <2>1, NewQueue
      <4> QED BY <2>2, <2>3, <4>1 DEF ConnectedIn, HeardIn
    <3> QED BY <2>2, <3>1, <3>2, <3>3 DEF Agree, BleInv, BleTypes
  <2>6. backend = "advertising" BY <2>1, <2>2, <2>3, <2>5 DEF Agree, AdvertisingIn
  <2>7. callbacks \o <<"adv stopped">> = <<"adv stopped">> BY <1>0, <2>1, NewQueue
  <2>8. /\ granted' = "ready" /\ stack' = "idle" /\ callbacks' = <<"adv stopped">>
    BY <2>5, <2>6, <2>7 DEF StopAdv, CallsBack
  <2>9. WillBack' = "ready" /\ WillManage' = "ready" BY <1>1, <2>8 DEF WillBack, WillManage
  <2>10. Unlinked(event_mq)' BY <1>1, <2>2 DEF Unlinked, Links
  <2>11. QuietIn' BY <2>8, <2>9, <2>10 DEF QuietIn
  <2> QED BY <2>8, <2>11 DEF Agree
<1>6. ASSUME ~slipped' PROVE rx' = DataIn(event_mq') BY <1>1, <1>6 DEF BleInv
<1> QED BY <1>4, <1>5, <1>6 DEF BleInv, DataIn

LEMMA AdvStoredInv == ASSUME BleInv, AdvStored PROVE BleInv'
<1>1. BleTypes' BY DEF BleInv, BleTypes, AdvStored
<1>2. WillBack' = WillBack /\ WillManage' = WillManage
  BY DEF AdvStored, WillBack, WillManage, BleInv, BleTypes
<1>3. UNCHANGED <<stack, callbacks, event_mq, rx, slipped>> /\ asked # "none" BY DEF AdvStored
<1>4. ~OffIn BY <1>3 DEF OffIn
<1>5. Agree => Agree'
  BY <1>2, <1>3, <1>4 DEF Agree, QuietIn, LosingIn, AdvertisingIn, ConnectedIn, HeardIn, Unlinked, Ended, Links
<1> QED BY <1>1, <1>3, <1>5 DEF BleInv, DataIn

-----------------------------------------------------------------------------
\* The peer: a callback more.
LEMMA PostedInv ==
  ASSUME BleInv, NEW e \in {"connected", "disconnected", "written"}, CallsBack(<<e>>),
         stack \in {"advertising", "connected"}, stack' \in {"idle", "connected"},
         UNCHANGED <<manager, backend, event_mq, rx, asked, granted, slipped>>
  PROVE  /\ BleTypes'
         /\ callbacks' = Append(callbacks, e) /\ callbacks' # << >>
         /\ Len(callbacks') = Len(callbacks) + 1 /\ Len(callbacks) \in Nat
         /\ \A n \in 1 .. Len(callbacks) : callbacks'[n] = callbacks[n]
         /\ callbacks'[Len(callbacks) + 1] = e
         /\ WillBack' = WillBack /\ WillManage' = WillManage
         /\ ~slipped' => Agree
         /\ ~slipped' => rx' = DataIn(event_mq)'
<1>1. e \in BleEvents /\ callbacks \in Seq(BleEvents) BY DEF BleEvents, BleInv, BleTypes
<1>2. callbacks' = callbacks \o <<e>> BY DEF CallsBack
<1>3. /\ callbacks' = Append(callbacks, e) /\ callbacks' \in Seq(BleEvents) /\ callbacks' # << >>
      /\ Len(callbacks') = Len(callbacks) + 1 /\ Len(callbacks) \in Nat
      /\ \A n \in 1 .. Len(callbacks) : callbacks'[n] = callbacks[n]
      /\ callbacks'[Len(callbacks) + 1] = e
  BY <1>1, <1>2, AppendedIs
<1>4. BleTypes' BY <1>3 DEF BleInv, BleTypes
<1>5. WillBack' = WillBack /\ WillManage' = WillManage BY DEF WillBack, WillManage
<1>6. ~slipped' => Agree /\ rx' = DataIn(event_mq)' BY DEF BleInv, DataIn
<1> QED BY <1>3, <1>4, <1>5, <1>6

\* A queue of one callback.
LEMMA OneCallback == \A e : /\ Len(<<e>>) = 1 /\ <<e>>[1] = e
                           /\ \A n \in 1 .. Len(<<e>>) : <<e>>[n] = e /\ n = 1
  OBVIOUS

LEMMA PlacesBeside ==
  ASSUME NEW k \in Nat, NEW n \in 1 .. k
  PROVE  n + 1 # 1 /\ (n # 1 => n - 1 \in 1 .. k - 1 /\ (n - 1) + 1 = n)
  OBVIOUS

LEMMA LastPlace ==
  ASSUME NEW k \in Nat \ {0}, NEW j, j = k - 1
  PROVE  /\ j = 0 <=> k = 1
         /\ \A n \in 1 .. j : n + 1 = k <=> n = j
  OBVIOUS

LEMMA ConnectInv == ASSUME BleInv, Connect PROVE BleInv'
<1>1. /\ stack = "advertising" /\ stack' = "connected" /\ CallsBack(<<"connected">>)
      /\ UNCHANGED <<manager, backend, event_mq, rx, asked, granted, slipped>>
  BY DEF Connect
<1>2. /\ BleTypes' /\ (~slipped' => Agree /\ rx' = DataIn(event_mq)')
      /\ Len(callbacks') = Len(callbacks) + 1 /\ Len(callbacks) \in Nat
      /\ \A n \in 1 .. Len(callbacks) : callbacks'[n] = callbacks[n]
      /\ callbacks'[Len(callbacks) + 1] = "connected"
  BY <1>1, PostedInv
<1>3. ASSUME ~slipped' PROVE Agree'
  <2>1. callbacks \in {<< >>, <<"adv started">>} BY <1>1, <1>2, <1>3 DEF Agree, AdvertisingIn
  <2>2. \A n \in 1 .. Len(callbacks) : callbacks[n] = "adv started" /\ n = 1
    <3>1. CASE callbacks = << >>
      <4>1. \A n \in 1 .. Len(callbacks) : FALSE BY <3>1, NewQueue
      <4> QED BY <4>1
    <3>2. CASE callbacks = <<"adv started">>
      <4> QED BY <3>2, OneCallback
    <3> QED BY <2>1, <3>1, <3>2
  <2>3. \A n \in 1 .. Len(callbacks') : n \in 1 .. Len(callbacks) \/ n = Len(callbacks) + 1 BY <1>2
  <2>4. \A n \in 1 .. Len(callbacks') : /\ callbacks'[n] \in {"adv started", "connected", "written"}
                                        /\ callbacks'[n] = "adv started" => n = 1
    BY <1>2, <2>2, <2>3
  <2>5. Len(callbacks) + 1 \in 1 .. Len(callbacks') BY <1>2
  <2>6. ConnectedIn' BY <1>2, <2>4, <2>5 DEF ConnectedIn
  <2> QED BY <1>1, <2>6 DEF Agree
<1> QED BY <1>2, <1>3 DEF BleInv

LEMMA DisconnectInv == ASSUME BleInv, Disconnect PROVE BleInv'
<1>1. /\ stack = "connected" /\ stack' = "idle" /\ CallsBack(<<"disconnected">>)
      /\ UNCHANGED <<manager, backend, event_mq, rx, asked, granted, slipped>>
  BY DEF Disconnect
<1>2. /\ BleTypes' /\ (~slipped' => Agree /\ rx' = DataIn(event_mq)') /\ callbacks' # << >>
      /\ Len(callbacks') = Len(callbacks) + 1 /\ Len(callbacks) \in Nat
      /\ \A n \in 1 .. Len(callbacks) : callbacks'[n] = callbacks[n]
      /\ callbacks'[Len(callbacks) + 1] = "disconnected"
  BY <1>1, PostedInv
<1>3. ASSUME ~slipped' PROVE Agree'
  <2>1. \A n \in 1 .. Len(callbacks) : callbacks[n] # "disconnected" BY <1>1, <1>2, <1>3 DEF Agree, ConnectedIn
  <2>2. \A n \in 1 .. Len(callbacks') : n \in 1 .. Len(callbacks) \/ n = Len(callbacks) + 1 BY <1>2
  <2>3. \A n \in 1 .. Len(callbacks') : callbacks'[n] = "disconnected" <=> n = Len(callbacks')
    BY <1>2, <2>1, <2>2
  <2>4. LosingIn' BY <1>2, <2>3 DEF LosingIn
  <2> QED BY <1>1, <2>4 DEF Agree
<1> QED BY <1>2, <1>3 DEF BleInv

LEMMA WriteInv == ASSUME BleInv, Write PROVE BleInv'
<1>1. /\ stack = "connected" /\ stack' = "connected" /\ CallsBack(<<"written">>)
      /\ UNCHANGED <<manager, backend, event_mq, rx, asked, granted, slipped>>
  BY DEF Write
<1>2. /\ BleTypes' /\ (~slipped' => Agree /\ rx' = DataIn(event_mq)')
      /\ Len(callbacks') = Len(callbacks) + 1 /\ Len(callbacks) \in Nat
      /\ \A n \in 1 .. Len(callbacks) : callbacks'[n] = callbacks[n]
      /\ callbacks'[Len(callbacks) + 1] = "written"
      /\ WillBack' = WillBack /\ WillManage' = WillManage
  BY <1>1, PostedInv
<1>3. ASSUME ~slipped' PROVE Agree'
  <2>1. ConnectedIn BY <1>1, <1>2, <1>3 DEF Agree
  <2>2. \A n \in 1 .. Len(callbacks') : n \in 1 .. Len(callbacks) \/ n = Len(callbacks) + 1 BY <1>2
  <2>3. \A n \in 1 .. Len(callbacks') : /\ callbacks'[n] \in {"adv started", "connected", "written"}
                                        /\ callbacks'[n] = "adv started" => n = 1
    BY <1>2, <2>1, <2>2 DEF ConnectedIn
  <2>4. ASSUME NEW n \in 1 .. Len(callbacks), callbacks[n] = "connected" PROVE ConnectedIn'
    <3>1. n \in 1 .. Len(callbacks') /\ callbacks'[n] = "connected" BY <1>2, <2>4
    <3> QED BY <2>3, <3>1 DEF ConnectedIn
  <2>5. ASSUME HeardIn PROVE ConnectedIn'
    <3>1. \A n \in 1 .. Len(callbacks') : callbacks'[n] = "written" BY <1>2, <2>2, <2>5 DEF HeardIn
    <3>2. event_mq' = event_mq BY <1>1
    <3>3. HeardIn' BY <1>2, <2>5, <3>1, <3>2 DEF HeardIn, Ended, Unlinked, Links
    <3> QED BY <2>3, <3>3 DEF ConnectedIn
  <2>6. ConnectedIn' BY <2>1, <2>4, <2>5 DEF ConnectedIn
  <2> QED BY <1>1, <2>6 DEF Agree
<1> QED BY <1>2, <1>3 DEF BleInv

-----------------------------------------------------------------------------
\* The stack makes its callbacks: one of them less, and an event more if there is room.
LEMMA SendsIs ==
  ASSUME BleInv, NEW e \in BleEvents, Sends(e)
  PROVE  /\ event_mq \in Seq(BleEvents)
         /\ event_mq' \in Seq(BleEvents) /\ Len(event_mq') <= EventDepth
         /\ Len(event_mq) # EventDepth => event_mq' = Append(event_mq, e)
<1>1. event_mq \in Seq(BleEvents) /\ Len(event_mq) <= EventDepth BY DEF BleInv, BleTypes
<1>2. /\ Append(event_mq, e) \in Seq(BleEvents) /\ Len(Append(event_mq, e)) = Len(event_mq) + 1
      /\ Len(event_mq) \in Nat
  BY <1>1, AppendedIs
<1>3. CASE Len(event_mq) < EventDepth BY <1>1, <1>2, <1>3, DepthsAssumption DEF Sends
<1>4. CASE ~(Len(event_mq) < EventDepth) BY <1>1, <1>2, <1>4, DepthsAssumption DEF Sends
<1> QED BY <1>3, <1>4

LEMMA CalledIs ==
  ASSUME BleInv, NEW e, Is(e)
  PROVE  /\ stack # "off" /\ callbacks \in Seq(BleEvents) /\ callbacks # << >> /\ callbacks[1] = e
         /\ Tail(callbacks) \in Seq(BleEvents) /\ Len(Tail(callbacks)) = Len(callbacks) - 1
         /\ Len(callbacks) \in Nat \ {0}
         /\ \A n \in 1 .. Len(Tail(callbacks)) :
              n + 1 \in 1 .. Len(callbacks) /\ Tail(callbacks)[n] = callbacks[n + 1]
         /\ Len(callbacks) = 1 => Tail(callbacks) = << >>
         /\ 1 \in 1 .. Len(callbacks) /\ Len(Tail(callbacks)) \in Nat
<1>1. callbacks \in Seq(BleEvents) /\ callbacks # << >> /\ Head(callbacks) = e /\ stack # "off"
  BY DEF BleInv, BleTypes, Is
<1>2. /\ Tail(callbacks) \in Seq(BleEvents) /\ Len(Tail(callbacks)) = Len(callbacks) - 1
      /\ Len(callbacks) \in Nat \ {0} /\ Head(callbacks) = callbacks[1]
      /\ \A n \in 1 .. Len(callbacks) - 1 : Tail(callbacks)[n] = callbacks[n + 1]
      /\ Len(callbacks) = 1 => Tail(callbacks) = << >>
  BY <1>1, TailIs
<1>3. \A n \in 1 .. Len(Tail(callbacks)) : n \in 1 .. Len(callbacks) - 1 /\ n + 1 \in 1 .. Len(callbacks)
  BY <1>2
<1>4. Len(callbacks) \in Nat \ {0} BY <1>2
<1>5. 1 \in 1 .. Len(callbacks) BY <1>4
<1>6. Len(Tail(callbacks)) \in Nat BY <1>2, <1>4
<1> QED BY <1>1, <1>2, <1>3, <1>5, <1>6

\* What the callbacks that stay still tell.
LEMMA CallbackTaken ==
  ASSUME BleInv, NEW e, Is(e), callbacks' = Tail(callbacks)
  PROVE  /\ e # "disconnected" /\ LosingIn => LosingIn'
         /\ ConnectedIn => \A n \in 1 .. Len(callbacks') : callbacks'[n] \in {"connected", "written"}
         /\ e # "connected" /\ (\E n \in 1 .. Len(callbacks) : callbacks[n] = "connected")
              => \E n \in 1 .. Len(callbacks') : callbacks'[n] = "connected"
         /\ (\A n \in 1 .. Len(callbacks) : callbacks[n] = "written")
              => e = "written" /\ \A n \in 1 .. Len(callbacks') : callbacks'[n] = "written"
<1>1. /\ callbacks[1] = e
      /\ \A n \in 1 .. Len(callbacks') : n + 1 \in 1 .. Len(callbacks) /\ callbacks'[n] = callbacks[n + 1]
  BY CalledIs
<1>2. /\ 1 \in 1 .. Len(callbacks) /\ Len(callbacks) \in Nat \ {0} /\ Len(callbacks) \in Nat
      /\ Len(callbacks') \in Nat /\ Len(callbacks') = Len(callbacks) - 1
  BY CalledIs
<1>3. ASSUME e # "disconnected", LosingIn PROVE LosingIn'
  <2>1. Len(callbacks) # 1
    <3>1. callbacks[1] # "disconnected" BY <1>1, <1>3
    <3> QED BY <1>2, <1>3, <3>1 DEF LosingIn
  <2>2. Len(callbacks') # 0 BY <1>2, <2>1, LastPlace
  <2>3. callbacks' # << >> BY <2>2, NewQueue
  <2>4. \A n \in 1 .. Len(callbacks') : n + 1 = Len(callbacks) <=> n = Len(callbacks') BY <1>2, LastPlace
  <2>5. \A n \in 1 .. Len(callbacks') : callbacks'[n] = "disconnected" <=> n = Len(callbacks')
    BY <1>1, <1>3, <2>4 DEF LosingIn
  <2> QED BY <2>3, <2>5 DEF LosingIn
<1>4. ASSUME ConnectedIn, NEW n \in 1 .. Len(callbacks') PROVE callbacks'[n] \in {"connected", "written"}
  <2>1. n + 1 # 1 BY <1>2, PlacesBeside
  <2> QED BY <1>1, <1>4, <2>1 DEF ConnectedIn
<1>5. ASSUME e # "connected", NEW n \in 1 .. Len(callbacks), callbacks[n] = "connected"
      PROVE  \E m \in 1 .. Len(callbacks') : callbacks'[m] = "connected"
  <2>1. n # 1 BY <1>1, <1>5
  <2>2. n - 1 \in 1 .. Len(callbacks') /\ (n - 1) + 1 = n BY <1>2, <2>1, PlacesBeside
  <2>3. callbacks'[n - 1] = "connected" BY <1>1, <1>5, <2>2
  <2> QED BY <2>2, <2>3
<1>6. ASSUME \A n \in 1 .. Len(callbacks) : callbacks[n] = "written"
      PROVE  e = "written" /\ \A n \in 1 .. Len(callbacks') : callbacks'[n] = "written"
  BY <1>1, <1>2, <1>6
<1> QED BY <1>3, <1>4, <1>5, <1>6

LEMMA GapCallbackInv == ASSUME BleInv, GapCallback PROVE BleInv'
<1>1. PICK e \in {"adv started", "adv stopped", "connected"} :
        /\ Is(e) /\ Sends(e) /\ Slips
        /\ backend' = GapState[e] /\ callbacks' = Tail(callbacks)
        /\ UNCHANGED <<manager, stack, rx, asked, granted>>
  BY DEF GapCallback, GapState
<1>2. e \in BleEvents BY DEF BleEvents
<1>3. /\ stack # "off" /\ callbacks # << >> /\ callbacks[1] = e
      /\ callbacks' \in Seq(BleEvents)
  BY <1>1, CalledIs
<1>b. Len(callbacks) = 1 => callbacks' = << >> BY <1>1, CalledIs
<1>4. /\ event_mq \in Seq(BleEvents) /\ event_mq' \in Seq(BleEvents) /\ Len(event_mq') <= EventDepth
      /\ Len(event_mq) # EventDepth => event_mq' = Append(event_mq, e)
  BY <1>1, <1>2, SendsIs
<1>5. slipped' \in BOOLEAN BY <1>1 DEF Slips, BleInv, BleTypes
<1>6. BleTypes' BY <1>1, <1>3, <1>4, <1>5 DEF BleInv, BleTypes
<1>7. ASSUME ~slipped' PROVE Agree' /\ rx' = DataIn(event_mq')
  <2>1. /\ ~slipped /\ asked = "none" /\ granted = "none" /\ event_mq' = Append(event_mq, e)
    BY <1>1, <1>4, <1>7 DEF Slips, BleInv, BleTypes
  <2>2. Agree /\ rx = DataIn(event_mq) BY <2>1 DEF BleInv
  <2>3. rx' = DataIn(event_mq') BY <1>1, <1>2, <1>4, <2>1, <2>2, DataAppended
  <2>4. WillBack = backend /\ WillBack' = GapState[e] /\ WillManage' = WillManage
    BY <1>1, <2>1 DEF WillBack, WillManage
  <2>5. /\ e \in Links => Ended(event_mq', e)
        /\ e \notin Links /\ Unlinked(event_mq) => Unlinked(event_mq')
        /\ e \notin Links => \A mark : Ended(event_mq, mark) => Ended(event_mq', mark)
    BY <1>2, <1>4, <2>1, EndAppended
  <2>6. CASE stack = "idle"
    <3>1. CASE QuietIn
      <4>1. callbacks = <<"adv stopped">> BY <1>3, <3>1 DEF QuietIn
      <4>2. e = "adv stopped" /\ callbacks' = << >> BY <1>3, <1>b, <4>1, OneCallback
      <4>3. Unlinked(event_mq') BY <2>5, <3>1, <4>2 DEF QuietIn, Links
      <4>4. WillBack' = "ready" /\ WillManage' = "ready" BY <2>4, <3>1, <4>2 DEF QuietIn, GapState
      <4>5. QuietIn' BY <4>2, <4>3, <4>4 DEF QuietIn, Unlinked, Links
      <4> QED BY <1>1, <2>3, <2>6, <4>5 DEF Agree
    <3>2. CASE LosingIn
      <4>1. e # "disconnected" BY <1>1
      <4>2. LosingIn' BY <1>1, <3>2, <4>1, CallbackTaken
      <4> QED BY <1>1, <2>3, <2>6, <4>2 DEF Agree
    <3> QED BY <2>2, <2>6, <3>1, <3>2 DEF Agree
  <2>7. CASE stack = "advertising"
    <3>1. AdvertisingIn BY <2>2, <2>7 DEF Agree
    <3>2. callbacks = <<"adv started">> BY <1>3, <3>1 DEF AdvertisingIn
    <3>3. e = "adv started" /\ callbacks' = << >> BY <1>3, <1>b, <3>2, OneCallback
    <3>4. WillBack' = "advertising" BY <2>4, <3>3 DEF GapState
    <3>5. Ended(event_mq', "disconnected") \/ (Unlinked(event_mq') /\ WillManage' = "advertising")
      BY <2>4, <2>5, <3>1, <3>3 DEF AdvertisingIn, Links
    <3>6. AdvertisingIn' BY <3>3, <3>4, <3>5 DEF AdvertisingIn, Ended, Unlinked, Links
    <3> QED BY <1>1, <2>3, <2>7, <3>6 DEF Agree
  <2>8. CASE stack = "connected"
    <3>1. ConnectedIn BY <2>2, <2>8 DEF Agree
    <3>2. \A n \in 1 .. Len(callbacks') : callbacks'[n] \in {"connected", "written"}
      BY <1>1, <3>1, CallbackTaken
    <3>a. ASSUME NEW n \in 1 .. Len(callbacks'), callbacks'[n] = "connected" PROVE ConnectedIn'
      BY <3>2, <3>a DEF ConnectedIn
    <3>3. ASSUME e = "connected" PROVE ConnectedIn'
      <4>1. CASE \E n \in 1 .. Len(callbacks') : callbacks'[n] = "connected"
        BY <3>a, <4>1
      <4>2. CASE ~ \E n \in 1 .. Len(callbacks') : callbacks'[n] = "connected"
        <5>1. \A n \in 1 .. Len(callbacks') : callbacks'[n] = "written" BY <3>2, <4>2
        <5>2. Ended(event_mq', "connected") /\ WillBack' = "connected"
          BY <2>4, <2>5, <3>3 DEF Links, GapState
        <5>3. HeardIn' BY <5>1, <5>2 DEF HeardIn, Ended, Links
        <5> QED BY <3>2, <5>3 DEF ConnectedIn
      <4> QED BY <4>1, <4>2
    <3>4. ASSUME e # "connected" PROVE ConnectedIn'
      <4>1. e # "written" BY <1>1
      <4>2. \E n \in 1 .. Len(callbacks) : callbacks[n] = "connected"
        BY <1>1, <3>1, <4>1, CallbackTaken DEF ConnectedIn, HeardIn
      <4>3. \E n \in 1 .. Len(callbacks') : callbacks'[n] = "connected"
        BY <1>1, <3>4, <4>2, CallbackTaken
      <4> QED BY <3>a, <4>3
    <3>5. ConnectedIn' BY <3>3, <3>4
    <3> QED BY <1>1, <2>3, <2>8, <3>5 DEF Agree
  <2>9. stack \in {"off", "idle", "advertising", "connected"} BY DEF BleInv, BleTypes
  <2> QED BY <1>3,  <2>6, <2>7, <2>8, <2>9
<1> QED BY <1>6, <1>7 DEF BleInv, DataIn

LEMMA GapLostInv == ASSUME BleInv, GapLost PROVE BleInv'
<1>1. /\ Is("disconnected") /\ Sends("disconnected") /\ Slips /\ backend' = "advertising"
      /\ callbacks' = Tail(callbacks) \o (IF stack = "idle" THEN <<"adv started">> ELSE << >>)
      /\ stack' = IF stack = "idle" THEN "advertising" ELSE stack
      /\ UNCHANGED <<manager, rx, asked, granted>>
  BY DEF GapLost
<1>2. {"disconnected", "adv started"} \subseteq BleEvents BY DEF BleEvents
<1>3. /\ stack # "off" /\ callbacks \in Seq(BleEvents) /\ callbacks # << >> /\ callbacks[1] = "disconnected"
      /\ Tail(callbacks) \in Seq(BleEvents)
  BY <1>1, CalledIs
<1>4. 1 \in 1 .. Len(callbacks) BY <1>1, CalledIs
<1>5. Len(callbacks) = 1 => Tail(callbacks) = << >> BY <1>1, CalledIs
<1>6. /\ event_mq \in Seq(BleEvents) /\ event_mq' \in Seq(BleEvents) /\ Len(event_mq') <= EventDepth
      /\ Len(event_mq) # EventDepth => event_mq' = Append(event_mq, "disconnected")
  BY <1>1, <1>2, SendsIs
<1>7. callbacks' \in Seq(BleEvents)
  <2>1. CASE stack = "idle" BY <1>1, <1>2, <1>3, <2>1, AppendedIs
  <2>2. CASE stack # "idle"
    <3>1. << >> \in Seq(BleEvents) BY NewQueue
    <3>2. Tail(callbacks) \o << >> \in Seq(BleEvents)
      <4> HIDE DEF BleEvents
      <4> QED BY <1>3, <3>1
    <3> QED BY <1>1, <2>2, <3>2
  <2> QED BY <2>1, <2>2
<1>8. slipped' \in BOOLEAN BY <1>1 DEF Slips, BleInv, BleTypes
<1>9. BleTypes' BY <1>1, <1>3, <1>6, <1>7, <1>8 DEF BleInv, BleTypes
<1>10. ASSUME ~slipped' PROVE Agree' /\ rx' = DataIn(event_mq')
  <2>1. ~slipped /\ asked = "none" /\ granted = "none" /\ event_mq' = Append(event_mq, "disconnected")
    BY <1>1, <1>6, <1>10 DEF Slips, BleInv, BleTypes
  <2>2. Agree /\ rx = DataIn(event_mq) BY <2>1 DEF BleInv
  <2>3. rx' = DataIn(event_mq') BY <1>1, <1>2, <1>6, <2>1, <2>2, DataAppended
  <2>4. Ended(event_mq', "disconnected") BY <1>2, <1>6, <2>1, EndAppended DEF Links
  <2>5. stack # "advertising"
    <3>1. callbacks # <<"adv started">> BY <1>3, OneCallback
    <3> QED BY <1>3, <2>2, <3>1 DEF Agree, AdvertisingIn
  <2>6. stack # "connected" BY <1>3, <1>4, <2>2 DEF Agree, ConnectedIn
  <2>7. stack = "idle" BY <1>3, <2>5, <2>6 DEF BleInv, BleTypes
  <2>8. ~QuietIn
    <3>1. callbacks # <<"adv stopped">> BY <1>3, OneCallback
    <3> QED BY <1>3, <3>1 DEF QuietIn
  <2>9. Len(callbacks) = 1
    <3>1. LosingIn BY <2>2, <2>7, <2>8 DEF Agree
    <3>2. 1 = Len(callbacks) BY <1>3, <1>4, <3>1 DEF LosingIn
    <3> QED BY <3>2
  <2>10. callbacks' = <<"adv started">> BY <1>1, <1>2, <1>5, <2>7, <2>9, NewQueue
  <2>11. AdvertisingIn' BY <2>4, <2>10, NewQueue, OneCallback DEF AdvertisingIn, Ended, Links
  <2> QED BY <1>1, <2>3, <2>7, <2>11 DEF Agree
<1> QED BY <1>9, <1>10 DEF BleInv, DataIn

LEMMA GapLostUnheardInv == ASSUME BleInv, GapLostUnheard PROVE BleInv'
<1>1. Is("disconnected") /\ Sends("disconnected") /\ callbacks' = Tail(callbacks) /\ "disconnected" \in BleEvents
  BY DEF GapLostUnheard, BleEvents
<1>2. stack # "off" /\ callbacks' \in Seq(BleEvents) BY <1>1, CalledIs
<1>3. event_mq' \in Seq(BleEvents) /\ Len(event_mq') <= EventDepth BY <1>1, SendsIs
<1>4. BleTypes' BY <1>2, <1>3 DEF BleInv, BleTypes, GapLostUnheard
<1> QED BY <1>4 DEF BleInv, GapLostUnheard

LEMMA GattWriteInv == ASSUME BleInv, GattWrite PROVE BleInv'
<1>1. /\ Is("written") /\ Sends("data") /\ callbacks' = Tail(callbacks)
      /\ rx' = IF rx < DataDepth THEN rx + 1 ELSE rx
      /\ slipped' = (slipped \/ rx = DataDepth \/ Len(event_mq) = EventDepth)
      /\ UNCHANGED <<manager, backend, stack, asked, granted>>
      /\ "data" \in BleEvents
  BY DEF GattWrite, BleEvents
<1>2. /\ stack # "off" /\ callbacks # << >> /\ callbacks[1] = "written"
      /\ callbacks' \in Seq(BleEvents)
  BY <1>1, CalledIs
<1>3. /\ event_mq \in Seq(BleEvents) /\ event_mq' \in Seq(BleEvents) /\ Len(event_mq') <= EventDepth
      /\ Len(event_mq) # EventDepth => event_mq' = Append(event_mq, "data")
  BY <1>1, SendsIs
<1>4. rx \in 0 .. DataDepth /\ rx' \in 0 .. DataDepth /\ (rx # DataDepth => rx' = rx + 1)
  BY <1>1, DepthsAssumption DEF BleInv, BleTypes
<1>5. BleTypes' BY <1>1, <1>2, <1>3, <1>4 DEF BleInv, BleTypes
<1>6. ASSUME ~slipped' PROVE Agree' /\ rx' = DataIn(event_mq')
  <2>1. ~slipped /\ rx' = rx + 1 /\ event_mq' = Append(event_mq, "data") BY <1>1, <1>3, <1>4, <1>6
  <2>2. Agree /\ rx = DataIn(event_mq) BY <2>1 DEF BleInv
  <2>3. rx' = DataIn(event_mq') BY <1>1, <1>3, <2>1, <2>2, DataAppended
  <2>4. WillBack' = WillBack /\ WillManage' = WillManage BY <1>1 DEF WillBack, WillManage
  <2>5. stack # "advertising"
    <3>1. callbacks # <<"adv started">> BY <1>2, OneCallback
    <3> QED BY <1>2, <2>2, <3>1 DEF Agree, AdvertisingIn
  <2>6. CASE stack = "idle"
    <3>1. ~QuietIn
      <4>1. callbacks # <<"adv stopped">> BY <1>2, OneCallback
      <4> QED BY <1>2, <4>1 DEF QuietIn
    <3>2. LosingIn' BY <1>1, <2>2, <2>6, <3>1, CallbackTaken DEF Agree
    <3> QED BY <1>1, <2>3, <2>6, <3>2 DEF Agree
  <2>7. CASE stack = "connected"
    <3>1. ConnectedIn BY <2>2, <2>7 DEF Agree
    <3>2. \A n \in 1 .. Len(callbacks') : callbacks'[n] \in {"connected", "written"}
      BY <1>1, <3>1, CallbackTaken
    <3>3. ASSUME \E n \in 1 .. Len(callbacks) : callbacks[n] = "connected" PROVE ConnectedIn'
      <4>1. \E n \in 1 .. Len(callbacks') : callbacks'[n] = "connected" BY <1>1, <3>3, CallbackTaken
      <4> QED BY <3>2, <4>1 DEF ConnectedIn
    <3>4. ASSUME HeardIn PROVE ConnectedIn'
      <4>1. \A n \in 1 .. Len(callbacks') : callbacks'[n] = "written"
        BY <1>1, <3>4, CallbackTaken DEF HeardIn
      <4>2. /\ Ended(event_mq, "connected") => Ended(event_mq', "connected")
            /\ Unlinked(event_mq) => Unlinked(event_mq')
        BY <1>1, <1>3, <2>1, EndAppended DEF Links
      <4>3. HeardIn' BY <2>4, <3>4, <4>1, <4>2 DEF HeardIn, Ended, Unlinked, Links
      <4> QED BY <3>2, <4>3 DEF ConnectedIn
    <3>5. ConnectedIn' BY <3>1, <3>3, <3>4 DEF ConnectedIn
    <3> QED BY <1>1, <2>3, <2>7, <3>5 DEF Agree
  <2>8. stack \in {"off", "idle", "advertising", "connected"} BY DEF BleInv, BleTypes
  <2> QED BY <1>2, <2>5, <2>6, <2>7, <2>8
<1> QED BY <1>5, <1>6 DEF BleInv, DataIn

-----------------------------------------------------------------------------
\* The host task takes an event.
LEMMA EventTaken ==
  ASSUME BleInv, NEW e, Takes(e)
  PROVE  /\ event_mq # << >> /\ event_mq' \in Seq(BleEvents) /\ Len(event_mq') <= EventDepth
         /\ Unlinked(event_mq) => Unlinked(event_mq') /\ e \notin Links
         /\ \A mark : Ended(event_mq, mark) => Ended(event_mq', mark) \/ (e = mark /\ Unlinked(event_mq'))
         /\ DataIn(event_mq') \in Nat
         /\ DataIn(event_mq) = IF e = "data" THEN DataIn(event_mq') + 1 ELSE DataIn(event_mq')
<1>1. /\ event_mq \in Seq(BleEvents) /\ Len(event_mq) <= EventDepth /\ event_mq # << >>
      /\ Head(event_mq) = e /\ event_mq' = Tail(event_mq)
  BY DEF Takes, BleInv, BleTypes
<1>2. /\ event_mq' \in Seq(BleEvents) /\ Len(event_mq) \in Nat /\ Len(event_mq') = Len(event_mq) - 1
  BY <1>1, TailIs
<1>3. Len(event_mq') <= EventDepth BY <1>1, <1>2, DepthsAssumption
<1> QED BY <1>1, <1>2, <1>3, EndTaken, DataTaken

LEMMA HostTakes ==
  ASSUME BleInv, ~slipped, NEW e, Takes(e),
         UNCHANGED <<stack, callbacks>>, WillBack' = WillBack,
         \/ e \notin Links /\ WillManage' = WillManage
         \/ e = "connected" /\ WillManage' = "connected"
         \/ e = "disconnected" /\ WillManage' = "advertising"
  PROVE  Agree'
<1>1. /\ event_mq # << >>
      /\ Unlinked(event_mq) => Unlinked(event_mq') /\ e \notin Links
      /\ \A mark : Ended(event_mq, mark) => Ended(event_mq', mark) \/ (e = mark /\ Unlinked(event_mq'))
  BY EventTaken
<1>2. Agree BY DEF BleInv
<1>3. stack # "off" BY <1>1, <1>2 DEF Agree, OffIn
<1>4. ASSUME QuietIn PROVE QuietIn' BY <1>1, <1>4 DEF QuietIn, Unlinked, Links
<1>5. ASSUME LosingIn PROVE LosingIn' BY <1>5 DEF LosingIn
<1>6. ASSUME NEW mark \in Links, NEW will,
             mark = "connected" => will = "connected",
             mark = "disconnected" => will = "advertising",
             Ended(event_mq, mark) \/ (Unlinked(event_mq) /\ WillManage = will)
      PROVE  Ended(event_mq', mark) \/ (Unlinked(event_mq') /\ WillManage' = will)
  BY <1>1, <1>6 DEF Links
<1>7. ASSUME AdvertisingIn PROVE AdvertisingIn'
  <2>1. Ended(event_mq', "disconnected") \/ (Unlinked(event_mq') /\ WillManage' = "advertising")
    BY <1>6, <1>7 DEF AdvertisingIn, Links
  <2> QED BY <1>7, <2>1 DEF AdvertisingIn, Ended, Unlinked, Links
<1>8. ASSUME HeardIn PROVE HeardIn'
  <2>1. Ended(event_mq', "connected") \/ (Unlinked(event_mq') /\ WillManage' = "connected")
    BY <1>6, <1>8 DEF HeardIn, Links
  <2> QED BY <1>8, <2>1 DEF HeardIn, Ended, Unlinked, Links
<1>9. ASSUME ConnectedIn PROVE ConnectedIn' BY <1>8, <1>9 DEF ConnectedIn
<1> QED BY <1>2, <1>3, <1>4, <1>5, <1>7, <1>9 DEF Agree

LEMMA HostSeesAdvInv == ASSUME BleInv, HostSeesAdv PROVE BleInv'
<1>1. PICK e \in {"adv started", "adv stopped"} :
        Takes(e) /\ UNCHANGED <<manager, backend, stack, callbacks, rx, asked, granted, slipped>>
  BY DEF HostSeesAdv
<1>2. /\ event_mq' \in Seq(BleEvents) /\ Len(event_mq') <= EventDepth
      /\ DataIn(event_mq) = DataIn(event_mq')
  BY <1>1, EventTaken
<1>3. BleTypes' BY <1>1, <1>2 DEF BleInv, BleTypes
<1>4. WillBack' = WillBack /\ WillManage' = WillManage BY <1>1 DEF WillBack, WillManage
<1>5. e \notin Links BY <1>1 DEF Links
<1>6. ASSUME ~slipped' PROVE Agree' BY <1>1, <1>4, <1>5, <1>6, HostTakes
<1> QED BY <1>1, <1>2, <1>3, <1>6 DEF BleInv, DataIn

LEMMA HostConnectedInv == ASSUME BleInv, HostConnected PROVE BleInv'
<1>1. /\ Takes("connected") /\ manager' = "connected" /\ slipped' = (slipped \/ asked # "none")
      /\ UNCHANGED <<backend, stack, callbacks, rx, asked, granted>>
  BY DEF HostConnected
<1>2. /\ event_mq' \in Seq(BleEvents) /\ Len(event_mq') <= EventDepth
      /\ DataIn(event_mq) = DataIn(event_mq')
  BY <1>1, EventTaken
<1>3. BleTypes' BY <1>1, <1>2 DEF BleInv, BleTypes
<1>4. ASSUME ~slipped' PROVE ~slipped /\ WillBack' = WillBack /\ WillManage' = "connected"
  BY <1>1, <1>4 DEF WillBack, WillManage
<1>5. ASSUME ~slipped' PROVE Agree' BY <1>1, <1>4, <1>5, HostTakes
<1> QED BY <1>1, <1>2, <1>3, <1>4, <1>5 DEF BleInv, DataIn

\* With the backend advertising already, the call the host task makes changes nothing.
LEMMA HostDisconnectedInv == ASSUME BleInv, HostDisconnected PROVE BleInv'
<1>1. /\ Takes("disconnected") /\ asked = "none" /\ granted = "none" /\ asked' = "start"
      /\ slipped' = (slipped \/ backend \in Startable)
      /\ UNCHANGED <<backend, rx>> /\ granted' \in {"none", "advertising"}
  BY DEF HostDisconnected, BleInv, BleTypes
<1>2. /\ event_mq' \in Seq(BleEvents) /\ Len(event_mq') <= EventDepth
      /\ DataIn(event_mq) = DataIn(event_mq')
  BY <1>1, EventTaken
<1>3. \/ stack = "idle" /\ stack' = "advertising" /\ callbacks' = callbacks \o <<"adv started">>
      \/ UNCHANGED <<stack, callbacks>>
  BY DEF HostDisconnected, Advertise, CallsBack
<1>4. callbacks \in Seq(BleEvents) /\ "adv started" \in BleEvents BY DEF BleInv, BleTypes, BleEvents
<1>5. callbacks \o <<"adv started">> \in Seq(BleEvents) BY <1>4, AppendedIs
<1>6. BleTypes' BY <1>1, <1>2, <1>3, <1>4, <1>5 DEF BleInv, BleTypes
<1>7. ASSUME ~slipped' PROVE ~slipped /\ UNCHANGED <<stack, callbacks>> /\ granted' = "none"
  BY <1>1, <1>7 DEF HostDisconnected
<1>8. ASSUME ~slipped' PROVE WillBack' = WillBack /\ WillManage' = "advertising"
  BY <1>1, <1>7, <1>8 DEF WillBack, WillManage
<1>9. ASSUME ~slipped' PROVE Agree' BY <1>1, <1>7, <1>8, <1>9, HostTakes
<1> QED BY <1>1, <1>2, <1>6, <1>7, <1>9 DEF BleInv, DataIn

LEMMA HostDataInv == ASSUME BleInv, HostData PROVE BleInv'
<1>1. /\ Takes("data") /\ rx' = IF listening /\ rx > 0 THEN rx - 1 ELSE rx
      /\ slipped' = (slipped \/ ~listening)
      /\ UNCHANGED <<manager, backend, stack, callbacks, asked, granted>>
  BY DEF HostData
<1>2. /\ event_mq' \in Seq(BleEvents) /\ Len(event_mq') <= EventDepth
      /\ DataIn(event_mq') \in Nat /\ DataIn(event_mq) = DataIn(event_mq') + 1
  BY <1>1, EventTaken
<1>3. rx \in 0 .. DataDepth /\ rx' \in 0 .. DataDepth BY <1>1, DepthsAssumption DEF BleInv, BleTypes
<1>4. slipped' \in BOOLEAN BY <1>1 DEF BleInv, BleTypes
<1>5. BleTypes' BY <1>1, <1>2, <1>3, <1>4 DEF BleInv, BleTypes
<1>6. ASSUME ~slipped' PROVE Agree' /\ rx' = DataIn(event_mq')
  <2>1. ~slipped /\ listening /\ rx = DataIn(event_mq) BY <1>1, <1>6 DEF BleInv
  <2>2. rx' = DataIn(event_mq') BY <1>1, <1>2, <2>1
  <2>3. WillBack' = WillBack /\ WillManage' = WillManage BY <1>1 DEF WillBack, WillManage
  <2>4. "data" \notin Links BY DEF Links
  <2>5. Agree' BY <1>1, <2>1, <2>3, <2>4, HostTakes
  <2> QED BY <2>2, <2>5
<1> QED BY <1>5, <1>6 DEF BleInv, DataIn

-----------------------------------------------------------------------------
LEMMA BleStepInv == ASSUME BleInv, [BleNext]_bleVars PROVE BleInv'
<1>1. ASSUME UNCHANGED <<manager, backend, stack, callbacks, event_mq, rx, asked, granted, slipped>>
      PROVE  BleInv'
  <2>1. BleTypes' BY <1>1 DEF BleInv, BleTypes
  <2>2. WillBack' = WillBack /\ WillManage' = WillManage BY <1>1 DEF WillBack, WillManage
  <2>3. event_mq' = event_mq /\ callbacks' = callbacks BY <1>1
  <2>4. OffIn' = OffIn BY <1>1 DEF OffIn
  <2>5. QuietIn => QuietIn' BY <2>2, <2>3 DEF QuietIn, Unlinked, Links
  <2>6. LosingIn => LosingIn' BY <2>3 DEF LosingIn
  <2>7. AdvertisingIn => AdvertisingIn' BY <2>2, <2>3 DEF AdvertisingIn, Unlinked, Ended, Links
  <2>8. HeardIn => HeardIn' BY <2>2, <2>3 DEF HeardIn, Unlinked, Ended, Links
  <2>9. ConnectedIn => ConnectedIn' BY <2>3, <2>8 DEF ConnectedIn
  <2>10. Agree => Agree' BY <1>1, <2>4, <2>5, <2>6, <2>7, <2>9 DEF Agree
  <2> QED BY <1>1, <2>1, <2>3, <2>10 DEF BleInv, DataIn
<1>2. CASE SetDataCallback \/ SendQueued \/ UNCHANGED bleVars
  BY <1>1, <1>2 DEF SetDataCallback, SendQueued, bleVars
<1>3. CASE ManagerInit \/ ManagerInitFails \/ ManagerDeinit
  BY <1>3, ManagerInitInv, ManagerInitFailsInv, ManagerDeinitInv
<1>4. CASE StopAdv \/ StopAdvFails \/ AdvStored \/ \E host \in BOOLEAN : StartAdv(host) \/ StartAdvFails(host)
  BY <1>4, StopAdvInv, StopAdvFailsInv, AdvStoredInv, StartAdvInv, StartAdvFailsInv
<1>5. CASE Connect \/ Disconnect \/ Write BY <1>5, ConnectInv, DisconnectInv, WriteInv
<1>6. CASE GapCallback \/ GapLost \/ GapLostUnheard \/ GattWrite
  BY <1>6, GapCallbackInv, GapLostInv, GapLostUnheardInv, GattWriteInv
<1>7. CASE HostSeesAdv \/ HostConnected \/ HostDisconnected \/ HostData
  BY <1>7, HostSeesAdvInv, HostConnectedInv, HostDisconnectedInv, HostDataInv
<1> QED BY <1>2, <1>3, <1>4, <1>5, <1>6, <1>7 DEF BleNext

LEMMA BleInvTells == BleInv => BleInStep
<1> SUFFICES ASSUME BleInv, ~slipped PROVE BleInStep
  BY DEF BleInStep
<1>1. Agree /\ rx = DataIn(event_mq) /\ event_mq \in Seq(BleEvents) BY DEF BleInv, BleTypes
<1>2. DataIn(event_mq) = Cardinality({n \in DOMAIN event_mq : event_mq[n] = "data"})
  <2>1. DOMAIN event_mq = 1 .. Len(event_mq)
    <3> HIDE DEF BleEvents
    <3> QED BY <1>1
  <2> QED BY <2>1 DEF DataIn
<1>3. ASSUME asked = "none", callbacks = << >>, event_mq = << >>
      PROVE  /\ backend = manager
             /\ manager = [off |-> "disconnected", idle |-> "ready", advertising |-> "advertising",
                           connected |-> "connected"][stack]
  <2>1. WillManage = manager /\ WillBack = backend BY <1>3 DEF WillManage, WillBack, BleInv, BleTypes
  <2>2. \A n \in 1 .. Len(event_mq) : FALSE BY <1>3, NewQueue
  <2>3. \A n \in 1 .. Len(callbacks) : FALSE BY <1>3, NewQueue
  <2>4. \A mark : ~Ended(event_mq, mark) BY <2>2 DEF Ended
  <2>5. CASE stack = "off" BY <1>1, <2>5 DEF Agree, OffIn
  <2>6. CASE stack = "idle" BY <1>1, <1>3, <2>1, <2>6 DEF Agree, QuietIn, LosingIn
  <2>7. CASE stack = "advertising" BY <1>1, <1>3, <2>1, <2>4, <2>7 DEF Agree, AdvertisingIn
  <2>8. CASE stack = "connected" BY <1>1, <2>1, <2>3, <2>4, <2>8 DEF Agree, ConnectedIn, HeardIn
  <2> QED BY <2>5, <2>6, <2>7, <2>8 DEF BleInv, BleTypes
<1> QED BY <1>1, <1>2, <1>3 DEF BleInStep

(***************************************************************************)
(* With nothing in progress and nothing waiting, manager, backend and      *)
(* stack are in the same state, and every data event that waits stands for *)
(* one message received: whatever the depths of the queues, unless         *)
(* something was lost or overtaken (ble_mgr.c, ble_esp32.c).               *)
(***************************************************************************)
THEOREM BleStaysInStep == BleSpec => []BleInStep
<1>1. BleInit => BleInv BY BleInitInv
<1>2. BleInv /\ [BleNext]_bleVars => BleInv' BY BleStepInv
<1>3. BleInv => BleInStep BY BleInvTells
<1> QED BY <1>1, <1>2, <1>3, PTL DEF BleSpec
=============================================================================
