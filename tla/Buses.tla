------------------------------- MODULE Buses -------------------------------
(***************************************************************************)
(* The SPI and I2C drivers (src/src/drivers/spi.c, i2c.c) on the ESP32:    *)
(* two tables of devices over buses that take one driver each.  Opening    *)
(* takes a slot and then brings its bus up, closing takes the bus down and *)
(* then frees the slot, with nothing to keep two threads apart.  The two   *)
(* differ when a bus that is up is opened again: SPI leaves it alone, I2C  *)
(* has set the new speed before it fails.                                  *)
(*                                                                         *)
(* ESP-IDF (external) is a set of buses that are up, each at a speed.      *)
(***************************************************************************)
EXTENDS Integers, FiniteSets

CONSTANTS BusThreads, Handles, BusNumbers, Speeds

ASSUME SpeedsAssumption == 0 \notin Speeds

VARIABLES driver,   \* "spi" or "i2c": they share nothing, a behaviour is about one
          device,   \* handle -> {[bus, speed]}, or {} when it is not initialized
          bus,      \* bus -> its speed, or 0 when it is down
          selected, \* the SPI buses whose chip is selected, for a transfer
          doing,    \* thread -> the call it is in
          strayed   \* history: see the property

busVars == <<driver, device, bus, selected, doing, strayed>>

Idle == [step |-> "none"]

BusInit == /\ driver \in {"spi", "i2c"}
           /\ device = [h \in Handles |-> {}]
           /\ bus = [b \in BusNumbers |-> 0]
           /\ selected = {}
           /\ doing = [t \in BusThreads |-> Idle]
           /\ strayed = FALSE
-----------------------------------------------------------------------------
Does(t, call) == doing' = [doing EXCEPT ![t] = call]
InCall == {t \in BusThreads : doing[t] # Idle}
Stray(if) == strayed' = (strayed \/ if)

Bus(h) == (CHOOSE d \in device[h] : TRUE).bus

Among(t, steps, h) == {u \in InCall \ {t} : doing[u].step \in steps /\ doing[u].handle = h}

\* Callers have a handle when its opening has returned.
Held(t, h) == /\ doing[t] = Idle /\ device[h] # {}
              /\ Among(t, {"bring up"}, h) = {}

Shared(t, h) == Among(t, {"free", "wire"}, h) # {}

\* mp_spi_init and mp_i2c_init clear the table; the buses stay as they are.
DriverInit == /\ device' = [h \in Handles |-> {}]
              /\ Stray(InCall # {} \/ \E h \in Handles : device[h] # {})
              /\ UNCHANGED <<driver, bus, selected, doing>>

\* The first slot that is free is seen to be ...
OpenFinds(t, b, v) ==
  /\ doing[t] = Idle
  /\ \E h \in Handles : /\ device[h] = {} /\ \A g \in Handles : g < h => device[g] # {}
                        /\ Does(t, [step |-> "take", handle |-> h, to |-> [bus |-> b, speed |-> v]])
                        /\ Stray(Among(t, {"take"}, h) # {})
  /\ UNCHANGED <<driver, device, bus, selected>>

\* ... and taken.
OpenTakes(t) == /\ doing[t].step = "take"
                /\ device' = [device EXCEPT ![doing[t].handle] = {doing[t].to}]
                /\ Does(t, [doing[t] EXCEPT !.step = "bring up"])
                /\ UNCHANGED <<driver, bus, selected, strayed>>

Sets(b, v) == bus' = [bus EXCEPT ![b] = v]

\* The bus is brought up and the device added to it.
SpiUp(d) == driver = "spi" /\ bus[d.bus] = 0 /\ Sets(d.bus, d.speed)

\* The parameters are set and the driver is installed.
I2cUp(d) == driver = "i2c" /\ bus[d.bus] = 0 /\ Sets(d.bus, d.speed)

OpenWorks(t) == /\ doing[t].step = "bring up"
                /\ SpiUp(doing[t].to) \/ I2cUp(doing[t].to)
                /\ Does(t, Idle)
                /\ UNCHANGED <<driver, device, selected, strayed>>

\* ESP-IDF refuses the bus, as when it is up, or the device: the bus is freed again.
SpiFails == driver = "spi" /\ UNCHANGED <<bus, strayed>>

\* It refuses the parameters, or the driver, as when there is one: the speed is set.
I2cFails(d) == /\ driver = "i2c"
               /\ IF bus[d.bus] = 0 THEN UNCHANGED <<bus, strayed>>
                  ELSE Sets(d.bus, d.speed) /\ strayed' = TRUE

\* Mutant of OpenFails: the slot is not given back.
OpenFailsHolding(t) == /\ doing[t].step = "bring up"
                       /\ SpiFails \/ I2cFails(doing[t].to)
                       /\ Does(t, Idle)
                       /\ UNCHANGED <<driver, device, selected>>

OpenFails(t) == /\ doing[t].step = "bring up"
                /\ SpiFails \/ I2cFails(doing[t].to)
                /\ device' = [device EXCEPT ![doing[t].handle] = {}]
                /\ Does(t, Idle)
                /\ UNCHANGED <<driver, selected>>

SpiDown(b) == driver = "spi" /\ Sets(b, 0)

I2cDown(b) == driver = "i2c" /\ Sets(b, 0)

CloseTakesDown(t, h) == /\ Held(t, h)
                        /\ SpiDown(Bus(h)) \/ I2cDown(Bus(h))
                        /\ Does(t, [step |-> "free", handle |-> h])
                        /\ Stray(Shared(t, h))
                        /\ UNCHANGED <<driver, device, selected>>

CloseFrees(t) == /\ doing[t].step = "free"
                 /\ device' = [device EXCEPT ![doing[t].handle] = {}]
                 /\ Does(t, Idle)
                 /\ UNCHANGED <<driver, bus, selected, strayed>>

\* The table is written before the bus is asked.
SetSpeed(t, h, v) == /\ Held(t, h)
                     /\ device' = [device EXCEPT ![h] = {[bus |-> Bus(h), speed |-> v]}]
                     /\ Sets(Bus(h), v)
                     /\ Stray(Shared(t, h))
                     /\ UNCHANGED <<driver, selected, doing>>

\* ... and the bus refuses.
SetSpeedFails(t, h, v) == /\ Held(t, h)
                          /\ device' = [device EXCEPT ![h] = {[bus |-> Bus(h), speed |-> v]}]
                          /\ strayed' = TRUE
                          /\ UNCHANGED <<driver, bus, selected, doing>>

\* A transfer of the SPI driver selects its chip by hand for as long as it lasts.
TransferSelects(t, h) == /\ driver = "spi" /\ Held(t, h)
                         /\ selected' = selected \cup {Bus(h)}
                         /\ Does(t, [step |-> "wire", handle |-> h])
                         /\ Stray(Shared(t, h))
                         /\ UNCHANGED <<driver, device, bus>>

TransferEnds(t) == /\ doing[t].step = "wire" /\ device[doing[t].handle] # {}
                   /\ selected' = selected \ {Bus(doing[t].handle)}
                   /\ Does(t, Idle)
                   /\ UNCHANGED <<driver, device, bus, strayed>>

BusNext == \/ DriverInit
           \/ \E t \in BusThreads :
                \/ OpenTakes(t) \/ OpenWorks(t) \/ OpenFails(t) \/ CloseFrees(t) \/ TransferEnds(t)
                \/ \E b \in BusNumbers, v \in Speeds : OpenFinds(t, b, v)
                \/ \E h \in Handles : CloseTakesDown(t, h) \/ TransferSelects(t, h)
                \/ \E h \in Handles, v \in Speeds : SetSpeed(t, h, v) \/ SetSpeedFails(t, h, v)

BusSpec == BusInit /\ [][BusNext]_busVars
-----------------------------------------------------------------------------
(***************************************************************************)
(* When no call is in progress the buses that are up are the buses of the  *)
(* open devices, one device each, at the speed its table says, and no chip *)
(* is selected; during a transfer its bus is up with its chip selected.    *)
(* Unless two openings found the same slot, two calls on one handle met,   *)
(* the driver was initialised with devices open or being opened, a speed   *)
(* was refused, or an I2C bus in use was opened again.                     *)
(***************************************************************************)
BusesExact == ~strayed =>
  /\ InCall = {} => /\ \A b \in BusNumbers : bus[b] # 0 <=> \E h \in Handles : [bus |-> b, speed |-> bus[b]] \in device[h]
                    /\ \A g, h \in Handles : device[g] # {} /\ device[h] # {} /\ Bus(g) = Bus(h) => g = h
                    /\ selected = {}
  /\ \A t \in InCall : doing[t].step = "wire" => bus[Bus(doing[t].handle)] # 0 /\ Bus(doing[t].handle) \in selected
=============================================================================
