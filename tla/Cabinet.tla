------------------------------ MODULE Cabinet ------------------------------
(***************************************************************************)
(* The cabinet below the serial line: the firmware of the ESP32            *)
(* (vending_esp32.ino) with its relays and its millisecond clock, and the  *)
(* doors the solenoids hold.                                               *)
(*                                                                         *)
(* One pass of loop() is one tick of the clock; the clock is unsigned and  *)
(* wraps at ClockSize.  Nothing reads it while no relay is on, so it is    *)
(* then kept at 0, and a command finds it anywhere.  A door opens only     *)
(* while its solenoid is energised, and closes at any time.                *)
(***************************************************************************)
EXTENDS Integers

CONSTANTS
  Slots, Nil,
  ClockSize,   \* values of the unsigned clock
  PulseTicks   \* UNLOCK_DURATION_MS, in ticks

ASSUME ClockAssumption ==
  /\ ClockSize \in Nat
  /\ PulseTicks \in Nat
  /\ 0 < PulseTicks
  /\ PulseTicks < ClockSize
ASSUME SlotAssumption == Nil \notin Slots

VARIABLES
  relays,          \* the slots whose relay is on
  activeSlot,      \* the firmware's own idea of it; relayActive is # Nil
  relayStartTime,
  millis,
  coil,            \* history: ticks for which the relay has been on
  doors            \* the doors that are open

cabinetVars == <<relays, activeSlot, relayStartTime, millis, coil, doors>>

Clock == 0..(ClockSize - 1)

CabinetTypeOK ==
  /\ relays \in SUBSET Slots
  /\ activeSlot \in Slots \union {Nil}
  /\ relayStartTime \in Clock
  /\ millis \in Clock
  /\ coil \in Nat
  /\ doors \in SUBSET Slots

CabinetInit ==
  /\ relays = {}
  /\ activeSlot = Nil
  /\ relayStartTime = 0
  /\ millis = 0
  /\ coil = 0
  /\ doors = {}

relayActive == activeSlot # Nil

-----------------------------------------------------------------------------

\* The interlock: a command is refused with ERROR:BUSY while a relay is on.
Accepts == ~ relayActive

\* handleCommand, for OPEN:s.  Nothing tells the Pi which way it went.
HandleOpen(s) ==
  IF Accepts
  THEN /\ relays' = relays \union {s}
       /\ activeSlot' = s
       /\ \E t \in Clock : millis' = t /\ relayStartTime' = t
       /\ coil' = IF s \in relays THEN coil ELSE 0
  ELSE UNCHANGED <<relays, activeSlot, relayStartTime, millis, coil>>

\* Faulty: compares the clock with the end of the pulse.
Due_absolute(time) == time >= relayStartTime + PulseTicks

\* The condition of checkRelayTimeout, in unsigned arithmetic.
Due(time) == (time - relayStartTime) % ClockSize >= PulseTicks

\* relayActive is false, and nothing reads the clock.
Quiet ==
  /\ activeSlot' = Nil
  /\ relayStartTime' = 0
  /\ millis' = 0
  /\ coil' = 0

\* Faulty: a counter that does not wrap.
NextMillis_wide == millis + 1

NextMillis == (millis + 1) % ClockSize

\* A pass of loop() at the next tick, with checkRelayTimeout.
LoopPass ==
  /\ relayActive
  /\ IF Due(NextMillis)
     THEN /\ relays' = relays \ {activeSlot}
          /\ Quiet
     ELSE /\ millis' = NextMillis
          /\ coil' = coil + 1
          /\ UNCHANGED <<relays, activeSlot, relayStartTime>>
  /\ UNCHANGED doors

\* setup: the microcontroller resets, and drives every relay off.
Setup ==
  /\ relayActive
  /\ relays' = {}
  /\ Quiet
  /\ UNCHANGED doors

\* sendFullStatus: GET_STATUS is answered from the switches themselves.
DoorReport == doors

DoorOpens(s) ==
  /\ s \in relays \ doors
  /\ doors' = doors \union {s}
  /\ UNCHANGED <<relays, activeSlot, relayStartTime, millis, coil>>

DoorCloses(s) ==
  /\ s \in doors
  /\ doors' = doors \ {s}
  /\ UNCHANGED <<relays, activeSlot, relayStartTime, millis, coil>>

CabinetNext ==
  \/ LoopPass
  \/ Setup
  \/ \E s \in Slots : DoorOpens(s) \/ DoorCloses(s)

-----------------------------------------------------------------------------

\* At most one solenoid is energised, the firmware knows which, and it is
\* released within PulseTicks although the clock wraps under it
\* (checkRelayTimeout, the interlock of handleCommand).
PulseIsBounded ==
  /\ relays = IF relayActive THEN {activeSlot} ELSE {}
  /\ coil < PulseTicks

=============================================================================
