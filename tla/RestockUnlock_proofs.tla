------------------------ MODULE RestockUnlock_proofs ------------------------
(***************************************************************************)
(* Proofs about RestockUnlock, for any number of slots and presses, any    *)
(* length of the pulse, the session and the grants, and any lag of the     *)
(* Pi's clock: types, the invariant IInv of module RestockInv, and the     *)
(* properties that follow from it.                                         *)
(***************************************************************************)
EXTENDS RestockInv, TLAPS

-----------------------------------------------------------------------------
(* The cabinet *)

\* The clock counts modulo ClockSize.
LEMMA ModuloSmall ==
  ASSUME NEW a \in Int, NEW c \in Int, 0 <= a, a < c
  PROVE  a % c = a
  OBVIOUS

LEMMA ModuloBelow ==
  ASSUME NEW a \in Int, NEW c \in Int, - c < a, a < 0
  PROVE  a % c = a + c
  OBVIOUS

LEMMA ModuloSelf ==
  ASSUME NEW c \in Int, c > 0
  PROVE  c % c = 0
  OBVIOUS

LEMMA ClockSteps ==
  ASSUME CabinetTypeOK
  PROVE  /\ NextMillis \in Clock
         /\ \/ NextMillis = millis + 1
            \/ NextMillis = 0 /\ millis + 1 = ClockSize
<1>1. millis \in Int /\ 0 <= millis /\ millis < ClockSize /\ ClockSize \in Nat
  BY ClockAssumption DEF CabinetTypeOK, Clock
<1>2. CASE millis + 1 < ClockSize
  <2>1. (millis + 1) % ClockSize = millis + 1
    BY <1>1, <1>2, ModuloSmall
  <2> QED
    BY <1>1, <1>2, <2>1 DEF NextMillis, Clock
<1>3. CASE millis + 1 = ClockSize
  <2>1. ClockSize % ClockSize = 0
    BY <1>1, ModuloSelf
  <2> QED
    BY <1>1, <1>3, <2>1 DEF NextMillis, Clock
<1> QED
  BY <1>1, <1>2, <1>3

\* What checkRelayTimeout computes is the number of ticks since the start.
LEMMA PassFacts ==
  ASSUME CabinetTypeOK, PulseInv, LoopPass
  PROVE  CabinetTypeOK' /\ PulseInv' /\ doors' = doors
<1> DEFINE d == NextMillis - relayStartTime
<1>1. /\ millis \in Int /\ 0 <= millis /\ millis < ClockSize
      /\ relayStartTime \in Int /\ 0 <= relayStartTime
      /\ relayStartTime < ClockSize /\ ClockSize \in Nat /\ coil \in Nat
      /\ PulseTicks \in Nat /\ 0 < PulseTicks /\ PulseTicks < ClockSize
  BY ClockAssumption DEF CabinetTypeOK, Clock
<1>2. /\ NextMillis \in Clock
      /\ \/ NextMillis = millis + 1
         \/ NextMillis = 0 /\ millis + 1 = ClockSize
  BY ClockSteps
<1>3. NextMillis \in Int /\ 0 <= NextMillis /\ NextMillis < ClockSize
  BY <1>1, <1>2 DEF Clock
<1>4. /\ relayActive
      /\ coil < PulseTicks
      /\ \/ millis = relayStartTime + coil
         \/ millis = relayStartTime + coil - ClockSize
  BY DEF LoopPass, PulseInv, PulseIsBounded
<1>5. d \in Int /\ d < ClockSize /\ (d = coil + 1 \/ d = coil + 1 - ClockSize)
  BY <1>1, <1>2, <1>3, <1>4
<1>6. d % ClockSize = coil + 1
  <2> HIDE DEF d
  <2>1. CASE d = coil + 1
    BY <1>1, <1>5, <2>1, ModuloSmall
  <2>2. CASE d = coil + 1 - ClockSize
    <3>1. - ClockSize < d /\ d < 0
      BY <1>1, <1>4, <2>2
    <3> QED
      BY <1>1, <1>5, <2>2, <3>1, ModuloBelow
  <2> QED
    BY <1>5, <2>1, <2>2
<1>7. Due(NextMillis) <=> coil + 1 >= PulseTicks
  BY <1>6 DEF Due
<1>8. CASE Due(NextMillis)
  BY <1>1, <1>4, <1>8
     DEF LoopPass, Quiet, CabinetTypeOK, Clock, PulseInv, PulseIsBounded, relayActive
<1>9. CASE ~ Due(NextMillis)
  <2>1. /\ millis' = NextMillis /\ coil' = coil + 1
        /\ UNCHANGED <<relays, activeSlot, relayStartTime, doors>>
    BY <1>9 DEF LoopPass
  <2>2. coil + 1 < PulseTicks
    BY <1>1, <1>7, <1>9
  <2>3. \/ millis' = relayStartTime' + coil'
        \/ millis' = relayStartTime' + coil' - ClockSize
    BY <1>1, <1>3, <1>5, <2>1
  <2> QED
    BY <1>1, <1>2, <2>1, <2>2, <2>3
       DEF CabinetTypeOK, PulseInv, PulseIsBounded, relayActive
<1> QED
  BY <1>8, <1>9 DEF LoopPass

LEMMA CommandFacts ==
  ASSUME CabinetTypeOK, PulseInv, NEW s \in Slots, Written(s)
  PROVE  CabinetTypeOK' /\ PulseInv' /\ doors' = doors
<1>1. CASE UNCHANGED cabinetVars
  BY <1>1 DEF cabinetVars, CabinetTypeOK, PulseInv, PulseIsBounded, relayActive
<1>2. CASE HandleOpen(s) /\ UNCHANGED doors /\ relayActive
  BY <1>2 DEF HandleOpen, Accepts, CabinetTypeOK, PulseInv, PulseIsBounded, relayActive
<1>3. CASE HandleOpen(s) /\ UNCHANGED doors /\ ~ relayActive
  <2>1. relays = {}
    BY <1>3 DEF PulseInv, PulseIsBounded
  <2>2. PICK t \in Clock : millis' = t /\ relayStartTime' = t
    BY <1>3 DEF HandleOpen, Accepts
  <2>3. relays' = {s} /\ activeSlot' = s /\ coil' = 0
    BY <1>3, <2>1 DEF HandleOpen, Accepts
  <2>4. t = t + coil'
    BY <2>2, <2>3, ClockAssumption DEF Clock
  <2> QED
    BY <1>3, <2>2, <2>3, <2>4, ClockAssumption, SlotAssumption
       DEF CabinetTypeOK, PulseInv, PulseIsBounded, relayActive
<1> QED
  BY <1>1, <1>2, <1>3 DEF Written

LEMMA CabinetFacts ==
  ASSUME CabinetTypeOK, PulseInv, CabinetNext
  PROVE  CabinetTypeOK' /\ PulseInv'
<1>1. CASE LoopPass
  BY <1>1, PassFacts
<1>2. CASE Setup
  BY <1>2, ClockAssumption
     DEF Setup, Quiet, CabinetTypeOK, Clock, PulseInv, PulseIsBounded, relayActive
<1>3. ASSUME NEW s \in Slots, DoorOpens(s) \/ DoorCloses(s)
      PROVE  CabinetTypeOK' /\ PulseInv'
  BY <1>3 DEF DoorOpens, DoorCloses, CabinetTypeOK, PulseInv, PulseIsBounded, relayActive
<1> QED
  BY <1>1, <1>2, <1>3 DEF CabinetNext

LEMMA CabinetRests ==
  ASSUME CabinetTypeOK, PulseInv, UNCHANGED cabinetVars
  PROVE  CabinetTypeOK' /\ PulseInv'
  BY DEF cabinetVars, CabinetTypeOK, PulseInv, PulseIsBounded, relayActive

-----------------------------------------------------------------------------
(* What most steps leave as it is *)

\* No grant is added or changed, and a request that was sent stays sent.
CallsKept ==
  /\ call' \in [Calls -> Call]
  /\ \A n \in Calls :
       /\ call[n].stage = "SENT" => call'[n].stage = "SENT"
       /\ call'[n].stage \in {"GRANTED", "SENT"} =>
            /\ Granted(n)
            /\ call'[n].expiresAt = call[n].expiresAt
       /\ call'[n].stage \in {"ASKING", "GRANTED", "SENT"} =>
            call'[n].slot \in Slots

\* The Pi takes no request further.
PiKept ==
  /\ accepted' \in [Calls -> Times \union {Nil}]
  /\ \A n \in Calls : accepted'[n] \in {accepted[n], Nil}
  /\ used' = used
  /\ writes' = writes

\* What forbids a grant is as it was, or Barred takes note of it.
BarredKept ==
  \/ UNCHANGED <<session, obstacle, barredAt>>
  \/ session' \in Statuses /\ obstacle' \in BOOLEAN /\ Barred

LEMMA CallsRest ==
  ASSUME TypeOK, CallInv, UNCHANGED call
  PROVE  CallsKept
  BY DEF TypeOK, CallInv, CallsKept, Granted

LEMMA PiRests ==
  ASSUME TypeOK, UNCHANGED <<accepted, used, writes>>
  PROVE  PiKept
  BY DEF TypeOK, PiKept

LEMMA NonceStays ==
  ASSUME TypeOK, NonceInv, CallsKept, PiKept, now' = now
  PROVE  NonceInv'
<1> SUFFICES ASSUME NEW n \in Calls
             PROVE  /\ accepted'[n] # Nil \/ writes'[n] > 0 =>
                         /\ call'[n].stage = "SENT"
                         /\ n \in used' \/ call'[n].expiresAt <= now' - PiLag
                    /\ accepted'[n] # Nil => writes'[n] = 0
                    /\ writes'[n] <= 1
  BY DEF NonceInv, PiNow
<1>1. accepted'[n] # Nil => accepted[n] # Nil
  BY DEF PiKept
<1>2. writes'[n] = writes[n] /\ used' = used
  BY DEF PiKept
<1> QED
  BY <1>1, <1>2 DEF NonceInv, PiNow, CallsKept

LEMMA BarredFacts ==
  ASSUME TypeOK, TimeInv, BarredKept, now' = now
  PROVE  /\ session' \in Statuses /\ obstacle' \in BOOLEAN
         /\ barredAt' \in Times \union {Nil}
         /\ session' = "ACTIVE" /\ ~ obstacle' <=> barredAt' = Nil
         /\ barredAt' # Nil => barredAt' <= now
         /\ barredAt' # Nil /\ barredAt # Nil => barredAt' = barredAt
         /\ barredAt' # Nil /\ barredAt = Nil => barredAt' = now
<1>1. now \in Int /\ now \in Times /\ now # Nil /\ Times \subseteq Int
  BY TimeAssumption, NilIsNoTime DEF TypeOK, Times
<1>2. CASE UNCHANGED <<session, obstacle, barredAt>>
  BY <1>1, <1>2 DEF TypeOK, TimeInv
<1>3. CASE session' \in Statuses /\ obstacle' \in BOOLEAN /\ Barred
  BY <1>1, <1>3 DEF TypeOK, TimeInv, Barred
<1> QED
  BY <1>2, <1>3 DEF BarredKept

\* The part of TimeInv about one press, for a time, a moment and a call.
Timely(time, moment, c, since) ==
  /\ c.stage \in {"GRANTED", "SENT"} =>
       /\ c.expiresAt <= SessionEnd
       /\ c.expiresAt <= time + GrantTTL
       /\ moment # Nil => c.expiresAt <= moment + GrantTTL
  /\ since # Nil =>
       /\ since <= time
       /\ time <= since + ServeTime
       /\ since - PiLag < c.expiresAt

LEMMA TimelyInv ==
  /\ TimeInv <=>
       /\ session = "ACTIVE" /\ ~ obstacle <=> barredAt = Nil
       /\ barredAt # Nil => barredAt <= now
       /\ \A n \in Calls : Timely(now, barredAt, call[n], accepted[n])
  /\ TimeInv' <=>
       /\ session' = "ACTIVE" /\ ~ obstacle' <=> barredAt' = Nil
       /\ barredAt' # Nil => barredAt' <= now'
       /\ \A n \in Calls : Timely(now', barredAt', call'[n], accepted'[n])
  BY DEF TimeInv, Timely, Granted

LEMMA TimeStays ==
  ASSUME TypeOK, NonceInv, TimeInv, CallsKept, BarredKept, now' = now,
         \A n \in Calls : accepted'[n] \in {accepted[n], Nil}
  PROVE  TimeInv'
<1>1. /\ session' = "ACTIVE" /\ ~ obstacle' <=> barredAt' = Nil
      /\ barredAt' # Nil => barredAt' <= now
      /\ barredAt' # Nil /\ barredAt # Nil => barredAt' = barredAt
      /\ barredAt' # Nil /\ barredAt = Nil => barredAt' = now
  BY BarredFacts
<1>2. ASSUME NEW n \in Calls
      PROVE  Timely(now', barredAt', call'[n], accepted'[n])
  <2>1. Timely(now, barredAt, call[n], accepted[n])
    BY TimelyInv
  <2>2. CASE call'[n].stage \in {"GRANTED", "SENT"}
    <3>1. Granted(n) /\ call'[n].expiresAt = call[n].expiresAt
      BY <2>2 DEF CallsKept
    <3> QED
      BY <1>1, <2>1, <2>2, <3>1 DEF Timely, Granted
  <2>3. CASE call'[n].stage \notin {"GRANTED", "SENT"}
    <3>1. accepted[n] = Nil /\ accepted'[n] = Nil
      BY <2>3 DEF NonceInv, CallsKept
    <3> QED
      BY <2>3, <3>1 DEF Timely
  <2> QED
    BY <2>2, <2>3
<1> QED
  BY <1>1, <1>2, TimelyInv

LEMMA CallStays ==
  ASSUME CallsKept
  PROVE  CallInv'
  BY DEF CallsKept, CallInv

-----------------------------------------------------------------------------
(* The ordinary steps: the page's, the doors', and the Pi's refusals *)

PageTyped ==
  /\ screen \in {"home", "restock"}
  /\ seenClosed \in SUBSET Slots
  /\ cycle \in [Slots -> Cycles]

PiCycles == [Slots -> {"NONE", "WAITING_OPEN", "WAITING_CLOSED"}]

\* The page, and the Pi's cycles with the doors they are about.
RestTyped ==
  /\ PageTyped'
  /\ piCycle' \in PiCycles
  /\ linkReady' \in BOOLEAN
  /\ unmoved' \in SUBSET Slots
  /\ CycleInv'

CabinetSound == CabinetTypeOK' /\ PulseInv'

LEMMA OrdinaryStep ==
  ASSUME IInv, CabinetSound, CallsKept, PiKept, BarredKept, RestTyped,
         now' = now
  PROVE  IInv'
<1>1. /\ session' \in Statuses /\ obstacle' \in BOOLEAN
      /\ barredAt' \in Times \union {Nil}
  BY BarredFacts DEF IInv
<1>2. TypeOK'
  <2>1. used' \in SUBSET Calls /\ writes' \in [Calls -> Nat]
    BY DEF IInv, TypeOK, PiKept
  <2>2. now' \in Times
    BY DEF IInv, TypeOK
  <2> QED
    BY <1>1, <2>1, <2>2
       DEF TypeOK, CabinetSound, CallsKept, PiKept, RestTyped, PageTyped, PiCycles
<1>3. NonceInv'
  BY NonceStays DEF IInv
<1>4. TimeInv'
  BY TimeStays DEF IInv, PiKept
<1>5. CallInv'
  BY CallStays
<1> QED
  BY <1>2, <1>3, <1>4, <1>5 DEF IInv, CabinetSound, RestTyped

LEMMA CycleAfterFacts ==
  ASSUME TypeOK, CycleInv, NEW s \in Slots
  PROVE  /\ CycleAfter(s) \in {"NONE", "WAITING_OPEN", "WAITING_CLOSED"}
         /\ s \in unmoved => CycleAfter(s) = "WAITING_OPEN"
  BY DEF TypeOK, CycleInv, CycleAfter, Snapshot, DoorReport

\* The doors rest, and the Pi observes them or does not.
LEMMA DoorsObserved ==
  ASSUME IInv, doors' = doors, unmoved' = unmoved,
         piCycle' = piCycle \/ piCycle' = [s \in Slots |-> CycleAfter(s)]
  PROVE  piCycle' \in PiCycles /\ unmoved' \in SUBSET Slots /\ CycleInv'
<1>1. \A s \in Slots :
        /\ CycleAfter(s) \in {"NONE", "WAITING_OPEN", "WAITING_CLOSED"}
        /\ s \in unmoved => CycleAfter(s) = "WAITING_OPEN"
  BY CycleAfterFacts DEF IInv
<1>2. unmoved \subseteq Slots /\ piCycle \in PiCycles
  BY DEF IInv, TypeOK, PiCycles
<1> QED
  BY <1>1, <1>2 DEF IInv, CycleInv, PiCycles

\* A step of the page or of the backend: the Pi and the cabinet rest.
LEMMA PageStep ==
  ASSUME IInv, CallsKept, BarredKept, PageTyped',
         UNCHANGED <<cabinetVars, now, piVars>>
  PROVE  IInv'
<1>1. CabinetSound
  BY CabinetRests DEF IInv, TypeOK, CabinetSound
<1>2. PiKept
  BY PiRests DEF IInv, piVars
<1>3. RestTyped
  BY DoorsObserved DEF IInv, TypeOK, RestTyped, piVars, cabinetVars
<1> QED
  BY <1>1, <1>2, <1>3, OrdinaryStep

\* A step of the Pi that redeems nothing.
LEMMA PiStep ==
  ASSUME IInv, PiKept, PageTyped', linkReady' \in BOOLEAN,
         piCycle' = piCycle \/ piCycle' = [s \in Slots |-> CycleAfter(s)],
         UNCHANGED <<cabinetVars, now, backendVars, call, unmoved>>
  PROVE  IInv'
<1>1. CabinetSound
  BY CabinetRests DEF IInv, TypeOK, CabinetSound
<1>2. CallsKept
  BY CallsRest DEF IInv
<1>3. BarredKept
  BY DEF BarredKept, backendVars
<1>4. RestTyped
  BY DoorsObserved DEF RestTyped, cabinetVars
<1> QED
  BY <1>1, <1>2, <1>3, <1>4, OrdinaryStep

LEMMA UnawaitedKept ==
  ASSUME TypeOK, CallInv, call' = Unawaited
  PROVE  CallsKept
  BY DEF TypeOK, CallInv, Unawaited, CallsKept, Call, Granted

LEMMA SweptIsStatus ==
  ASSUME TypeOK
  PROVE  Swept \in Statuses
  BY DEF TypeOK, Swept, Statuses

LEMMA BecomesKept ==
  ASSUME TypeOK, NEW status \in Statuses, SessionBecomes(status)
  PROVE  BarredKept
  BY DEF TypeOK, SessionBecomes, BarredKept

LEMMA EndKept ==
  ASSUME TypeOK, NEW status \in Statuses, End(status)
  PROVE  BarredKept
<1>1. (IF Live THEN status ELSE Swept) \in Statuses
  BY SweptIsStatus
<1> QED
  BY <1>1, BecomesKept DEF End

LEMMA LeaveKept ==
  ASSUME TypeOK, CallInv, Leave
  PROVE  CallsKept /\ PageTyped'
<1>1. CallsKept
  BY UnawaitedKept DEF Leave
<1> QED
  BY <1>1 DEF Leave, Unmount, PageTyped, Cycles

-----------------------------------------------------------------------------
(* The steps of the page *)

LEMMA SendStep ==
  ASSUME IInv, NEW n \in Calls, Send(n)
  PROVE  IInv'
<1>1. CallsKept
  BY DEF IInv, TypeOK, CallInv, Send, CallsKept, Call, Stages, Granted
<1>2. BarredKept /\ PageTyped'
  BY DEF IInv, TypeOK, Send, BarredKept, PageTyped, backendVars, pageVars
<1> QED
  BY <1>1, <1>2, PageStep DEF Send

LEMMA GrantFailsStep ==
  ASSUME IInv, NEW n \in Calls, GrantFails(n)
  PROVE  IInv'
<1>1. CallsKept
  BY DEF IInv, TypeOK, CallInv, GrantFails, Over, NoCall, CallsKept, Call,
         Stages, Granted
<1>2. BarredKept
  BY SweptIsStatus, BecomesKept DEF IInv, GrantFails
<1>3. PageTyped'
  BY DEF IInv, TypeOK, GrantFails, Cleared, PageTyped, Cycles
<1> QED
  BY <1>1, <1>2, <1>3, PageStep DEF GrantFails

LEMMA ReplyStep ==
  ASSUME IInv, NEW n \in Calls, UnlockFails(n) \/ UnlockConfirmed(n)
  PROVE  IInv'
<1>1. CallsKept
  <2>1. call' = [call EXCEPT ![n].reply = "unawaited"]
    BY DEF UnlockFails, UnlockConfirmed
  <2> QED
    BY <2>1 DEF IInv, TypeOK, CallInv, CallsKept, Call, Granted
<1>2. BarredKept
  BY DEF UnlockFails, UnlockConfirmed, BarredKept, backendVars
<1>3. PageTyped'
  BY DEF IInv, TypeOK, UnlockFails, UnlockConfirmed, Cleared, PageTyped, Cycles
<1> QED
  BY <1>1, <1>2, <1>3, PageStep DEF UnlockFails, UnlockConfirmed

LEMMA PressStep ==
  ASSUME IInv, NEW n \in Calls, NEW s \in Slots, Press(n, s)
  PROVE  IInv'
<1> DEFINE c == [stage |-> "ASKING", slot |-> s, expiresAt |-> 0, reply |-> "awaited"]
<1>1. c \in Call
  BY DEF Call, Stages
<1>2. call \in [Calls -> Call] /\ call' = [call EXCEPT ![n] = c]
  BY DEF IInv, TypeOK, Press
<1>3. call[n].stage = "IDLE"
  BY DEF Press
<1>4. \A m \in Calls : call'[m] = IF m = n THEN c ELSE call[m]
  BY <1>2
<1>5. CallsKept
  BY <1>1, <1>2, <1>3, <1>4 DEF IInv, CallInv, CallsKept, Granted
<1>6. BarredKept /\ PageTyped'
  BY DEF IInv, TypeOK, Press, BarredKept, PageTyped, Cycles, backendVars
<1> QED
  BY <1>5, <1>6, PageStep DEF Press

LEMMA ObstacleStep ==
  ASSUME IInv, ObstacleChanges
  PROVE  IInv'
<1>1. CallsKept
  BY CallsRest DEF IInv, ObstacleChanges
<1>2. BarredKept /\ PageTyped'
  BY DEF IInv, TypeOK, ObstacleChanges, BarredKept, PageTyped, pageVars
<1> QED
  BY <1>1, <1>2, PageStep DEF ObstacleChanges

LEMMA EnterStep ==
  ASSUME IInv, Enter
  PROVE  IInv'
<1>1. CallsKept
  BY CallsRest DEF IInv, Enter
<1>2. BarredKept /\ PageTyped'
  BY DEF IInv, TypeOK, Enter, BarredKept, PageTyped, backendVars
<1> QED
  BY <1>1, <1>2, PageStep DEF Enter

\* The screen ends the session, and leaves it or not.
LEMMA EndStep ==
  ASSUME IInv, NEW status \in Statuses, End(status),
         Leave \/ UNCHANGED <<pageVars, call>>,
         UNCHANGED <<cabinetVars, now, piVars>>
  PROVE  IInv'
<1>1. BarredKept
  BY EndKept DEF IInv
<1>2. CASE Leave
  <2>1. CallsKept /\ PageTyped'
    BY <1>2, LeaveKept DEF IInv
  <2> QED
    BY <1>1, <2>1, PageStep
<1>3. CASE UNCHANGED <<pageVars, call>>
  <2>1. CallsKept
    BY <1>3, CallsRest DEF IInv
  <2>2. PageTyped'
    BY <1>3 DEF IInv, TypeOK, PageTyped, pageVars
  <2> QED
    BY <1>1, <2>1, <2>2, PageStep
<1> QED
  BY <1>2, <1>3

LEMMA SessionGoneStep ==
  ASSUME IInv, SessionGone
  PROVE  IInv'
<1>1. BarredKept
  BY SweptIsStatus, BecomesKept DEF IInv, SessionGone
<1>2. CallsKept /\ PageTyped'
  BY LeaveKept DEF IInv, SessionGone
<1> QED
  BY <1>1, <1>2, PageStep DEF SessionGone

LEMMA ReloadStep ==
  ASSUME IInv, Reload
  PROVE  IInv'
<1>1. CallsKept
  <2>1. call' = AfterReload
    BY DEF Reload
  <2> QED
    BY <2>1 DEF IInv, TypeOK, CallInv, AfterReload, Over, NoCall, Unawaited,
                CallsKept, Call, Stages, Granted
<1>2. BarredKept /\ PageTyped'
  BY DEF Reload, Unmount, BarredKept, PageTyped, Cycles, backendVars
<1> QED
  BY <1>1, <1>2, PageStep DEF Reload

-----------------------------------------------------------------------------
(* The steps of the Pi that redeem nothing *)

LEMMA GivenUpStep ==
  ASSUME IInv, NEW n \in Calls, Unavailable(n) \/ StatusFails(n) \/ Refused(n)
  PROVE  IInv'
<1>1. PiKept
  BY DEF IInv, TypeOK, Unavailable, StatusFails, Refused, PiKept
<1>2. PageTyped'
  BY DEF IInv, TypeOK, Unavailable, StatusFails, Refused, PageTyped, pageVars
<1>3. /\ linkReady' \in BOOLEAN
      /\ piCycle' = piCycle \/ piCycle' = [s \in Slots |-> CycleAfter(s)]
      /\ UNCHANGED <<cabinetVars, now, backendVars, call, unmoved>>
  BY DEF IInv, TypeOK, Unavailable, StatusFails, Refused
<1> QED
  BY <1>1, <1>2, <1>3, PiStep

LEMMA ObserveTyped ==
  ASSUME TypeOK, screen' = screen,
         Observe \/ Blind \/ UNCHANGED <<seenClosed, cycle>>
  PROVE  PageTyped'
  BY DEF TypeOK, Observe, Blind, PageTyped

LEMMA StatusStep ==
  ASSUME IInv, StatusRead \/ StatusUnavailable
  PROVE  IInv'
<1>1. PiKept
  BY PiRests DEF IInv, StatusRead, StatusUnavailable
<1>2. PageTyped'
  BY ObserveTyped DEF IInv, StatusRead, StatusUnavailable
<1>3. linkReady' \in BOOLEAN
  BY DEF IInv, TypeOK, StatusRead, StatusUnavailable
<1>4. /\ piCycle' = piCycle \/ piCycle' = [s \in Slots |-> CycleAfter(s)]
      /\ UNCHANGED <<cabinetVars, now, backendVars, call, unmoved>>
  BY DEF StatusRead, StatusUnavailable
<1> QED
  BY <1>1, <1>2, <1>3, <1>4, PiStep

LEMMA LinkStep ==
  ASSUME IInv, LinkVerified \/ LinkLost
  PROVE  IInv'
<1>1. PiKept
  BY PiRests DEF IInv, LinkVerified, LinkLost
<1>2. PageTyped' /\ linkReady' \in BOOLEAN
  BY DEF IInv, TypeOK, LinkVerified, LinkLost, PageTyped, pageVars
<1> QED
  BY <1>1, <1>2, PiStep DEF LinkVerified, LinkLost

-----------------------------------------------------------------------------
(* The steps that carry a grant on its way *)

LEMMA GrantStep ==
  ASSUME IInv, NEW n \in Calls, Grant(n)
  PROVE  IInv'
<1> DEFINE c == [call[n] EXCEPT !.stage = "GRANTED", !.expiresAt = GrantExpiry]
<1>1. /\ now \in Int /\ SessionEnd \in Int /\ GrantTTL \in Int
      /\ call \in [Calls -> Call]
  BY TimeAssumption DEF IInv, TypeOK, Times
<1>2. /\ GrantExpiry \in Int
      /\ GrantExpiry <= SessionEnd /\ GrantExpiry <= now + GrantTTL
  BY <1>1 DEF GrantExpiry
<1>3. /\ call[n].stage = "ASKING" /\ call' = [call EXCEPT ![n] = c]
      /\ session = "ACTIVE" /\ ~ obstacle
      /\ UNCHANGED <<cabinetVars, now, backendVars, pageVars, piVars>>
  BY DEF Grant, MayGrant, Live
<1>4. /\ c \in Call /\ c.stage = "GRANTED" /\ c.expiresAt = GrantExpiry
      /\ c.slot = call[n].slot
  BY <1>1, <1>2 DEF Call, Stages
<1>5. /\ call' \in [Calls -> Call]
      /\ call'[n] = c
      /\ \A m \in Calls \ {n} : call'[m] = call[m]
  <2> HIDE DEF c
  <2> QED
    BY <1>1, <1>3, <1>4
<1>6. accepted[n] = Nil /\ ~ writes[n] > 0
  BY <1>3 DEF IInv, NonceInv
<1>7. barredAt = Nil
  BY <1>3 DEF IInv, TimeInv
<1> HIDE DEF c
<1>8. TypeOK' /\ PulseInv'
  BY <1>3, <1>5, CabinetRests
     DEF IInv, TypeOK, backendVars, pageVars, piVars
<1>9. NonceInv'
  BY <1>3, <1>5, <1>6 DEF IInv, NonceInv, PiNow, piVars
<1>10. CycleInv'
  BY <1>3 DEF IInv, CycleInv, piVars, cabinetVars
<1>11. TimeInv'
  <2>1. \A m \in Calls : Timely(now, barredAt, call[m], accepted[m])
    BY TimelyInv DEF IInv
  <2>2. Timely(now, barredAt, c, accepted[n])
    BY <1>2, <1>4, <1>6, <1>7 DEF Timely
  <2>3. /\ now' = now /\ barredAt' = barredAt /\ accepted' = accepted
        /\ session' = session /\ obstacle' = obstacle
    BY <1>3 DEF backendVars, piVars
  <2>4. \A m \in Calls : Timely(now', barredAt', call'[m], accepted'[m])
    BY <1>5, <2>1, <2>2, <2>3
  <2> QED
    BY <2>3, <2>4, TimelyInv DEF IInv
<1>12. CallInv'
  BY <1>3, <1>4, <1>5 DEF IInv, CallInv
<1> QED
  BY <1>8, <1>9, <1>10, <1>11, <1>12 DEF IInv

LEMMA ForgottenIsExpired ==
  ASSUME TypeOK, NEW m \in Calls, m \in used, m \notin Remembered
  PROVE  call[m].expiresAt <= now - PiLag
<1>1. call[m].expiresAt \in Int /\ now - PiLag \in Int
  BY TimeAssumption DEF TypeOK, Call, Times
<1> QED
  BY <1>1 DEF Remembered, PiNow

\* A nonce that is not remembered, of a grant that has not expired, was never
\* accepted since the Pi started.
LEMMA ReceiveStep ==
  ASSUME IInv, NEW n \in Calls, Receive(n)
  PROVE  IInv'
<1>1. CASE n \in Remembered /\ used' = Remembered /\ UNCHANGED accepted
  <2>1. TypeOK' /\ PulseInv'
    BY <1>1, CabinetRests
       DEF IInv, TypeOK, Receive, Remembered, backendVars, pageVars
  <2>2. NonceInv'
    <3>1. \A m \in Calls : m \in used /\ m \notin used' =>
                              call[m].expiresAt <= now - PiLag
      BY <1>1, ForgottenIsExpired DEF IInv
    <3> QED
      BY <1>1, <3>1 DEF IInv, NonceInv, Receive, PiNow
  <2>3. CycleInv' /\ TimeInv' /\ CallInv'
    BY <1>1 DEF IInv, CycleInv, TimeInv, CallInv, Receive, Granted,
                backendVars, pageVars, cabinetVars
  <2> QED
    BY <2>1, <2>2, <2>3 DEF IInv
<1>2. CASE /\ n \notin Remembered
           /\ used' = Remembered \union {n}
           /\ accepted' = [accepted EXCEPT ![n] = now]
  <2>1. now \in Times /\ now \in Int /\ PiLag \in Int /\ ServeTime \in Nat
    BY TimeAssumption DEF IInv, TypeOK, Times
  <2>2. call[n].stage = "SENT" /\ call[n].expiresAt > PiNow
    BY DEF Receive, Valid
  <2>3. call[n].expiresAt \in Int
    BY DEF IInv, TypeOK, Call
  <2>4. n \notin used
    BY <1>2, <2>2 DEF Remembered
  <2>5. accepted[n] = Nil /\ writes[n] = 0
    BY <2>1, <2>2, <2>3, <2>4 DEF IInv, TypeOK, NonceInv, PiNow
  <2>6. /\ accepted' \in [Calls -> Times \union {Nil}]
        /\ accepted'[n] = now
        /\ \A m \in Calls \ {n} : accepted'[m] = accepted[m]
    BY <1>2, <2>1 DEF IInv, TypeOK
  <2>7. UNCHANGED <<cabinetVars, now, backendVars, pageVars, call, piCycle,
                    linkReady, writes, unmoved>>
    BY DEF Receive
  <2>8. TypeOK' /\ PulseInv'
    BY <1>2, <2>6, <2>7, CabinetRests
       DEF IInv, TypeOK, Remembered, backendVars, pageVars
  <2>9. NonceInv'
    <3> SUFFICES ASSUME NEW m \in Calls
                 PROVE  /\ accepted'[m] # Nil \/ writes'[m] > 0 =>
                             /\ call'[m].stage = "SENT"
                             /\ m \in used' \/ call'[m].expiresAt <= now' - PiLag
                        /\ accepted'[m] # Nil => writes'[m] = 0
                        /\ writes'[m] <= 1
      BY DEF NonceInv, PiNow
    <3>1. CASE m = n
      BY <1>2, <2>2, <2>5, <2>7, <3>1
    <3>2. CASE m # n
      <4>1. m \in used /\ m \notin used' => call[m].expiresAt <= now - PiLag
        BY <1>2, ForgottenIsExpired DEF IInv
      <4> QED
        BY <2>6, <2>7, <3>2, <4>1 DEF IInv, NonceInv, PiNow
    <3> QED
      BY <3>1, <3>2
  <2>10. CycleInv' /\ CallInv'
    BY <2>7 DEF IInv, CycleInv, CallInv, cabinetVars
  <2>11. TimeInv'
    <3>1. \A m \in Calls : Timely(now, barredAt, call[m], accepted[m])
      BY TimelyInv DEF IInv
    <3>2. Timely(now, barredAt, call[n], now)
      BY <2>1, <2>2, <2>3, <3>1 DEF Timely, PiNow
    <3>3. \A m \in Calls : Timely(now', barredAt', call'[m], accepted'[m])
      BY <2>6, <2>7, <3>1, <3>2 DEF backendVars
    <3> QED
      BY <2>7, <3>3, TimelyInv DEF IInv, backendVars
  <2> QED
    BY <2>8, <2>9, <2>10, <2>11 DEF IInv
<1> QED
  BY <1>1, <1>2 DEF Receive

LEMMA MayOpenFacts ==
  ASSUME IInv, NEW n \in Calls, accepted[n] # Nil, MayOpen(call[n].slot)
  PROVE  /\ call[n].slot \in Slots
         /\ call[n].slot \notin unmoved
         /\ call[n].slot \notin doors
         /\ writes[n] = 0
<1>1. call[n].slot \in Slots
  BY DEF IInv, NonceInv, CallInv
<1>2. CycleAfter(call[n].slot) = "NONE" /\ call[n].slot \notin doors
  BY DEF MayOpen, Snapshot, DoorReport
<1> QED
  BY <1>1, <1>2, CycleAfterFacts DEF IInv, NonceInv

\* The command is written: the request is spent, and its slot unmoved.
LEMMA OpenStep ==
  ASSUME IInv, NEW n \in Calls, Open(n) \/ OpenRaises(n)
  PROVE  IInv'
<1> DEFINE s == call[n].slot
<1>1. /\ accepted[n] # Nil /\ MayOpen(s) /\ Written(s)
      /\ accepted' = [accepted EXCEPT ![n] = Nil]
      /\ writes' = [writes EXCEPT ![n] = @ + 1]
      /\ UNCHANGED <<now, backendVars, pageVars, used>>
      /\ linkReady' \in {linkReady, FALSE}
  BY DEF Open, OpenRaises
<1>2. s \in Slots /\ s \notin unmoved /\ s \notin doors /\ writes[n] = 0
  BY <1>1, MayOpenFacts
<1>3. /\ CabinetTypeOK' /\ PulseInv' /\ doors' = doors
  BY <1>1, <1>2, CommandFacts DEF IInv, TypeOK
<1>4. /\ accepted' \in [Calls -> Times \union {Nil}]
      /\ accepted'[n] = Nil
      /\ \A m \in Calls \ {n} : accepted'[m] = accepted[m]
  BY <1>1 DEF IInv, TypeOK
<1>5. /\ writes' \in [Calls -> Nat]
      /\ writes'[n] = 1
      /\ \A m \in Calls \ {n} : writes'[m] = writes[m]
  BY <1>1, <1>2 DEF IInv, TypeOK
<1>6. CallsKept /\ \A m \in Calls : /\ call'[m].stage = call[m].stage
                                    /\ call'[m].expiresAt = call[m].expiresAt
  <2>1. CASE Open(n)
    <3>1. call' = [call EXCEPT ![n].reply = IF @ = "awaited" THEN "success" ELSE @]
      BY <2>1 DEF Open
    <3> QED
      BY <3>1 DEF IInv, TypeOK, CallInv, CallsKept, Call, Granted
  <2>2. CASE OpenRaises(n)
    <3>1. call' = call
      BY <2>2 DEF OpenRaises
    <3> QED
      BY <3>1, CallsRest DEF IInv
  <2> QED
    BY <2>1, <2>2
<1>7. /\ piCycle' \in PiCycles /\ unmoved' \in SUBSET Slots /\ CycleInv'
  <2>1. \A t \in Slots :
          /\ CycleAfter(t) \in {"NONE", "WAITING_OPEN", "WAITING_CLOSED"}
          /\ t \in unmoved => CycleAfter(t) = "WAITING_OPEN"
    BY CycleAfterFacts DEF IInv
  <2>2. unmoved \subseteq Slots /\ \A t \in unmoved : t \notin doors
    BY DEF IInv, TypeOK, CycleInv
  <2>3. CASE Open(n)
    <3>1. /\ piCycle' = [t \in Slots |-> IF t = s THEN "WAITING_OPEN"
                                         ELSE CycleAfter(t)]
          /\ unmoved' = unmoved \union {s}
      BY <2>3 DEF Open
    <3> QED
      BY <1>2, <1>3, <2>1, <2>2, <3>1 DEF CycleInv, PiCycles
  <2>4. CASE OpenRaises(n)
    <3>1. /\ piCycle' = [t \in Slots |-> CycleAfter(t)]
          /\ unmoved' = unmoved
      BY <2>4 DEF OpenRaises
    <3> QED
      BY <1>3, <2>1, <2>2, <3>1 DEF CycleInv, PiCycles
  <2> QED
    BY <2>3, <2>4
<1>8. TypeOK'
  BY <1>1, <1>3, <1>4, <1>5, <1>6, <1>7
     DEF IInv, TypeOK, CallsKept, PiCycles, backendVars, pageVars
<1>9. NonceInv'
  BY <1>1, <1>4, <1>5, <1>6 DEF IInv, NonceInv, PiNow
<1>10. TimeInv'
  <2>1. BarredKept
    BY <1>1 DEF BarredKept, backendVars
  <2>2. \A m \in Calls : accepted'[m] \in {accepted[m], Nil}
    BY <1>4
  <2> QED
    BY <1>1, <1>6, <2>1, <2>2, TimeStays DEF IInv
<1>11. CallInv'
  BY <1>6, CallStays
<1> QED
  BY <1>3, <1>7, <1>8, <1>9, <1>10, <1>11 DEF IInv

LEMMA RestartStep ==
  ASSUME IInv, PiRestart
  PROVE  IInv'
<1>1. /\ accepted' = [n \in Calls |-> Nil] /\ used' = {} /\ unmoved' = {}
      /\ writes' = [n \in Calls |-> 0] /\ piCycle' = [s \in Slots |-> "NONE"]
      /\ linkReady' = FALSE
      /\ UNCHANGED <<cabinetVars, now, backendVars, pageVars, call>>
  BY DEF PiRestart
<1>2. TypeOK' /\ PulseInv'
  BY <1>1, CabinetRests DEF IInv, TypeOK, backendVars, pageVars
<1>3. NonceInv' /\ CycleInv' /\ CallInv'
  BY <1>1 DEF IInv, NonceInv, CycleInv, CallInv
<1>4. TimeInv'
  BY <1>1 DEF IInv, TimeInv, Granted, backendVars
<1> QED
  BY <1>2, <1>3, <1>4 DEF IInv

-----------------------------------------------------------------------------
(* The cabinet, and time *)

LEMMA CabinetMoves ==
  ASSUME IInv, CabinetStep
  PROVE  IInv'
<1>1. CabinetSound
  BY CabinetFacts DEF IInv, TypeOK, CabinetStep, CabinetSound
<1>2. CallsKept /\ PiKept /\ BarredKept
  BY CallsRest, PiRests DEF IInv, CabinetStep, BarredKept, backendVars
<1>3. RestTyped
  <2>1. PageTyped' /\ linkReady' \in BOOLEAN /\ piCycle' \in PiCycles
    BY DEF IInv, TypeOK, CabinetStep, PageTyped, PiCycles, pageVars
  <2>2. unmoved' \in SUBSET Slots /\ CycleInv'
    BY DEF IInv, TypeOK, CabinetStep, CycleInv
  <2> QED
    BY <2>1, <2>2 DEF RestTyped
<1> QED
  BY <1>1, <1>2, <1>3, OrdinaryStep DEF CabinetStep

\* Time passes: what is accepted has time left.
LEMMA TickStep ==
  ASSUME IInv, Tick
  PROVE  IInv'
<1>1. /\ now \in Int /\ now' = now + 1 /\ now' \in Times
      /\ PiLag \in Int /\ ServeTime \in Int /\ GrantTTL \in Int /\ SessionEnd \in Int
      /\ UNCHANGED <<cabinetVars, backendVars, pageVars, call, piVars>>
  BY TimeAssumption DEF IInv, TypeOK, Tick, Times
<1>2. TypeOK' /\ PulseInv'
  BY <1>1, CabinetRests DEF IInv, TypeOK, backendVars, pageVars, piVars
<1>3. \A n \in Calls : /\ call[n].expiresAt \in Int
                       /\ accepted[n] # Nil => accepted[n] \in Int
                       /\ barredAt # Nil => barredAt \in Int
  BY TimeAssumption DEF IInv, TypeOK, Call, Times
<1>4. NonceInv'
  BY <1>1, <1>3 DEF IInv, NonceInv, PiNow, piVars
<1>5. CycleInv' /\ CallInv'
  BY <1>1 DEF IInv, CycleInv, CallInv, piVars, cabinetVars
<1>6. TimeInv'
  <2>1. barredAt # Nil => barredAt \in Int /\ barredAt <= now
    BY TimeAssumption DEF IInv, TypeOK, TimeInv, Times
  <2>2. ASSUME NEW n \in Calls
        PROVE  Timely(now + 1, barredAt, call[n], accepted[n])
    <3>1. Timely(now, barredAt, call[n], accepted[n])
      BY TimelyInv DEF IInv
    <3>2. accepted[n] # Nil => now < accepted[n] + ServeTime
      BY DEF Tick
    <3> QED
      BY <1>1, <1>3, <3>1, <3>2 DEF Timely
  <2> QED
    BY <1>1, <2>1, <2>2, TimelyInv DEF IInv, backendVars, piVars
<1> QED
  BY <1>2, <1>4, <1>5, <1>6 DEF IInv

-----------------------------------------------------------------------------

LEMMA InitIsSound == Init => IInv
<1> SUFFICES ASSUME Init PROVE IInv
  OBVIOUS
<1>1. TypeOK
  <2>1. 0 \in Clock /\ 0 \in Times
    BY ClockAssumption, TimeAssumption DEF Clock, Times
  <2>2. CabinetTypeOK
    BY <2>1 DEF Init, CabinetInit, CabinetTypeOK
  <2>3. call \in [Calls -> Call]
    BY DEF Init, NoCall, Call, Stages
  <2>4. /\ now \in Times /\ session \in Statuses /\ obstacle \in BOOLEAN
        /\ barredAt \in Times \union {Nil} /\ screen \in {"home", "restock"}
        /\ seenClosed \in SUBSET Slots /\ cycle \in [Slots -> Cycles]
    BY <2>1 DEF Init, Statuses, Cycles
  <2>5. /\ accepted \in [Calls -> Times \union {Nil}] /\ used \in SUBSET Calls
        /\ piCycle \in [Slots -> {"NONE", "WAITING_OPEN", "WAITING_CLOSED"}]
        /\ linkReady \in BOOLEAN /\ writes \in [Calls -> Nat]
        /\ unmoved \in SUBSET Slots
    BY DEF Init
  <2> QED
    BY <2>2, <2>3, <2>4, <2>5 DEF TypeOK
<1>2. PulseInv
  BY ClockAssumption, SlotAssumption
     DEF Init, CabinetInit, PulseInv, PulseIsBounded, relayActive
<1>3. NonceInv /\ CycleInv /\ TimeInv /\ CallInv
  BY DEF Init, NonceInv, CycleInv, TimeInv, CallInv, NoCall, Granted
<1> QED
  BY <1>1, <1>2, <1>3 DEF IInv

\* What a press does, with the requests it makes.
StepOf(n) ==
  \/ Grant(n) \/ Send(n) \/ GrantFails(n)
  \/ UnlockFails(n) \/ UnlockConfirmed(n)
  \/ Receive(n) \/ Unavailable(n) \/ StatusFails(n)
  \/ Refused(n) \/ Open(n) \/ OpenRaises(n)
  \/ \E s \in Slots : Press(n, s)

LEMMA StepIsSound == IInv /\ [Next]_vars => IInv'
<1> SUFFICES ASSUME IInv, [Next]_vars PROVE IInv'
  OBVIOUS
<1>1. ASSUME NEW n \in Calls, StepOf(n)
      PROVE  IInv'
  BY <1>1, GrantStep, SendStep, GrantFailsStep, ReplyStep, ReceiveStep,
     GivenUpStep, OpenStep, PressStep DEF StepOf
<1>2. CASE ObstacleChanges \/ Enter \/ SessionGone \/ Reload
  BY <1>2, ObstacleStep, EnterStep, SessionGoneStep, ReloadStep
<1>3. CASE Confirm \/ Exit
  <2>1. "COMPLETED" \in Statuses /\ "CANCELLED" \in Statuses
    BY DEF Statuses
  <2> QED
    BY <1>3, <2>1, EndStep DEF Confirm, Exit
<1>4. CASE StatusRead \/ StatusUnavailable \/ LinkVerified \/ LinkLost \/ PiRestart
  BY <1>4, StatusStep, LinkStep, RestartStep
<1>5. CASE CabinetStep \/ Tick
  BY <1>5, CabinetMoves, TickStep
<1>6. CASE UNCHANGED vars
  <2>1. CallsKept /\ BarredKept
    BY <1>6, CallsRest DEF IInv, BarredKept, vars, backendVars
  <2>2. PageTyped'
    BY <1>6 DEF IInv, TypeOK, PageTyped, vars, pageVars
  <2> QED
    BY <1>6, <2>1, <2>2, PageStep DEF vars
<1> QED
  BY <1>1, <1>2, <1>3, <1>4, <1>5, <1>6 DEF Next, StepOf

\* Every step keeps what the firmware, the Pi and the backend know of each
\* other (all handlers of the restock unlock, and loop()).
THEOREM Invariance == Spec => []IInv
<1> QED
  BY InitIsSound, StepIsSound, PTL DEF Spec

\* The state is of the types the code gives it.
THEOREM TypeCorrect == Spec => []TypeOK
<1>1. IInv => TypeOK
  BY DEF IInv
<1> QED
  BY <1>1, Invariance, PTL

\* The solenoid is released in time although the clock wraps, and no other
\* is energised meanwhile (checkRelayTimeout, handleCommand).
THEOREM PulseBounded == Spec => []PulseIsBounded
<1>1. IInv => PulseIsBounded
  BY DEF IInv, PulseInv
<1> QED
  BY <1>1, Invariance, PTL

\* However often a request arrives, a Pi that has not restarted writes at
\* most one command for its grant (restock_unlock).
THEOREM OpensOnce == Spec => []GrantOpensOnce
<1>1. IInv => GrantOpensOnce
  BY DEF IInv, NonceInv, GrantOpensOnce
<1> QED
  BY <1>1, Invariance, PTL

\* What a step that writes a command is.
LEMMA OnlyOpenWrites ==
  ASSUME IInv, [Next]_vars, NEW n \in Calls, writes'[n] > writes[n]
  PROVE  Open(n) \/ OpenRaises(n)
<1>1. writes \in [Calls -> Nat]
  BY DEF IInv, TypeOK
<1>2. writes' # writes
  BY <1>1
<1>3. CASE PiRestart
  <2>1. writes'[n] = 0
    BY <1>3 DEF PiRestart
  <2> QED
    BY <1>1, <2>1
<1>4. ASSUME NEW m \in Calls, Open(m) \/ OpenRaises(m)
      PROVE  m = n
  <2>1. writes' = [writes EXCEPT ![m] = @ + 1]
    BY <1>4 DEF Open, OpenRaises
  <2> QED
    BY <1>1, <2>1
<1>5. ASSUME NEW m \in Calls, StepOf(m)
      PROVE  Open(m) \/ OpenRaises(m)
  BY <1>2, <1>5 DEF StepOf, Grant, Send, GrantFails, UnlockFails, UnlockConfirmed,
     Receive, Unavailable, StatusFails, Refused, Press, piVars
<1>6. ~ UNCHANGED vars
  BY <1>2 DEF vars, piVars
<1>7. ~ (ObstacleChanges \/ Enter \/ Confirm \/ Exit \/ SessionGone \/ Reload)
  BY <1>2 DEF ObstacleChanges, Enter, Confirm, Exit, SessionGone, Reload, piVars
<1>8. ~ (StatusRead \/ StatusUnavailable \/ LinkVerified \/ LinkLost
         \/ CabinetStep \/ Tick)
  BY <1>2 DEF StatusRead, StatusUnavailable, LinkVerified, LinkLost, CabinetStep,
     Tick, piVars
<1> QED
  BY <1>3, <1>4, <1>5, <1>6, <1>7, <1>8 DEF Next, StepOf

\* A slot is pulsed again only after the door has been open since the last
\* pulse the Pi knows of (observe_restock_door_cycles).
THEOREM PulsesAlternate == Spec => NoSecondPulse
<1>1. ASSUME IInv, [Next]_vars, NEW n \in Calls, writes'[n] > writes[n]
      PROVE  call[n].slot \notin unmoved
  <2>1. accepted[n] # Nil /\ MayOpen(call[n].slot)
    BY <1>1, OnlyOpenWrites DEF Open, OpenRaises
  <2> QED
    BY <1>1, <2>1, MayOpenFacts
<1>2. IInv /\ [Next]_vars =>
        [\A n \in Calls : writes'[n] > writes[n] => call[n].slot \notin unmoved]_vars
  BY <1>1
<1> QED
  BY <1>2, Invariance, PTL DEF Spec, NoSecondPulse

\* No door is opened for restocking when what forbids it is older than the
\* life of a grant and the time the Pi takes, nor after the session
\* (createRestockUnlockGrantWithDependencies, restock_unlock).
THEOREM OpensInTime == Spec => NothingOpensLate
<1>1. ASSUME IInv, [Next]_vars, NEW n \in Calls, writes'[n] > writes[n]
      PROVE  ~ Past(barredAt) /\ now - PiLag < SessionEnd + ServeTime
  <2>1. accepted[n] # Nil
    BY <1>1, OnlyOpenWrites DEF Open, OpenRaises
  <2>2. call[n].stage = "SENT"
    BY <1>1, <2>1 DEF IInv, NonceInv
  <2>3. Timely(now, barredAt, call[n], accepted[n])
    BY <1>1, TimelyInv DEF IInv
  <2>4. /\ now \in Int /\ accepted[n] \in Int /\ call[n].expiresAt \in Int
        /\ PiLag \in Int /\ ServeTime \in Int /\ GrantTTL \in Int /\ SessionEnd \in Int
        /\ barredAt # Nil => barredAt \in Int
    BY <1>1, <2>1, TimeAssumption DEF IInv, TypeOK, Call, Times
  <2> QED
    BY <2>1, <2>2, <2>3, <2>4 DEF Timely, Past
<1>2. IInv /\ [Next]_vars =>
        [\A n \in Calls : writes'[n] > writes[n] =>
           ~ Past(barredAt) /\ now - PiLag < SessionEnd + ServeTime]_vars
  BY <1>1
<1> QED
  BY <1>2, Invariance, PTL DEF Spec, NothingOpensLate
=============================================================================
