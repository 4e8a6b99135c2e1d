--------------------------- MODULE RestockUnlock ---------------------------
(***************************************************************************)
(* An employee opens the slots of the cabinet to refill them: the restock  *)
(* screen (RestockMode.tsx, restock-unlock-cycle.mjs, api/unlock.ts), the  *)
(* backend that grants one opening at a time (restock-unlock.service.ts),  *)
(* the Pi that redeems a grant once and follows the door afterwards        *)
(* (pi_unlock_service.py, serial_recovery.py), and below it the Cabinet.   *)
(*                                                                         *)
(* One session is worked through, from the moment its employee has been    *)
(* recognised; the page may leave it and enter it again.  A request that   *)
(* has been sent may reach the Pi late and more than once, any reply may   *)
(* be lost, the page may reload, the Pi and the ESP32 may restart.  The    *)
(* unit of time is five seconds; a pulse of a relay is far shorter, so the *)
(* time does not advance during one.                                       *)
(***************************************************************************)
EXTENDS Cabinet

CONSTANTS
  MaxCalls,      \* presses of an unlock button
  Horizon,       \* the time the model ends at
  SessionEnd,    \* expiresAt of the session
  GrantTTL,      \* RESTOCK_UNLOCK_GRANT_TTL_MS
  MaxGrantTTL,   \* RESTOCK_UNLOCK_GRANT_MAX_TTL_MS of the Pi
  PiLag,         \* how far the Pi's clock is behind the backend's
  ServeTime      \* what the Pi takes for a request it has accepted, at most

ASSUME TimeAssumption ==
  /\ Horizon \in Nat /\ SessionEnd \in Nat
  /\ GrantTTL \in Nat /\ MaxGrantTTL \in Nat /\ PiLag \in Int
  /\ ServeTime \in Nat
ASSUME BoundsAssumption == MaxCalls \in Nat
ASSUME NilIsNoTime == Nil \notin Int

VARIABLES
  now,
  session,     \* status of the session
  obstacle,    \* a customer's payment is open, or the employee was made inactive
  barredAt,    \* history: since when one of these forbids a grant, if so
  screen,      \* what the kiosk shows
  seenClosed,  \* the slots whose door was closed in the last poll
  cycle,       \* unlockCycles of the page
  call,        \* the presses of a button, each with its grant
  accepted,    \* requests past the check of their nonce, in the Pi: since when
  used,        \* used_restock_unlock_nonces
  piCycle,     \* restock_unlock_cycles
  linkReady,   \* the serial link was verified a short while ago
  writes,      \* history: commands written per grant, since the Pi started
  unmoved      \* history: slots commanded since, whose door has not opened

backendVars == <<session, obstacle, barredAt>>
pageVars == <<screen, seenClosed, cycle>>
piVars == <<accepted, used, piCycle, linkReady, writes, unmoved>>
vars == <<cabinetVars, now, backendVars, pageVars, call, piVars>>

Calls == 1..MaxCalls

Times == 0..Horizon

Statuses == {"ACTIVE", "COMPLETED", "CANCELLED", "EXPIRED"}

Stages == {"IDLE", "ASKING", "GRANTED", "SENT", "OVER"}

Cycles ==
  {"NONE", "REQUESTING", "WAITING_OPEN", "WAITING_CLOSED", "ASSISTANCE"}

NoCall == [stage |-> "IDLE", slot |-> Nil, expiresAt |-> 0, reply |-> "unawaited"]

Call == [stage : Stages, slot : Slots \union {Nil}, expiresAt : Int,
         reply : {"unawaited", "awaited", "success"}]

\* A press that came to nothing: no request of it will ever be sent.
Over == [NoCall EXCEPT !.stage = "OVER"]

TypeOK ==
  /\ CabinetTypeOK
  /\ now \in Times
  /\ session \in Statuses
  /\ obstacle \in BOOLEAN
  /\ barredAt \in Times \union {Nil}
  /\ screen \in {"home", "restock"}
  /\ seenClosed \in SUBSET Slots
  /\ cycle \in [Slots -> Cycles]
  /\ call \in [Calls -> Call]
  /\ accepted \in [Calls -> Times \union {Nil}]
  /\ used \in SUBSET Calls
  /\ piCycle \in [Slots -> {"NONE", "WAITING_OPEN", "WAITING_CLOSED"}]
  /\ linkReady \in BOOLEAN
  /\ writes \in [Calls -> Nat]
  /\ unmoved \in SUBSET Slots

Init ==
  /\ CabinetInit
  /\ now = 0
  /\ session = "ACTIVE"
  /\ obstacle = FALSE
  /\ barredAt = Nil
  /\ screen = "home"
  /\ seenClosed = {}
  /\ cycle = [s \in Slots |-> "NONE"]
  /\ call = [n \in Calls |-> NoCall]
  /\ accepted = [n \in Calls |-> Nil]
  /\ used = {}
  /\ piCycle = [s \in Slots |-> "NONE"]
  /\ linkReady = FALSE
  /\ writes = [n \in Calls |-> 0]
  /\ unmoved = {}

-----------------------------------------------------------------------------
(* The backend *)

Live == session = "ACTIVE" /\ now < SessionEnd

\* An expired session is marked by whichever handler comes across it.
Swept == IF session = "ACTIVE" /\ ~ Live THEN "EXPIRED" ELSE session

\* Faulty: only the session matters.
MayGrant_session == Live

\* getContext and the checks after it.  The Pi's statement about the face
\* is bound to this session and outlives it.
MayGrant == Live /\ ~ obstacle

GrantExpiry ==
  IF SessionEnd < now + GrantTTL THEN SessionEnd ELSE now + GrantTTL

Grant(n) ==
  /\ call[n].stage = "ASKING"
  /\ MayGrant
  /\ call' = [call EXCEPT ![n].stage = "GRANTED", ![n].expiresAt = GrantExpiry]
  /\ UNCHANGED <<cabinetVars, now, backendVars, pageVars, piVars>>

\* What forbids a grant has begun, has ended, or neither.
Barred ==
  barredAt' = IF session' = "ACTIVE" /\ ~ obstacle' THEN Nil
              ELSE IF barredAt = Nil THEN now
              ELSE barredAt

\* A payment is opened or closed, the employee is deactivated or activated.
ObstacleChanges ==
  /\ obstacle' = ~ obstacle
  /\ UNCHANGED <<cabinetVars, now, session, pageVars, call, piVars>>
  /\ Barred

\* The session gets another status, or keeps its own.
SessionBecomes(status) ==
  /\ session' = status
  /\ UNCHANGED obstacle
  /\ Barred

\* A commit or a cancellation ends it; a call that comes across an expired
\* session marks it and is refused.
End(status) == SessionBecomes(IF Live THEN status ELSE Swept)

-----------------------------------------------------------------------------
(* The restock screen *)

\* The component is gone.  Its promises go on, but nobody awaits them.
Unmount ==
  /\ screen' = "home"
  /\ seenClosed' = {}
  /\ cycle' = [s \in Slots |-> "NONE"]

Unawaited == [n \in Calls |-> [call[n] EXCEPT !.reply = "unawaited"]]

\* The employee of the session has been recognised.
Enter ==
  /\ screen = "home"
  /\ Live
  /\ screen' = "restock"
  /\ UNCHANGED <<cabinetVars, now, backendVars, seenClosed, cycle,
                 call, piVars>>

\* handleUnlockSlot: the slot is on the screen, with a closed door, and no
\* cycle of its own.
MayPress(s) == s \in seenClosed /\ cycle[s] = "NONE"

\* beginRestockUnlock, and the request for a grant.
Press(n, s) ==
  /\ screen = "restock"
  /\ MayPress(s)
  /\ call[n].stage = "IDLE"
  /\ \A m \in Calls : m < n => call[m].stage # "IDLE"
  /\ call' = [call EXCEPT ![n] = [stage |-> "ASKING", slot |-> s,
                                  expiresAt |-> 0, reply |-> "awaited"]]
  /\ cycle' = [cycle EXCEPT ![s] = "REQUESTING"]
  /\ UNCHANGED <<cabinetVars, now, backendVars, screen, seenClosed,
                 piVars>>

\* unlockRestockSlot: with the grant goes the request to the Pi.
Send(n) ==
  /\ call[n].stage = "GRANTED"
  /\ call' = [call EXCEPT ![n].stage = "SENT"]
  /\ UNCHANGED <<cabinetVars, now, backendVars, pageVars, piVars>>

\* clearRestockUnlockRequest, if the screen still awaits the call.
Cleared(n) ==
  cycle' = IF call[n].reply = "unawaited" THEN cycle
           ELSE [cycle EXCEPT ![call[n].slot] = "NONE"]

\* The grant is refused, or its reply is lost.
GrantFails(n) ==
  /\ call[n].stage \in {"ASKING", "GRANTED"}
  /\ SessionBecomes(Swept)
  /\ call' = [call EXCEPT ![n] = Over]
  /\ Cleared(n)
  /\ UNCHANGED <<cabinetVars, now, screen, seenClosed, piVars>>

\* The Pi refused, or its reply is lost; the request may still be under way.
UnlockFails(n) ==
  /\ call[n].stage = "SENT"
  /\ call[n].reply # "unawaited"
  /\ call' = [call EXCEPT ![n].reply = "unawaited"]
  /\ Cleared(n)
  /\ UNCHANGED <<cabinetVars, now, backendVars, screen, seenClosed,
                 piVars>>

\* markRestockUnlockSent.
UnlockConfirmed(n) ==
  /\ call[n].reply = "success"
  /\ call' = [call EXCEPT ![n].reply = "unawaited"]
  /\ cycle' = [cycle EXCEPT ![call[n].slot] = "WAITING_OPEN"]
  /\ UNCHANGED <<cabinetVars, now, backendVars, screen, seenClosed,
                 piVars>>

\* collect_hardware_status: the open doors, of a complete and fresh answer.
Snapshot == DoorReport

\* applyRestockDoorObservations, for one slot; a door that stays closed may
\* have done so for too long.
Followed(s) ==
  CASE cycle[s] = "WAITING_OPEN" ->
         IF s \in Snapshot THEN {"WAITING_CLOSED"}
         ELSE {"WAITING_OPEN", "ASSISTANCE"}
    [] cycle[s] = "WAITING_CLOSED" /\ s \notin Snapshot -> {"NONE"}
    [] OTHER -> {cycle[s]}

\* The screen's poll succeeds.
Observe ==
  /\ seenClosed' = Slots \ Snapshot
  /\ cycle' \in { c \in [Slots -> Cycles] : \A s \in Slots : c[s] \in Followed(s) }

\* The screen's poll fails: it forgets what it saw.
Blind ==
  /\ seenClosed' = {}
  /\ UNCHANGED cycle

Leave ==
  /\ Unmount
  /\ call' = Unawaited

\* validateSlots: every door is closed, has been for two seconds, and every
\* slot is filled; the last two only choose the moment.
AllSlotsReady == seenClosed = Slots

\* handleConfirmRestock.  The commit may fail, before or after the backend
\* has done it; else the screen shows success and goes home.  What else the
\* commit asks of the session's employee is in StaffSession.
Confirm ==
  /\ screen = "restock"
  /\ AllSlotsReady
  /\ End("COMPLETED")
  /\ \/ Live /\ Leave
     \/ UNCHANGED <<pageVars, call>>
  /\ UNCHANGED <<cabinetVars, now, piVars>>

\* handleExitRestockMode, likewise; a pending unlock does not block it.
Exit ==
  /\ screen = "restock"
  /\ End("CANCELLED")
  /\ \/ Live /\ Leave
     \/ UNCHANGED <<pageVars, call>>
  /\ UNCHANGED <<cabinetVars, now, piVars>>

\* The poll for the current session finds none: EXIT_STAFF.
SessionGone ==
  /\ screen = "restock"
  /\ ~ Live
  /\ SessionBecomes(Swept)
  /\ Leave
  /\ UNCHANGED <<cabinetVars, now, piVars>>

\* A reload loses the promises: no grant is redeemed that was not yet sent.
AfterReload ==
  [n \in Calls |->
     IF call[n].stage \in {"ASKING", "GRANTED"}
     THEN Over
     ELSE Unawaited[n]]

Reload ==
  /\ screen = "restock"
  /\ Unmount
  /\ call' = AfterReload
  /\ UNCHANGED <<cabinetVars, now, backendVars, piVars>>

-----------------------------------------------------------------------------
(* The Pi *)

PiNow == now - PiLag

\* The claims of a grant, for the Pi's clock.
Valid(n) ==
  /\ call[n].expiresAt > PiNow
  /\ call[n].expiresAt <= PiNow + MaxGrantTTL

\* Faulty: forgets the nonces whose grant is still valid.
Remembered_expired == { n \in used : ~ call[n].expiresAt > PiNow }

\* The nonces that are kept: those whose grant has not expired.
Remembered == { n \in used : call[n].expiresAt > PiNow }

\* restock_unlock, up to the check of the nonce.
Receive(n) ==
  /\ call[n].stage = "SENT"
  /\ Valid(n)
  /\ \/ /\ n \in Remembered
        /\ used' = Remembered
        /\ UNCHANGED accepted
     \/ /\ n \notin Remembered
        /\ used' = Remembered \union {n}
        /\ accepted' = [accepted EXCEPT ![n] = now]
  /\ UNCHANGED <<cabinetVars, now, backendVars, pageVars, call, piCycle, linkReady, writes, unmoved>>

\* Faulty: a door that is found closed ends the wait for its opening.
CycleAfter_closed(s) ==
  IF s \in Snapshot /\ piCycle[s] # "NONE" THEN "WAITING_CLOSED" ELSE "NONE"

\* observe_restock_door_cycles, for one slot.
CycleAfter(s) ==
  CASE piCycle[s] = "WAITING_OPEN" /\ s \in Snapshot -> "WAITING_CLOSED"
    [] piCycle[s] = "WAITING_CLOSED" /\ s \notin Snapshot -> "NONE"
    [] OTHER -> piCycle[s]

\* The line is not ready, or another operation holds it.
Unavailable(n) ==
  /\ accepted[n] # Nil
  /\ accepted' = [accepted EXCEPT ![n] = Nil]
  /\ UNCHANGED <<cabinetVars, now, backendVars, pageVars, call, used, piCycle, linkReady, writes, unmoved>>

\* The status cannot be read, and the link is given up.
StatusFails(n) ==
  /\ accepted[n] # Nil
  /\ linkReady
  /\ accepted' = [accepted EXCEPT ![n] = Nil]
  /\ linkReady' = FALSE
  /\ UNCHANGED <<cabinetVars, now, backendVars, pageVars, call, used, piCycle, writes, unmoved>>

\* No cycle of the slot is pending, and its door is closed.
MayOpen(s) == CycleAfter(s) = "NONE" /\ s \notin Snapshot

\* A cycle is pending, or the door is open.
Refused(n) ==
  LET s == call[n].slot
  IN  /\ accepted[n] # Nil
      /\ linkReady
      /\ ~ MayOpen(s)
      /\ accepted' = [accepted EXCEPT ![n] = Nil]
      /\ piCycle' = [t \in Slots |-> CycleAfter(t)]
      /\ UNCHANGED <<cabinetVars, now, backendVars, pageVars, call, used, linkReady, writes, unmoved>>

\* The command goes out, and arrives or is lost on a line that has died.
Written(s) ==
  \/ HandleOpen(s) /\ UNCHANGED doors
  \/ UNCHANGED cabinetVars

\* open_slot: the fresh status allows it.
Open(n) ==
  LET s == call[n].slot
  IN  /\ accepted[n] # Nil
      /\ linkReady
      /\ MayOpen(s)
      /\ Written(s)
      /\ accepted' = [accepted EXCEPT ![n] = Nil]
      /\ writes' = [writes EXCEPT ![n] = @ + 1]
      /\ call' = [call EXCEPT ![n].reply = IF @ = "awaited" THEN "success"
                                           ELSE @]
      /\ piCycle' = [t \in Slots |-> IF t = s THEN "WAITING_OPEN"
                                     ELSE CycleAfter(t)]
      /\ unmoved' = unmoved \union {s}
      /\ UNCHANGED <<now, backendVars, pageVars, used, linkReady>>

\* open_slot raises, although the command may have arrived.
OpenRaises(n) ==
  LET s == call[n].slot
  IN  /\ accepted[n] # Nil
      /\ linkReady
      /\ MayOpen(s)
      /\ Written(s)
      /\ accepted' = [accepted EXCEPT ![n] = Nil]
      /\ writes' = [writes EXCEPT ![n] = @ + 1]
      /\ piCycle' = [t \in Slots |-> CycleAfter(t)]
      /\ linkReady' = FALSE
      /\ UNCHANGED <<now, backendVars, pageVars, call, used,
                     unmoved>>

\* GET /hardware/status, for the screen or for another reader.  The screen
\* may miss the answer.
StatusRead ==
  /\ linkReady
  /\ piCycle' = [s \in Slots |-> CycleAfter(s)]
  /\ linkReady' = TRUE
  /\ \/ screen = "restock" /\ Observe
     \/ screen = "restock" /\ Blind
     \/ UNCHANGED <<seenClosed, cycle>>
  /\ UNCHANGED <<cabinetVars, now, backendVars, screen, call, accepted,
                 used, writes, unmoved>>

\* hardware_status is busy, not ready, or fails and gives up the link.
StatusUnavailable ==
  /\ linkReady' \in {linkReady, FALSE}
  /\ \/ screen = "restock" /\ Blind
     \/ UNCHANGED <<seenClosed, cycle>>
  /\ UNCHANGED <<cabinetVars, now, backendVars, screen, call, accepted,
                 used, piCycle, writes, unmoved>>

\* step of the recovery thread: a ping of a ready link, or a connection, a
\* ping and a status, which observes no cycle.
LinkVerified ==
  /\ ~ linkReady
  /\ linkReady' = TRUE
  /\ UNCHANGED <<cabinetVars, now, backendVars, pageVars, call, accepted,
                 used, piCycle, writes, unmoved>>

\* The step failed, or the last success lies too far back (readiness).
LinkLost ==
  /\ linkReady
  /\ linkReady' = FALSE
  /\ UNCHANGED <<cabinetVars, now, backendVars, pageVars, call, accepted,
                 used, piCycle, writes, unmoved>>

\* The service restarts and has forgotten everything.
PiRestart ==
  /\ accepted' = [n \in Calls |-> Nil]
  /\ used' = {}
  /\ piCycle' = [s \in Slots |-> "NONE"]
  /\ linkReady' = FALSE
  /\ writes' = [n \in Calls |-> 0]
  /\ unmoved' = {}
  /\ UNCHANGED <<cabinetVars, now, backendVars, pageVars, call>>

-----------------------------------------------------------------------------
(* The cabinet, and time *)

CabinetStep ==
  /\ CabinetNext
  /\ unmoved' = unmoved \ doors'
  /\ UNCHANGED <<now, backendVars, pageVars, call, accepted, used,
                 piCycle, linkReady, writes>>

Tick ==
  /\ now < Horizon
  /\ ~ relayActive
  /\ \A n \in Calls : accepted[n] # Nil => now < accepted[n] + ServeTime
  /\ now' = now + 1
  /\ UNCHANGED <<cabinetVars, backendVars, pageVars, call, piVars>>

Next ==
  \/ \E n \in Calls :
       \/ Grant(n) \/ Send(n) \/ GrantFails(n)
       \/ UnlockFails(n) \/ UnlockConfirmed(n)
       \/ Receive(n) \/ Unavailable(n) \/ StatusFails(n)
       \/ Refused(n) \/ Open(n) \/ OpenRaises(n)
       \/ \E s \in Slots : Press(n, s)
  \/ ObstacleChanges \/ Enter \/ Confirm \/ Exit \/ SessionGone \/ Reload
  \/ StatusRead \/ StatusUnavailable \/ LinkVerified \/ LinkLost \/ PiRestart
  \/ CabinetStep \/ Tick

Spec == Init /\ [][Next]_vars

-----------------------------------------------------------------------------
(* What the unlocking promises *)

\* A grant opens its slot at most once while the Pi runs, however often its
\* request arrives (the nonces of restock_unlock, and their purge).
GrantOpensOnce == \A n \in Calls : writes[n] <= 1

\* The Pi pulses a slot again only after the door has been open since the
\* last pulse it knows of (restock_unlock_cycles over every reader of the
\* doors' status).
NoSecondPulse ==
  [][\A n \in Calls :
       writes'[n] > writes[n] => call[n].slot \notin unmoved]_vars

\* The life of a grant, with the time the Pi takes to serve it, has passed
\* since that moment, if there was one.
Past(moment) ==
  moment # Nil /\ now - PiLag >= moment + GrantTTL + ServeTime

\* Once the session has ended or expired, the employee has been dismissed or
\* a customer's payment is open, no door is opened for restocking after the
\* life of a grant and the time to serve it, whatever is still on its way
\* (the checks of restock-unlock.service.ts, and those of the Pi by its own
\* clock, before it takes the line and reads the doors).
NothingOpensLate ==
  [][\A n \in Calls : writes'[n] > writes[n] =>
       ~ Past(barredAt) /\ now - PiLag < SessionEnd + ServeTime]_vars
=============================================================================
