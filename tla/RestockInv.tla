----------------------------- MODULE RestockInv -----------------------------
(***************************************************************************)
(* The inductive invariant of RestockUnlock: what the firmware knows of    *)
(* its clock, what the Pi remembers of a grant and of a door, and how long *)
(* a grant can be under way.                                               *)
(***************************************************************************)
EXTENDS RestockUnlock

\* The clock has moved on by coil since the relay was switched on, and has
\* wrapped at most once.
PulseInv ==
  /\ PulseIsBounded
  /\ relayActive => \/ millis = relayStartTime + coil
                    \/ millis = relayStartTime + coil - ClockSize

Granted(n) == call[n].stage \in {"GRANTED", "SENT"}

\* A grant that was redeemed, or is being redeemed, is remembered until it
\* expires, and is not redeemed twice.
NonceInv ==
  \A n \in Calls :
    /\ accepted[n] # Nil \/ writes[n] > 0 =>
         /\ call[n].stage = "SENT"
         /\ n \in used \/ call[n].expiresAt <= PiNow
    /\ accepted[n] # Nil => writes[n] = 0
    /\ writes[n] <= 1

\* A slot that was pulsed and has not opened is waiting for its door.
CycleInv == \A s \in unmoved : s \notin doors /\ piCycle[s] = "WAITING_OPEN"

\* A grant was not issued later than what forbids one began, and is
\* valid when its request is accepted.
TimeInv ==
  /\ session = "ACTIVE" /\ ~ obstacle <=> barredAt = Nil
  /\ barredAt # Nil => barredAt <= now
  /\ \A n \in Calls :
       /\ Granted(n) =>
            /\ call[n].expiresAt <= SessionEnd
            /\ call[n].expiresAt <= now + GrantTTL
            /\ barredAt # Nil => call[n].expiresAt <= barredAt + GrantTTL
       /\ accepted[n] # Nil =>
            /\ accepted[n] <= now
            /\ now <= accepted[n] + ServeTime
            /\ accepted[n] - PiLag < call[n].expiresAt

\* A press that may still come to something is of a slot of the cabinet.
CallInv ==
  \A n \in Calls :
    call[n].stage \in {"ASKING", "GRANTED", "SENT"} => call[n].slot \in Slots

IInv == TypeOK /\ PulseInv /\ NonceInv /\ CycleInv /\ TimeInv /\ CallInv
=============================================================================
