------------------------- MODULE HardwareMonitor -------------------------
(***************************************************************************)
(* Is the machine reaching the cloud?  The relay on the Pi sends           *)
(* heartbeats over a network that delays, reorders and loses them; the     *)
(* backend records them (hardware-monitoring.service.ts) and its           *)
(* evaluators, the health loop of the server and the scheduled job,        *)
(* decide when the machine is OFFLINE.  Each transition makes one alert.   *)
(*                                                                         *)
(* Time passes in whole units; the Pi's clock is the server's plus a skew  *)
(* that may jump.  A transaction of the store is SERIALIZABLE and is one   *)
(* step; the `now' of an evaluator and the `receivedAt' of a heartbeat are *)
(* taken before their transaction and may be old when it runs.             *)
(***************************************************************************)
EXTENDS Integers

CONSTANTS
  Evaluators,     \* processes that run health cycles
  Threshold,      \* OFFLINE_THRESHOLD_MS
  Confirmation,   \* OFFLINE_CONFIRMATION_MS
  MaxGap,         \* EVALUATOR_CONTINUITY_MAX_GAP_MS
  Tolerance,      \* how far in the future an observation may lie
  Skews,          \* the Pi's clock minus the server's
  MaxDelay,       \* bound: how long a heartbeat or a cycle may be under way
  Horizon         \* bound: the last moment looked at

ASSUME TimeAssumption ==
  /\ {Threshold, Confirmation, MaxGap, Tolerance, Horizon, MaxDelay} \subseteq Nat
  /\ Skews \subseteq Int
  /\ Tolerance + 1 < Threshold + Confirmation

VARIABLES
  now,        \* the server's clock
  skew,       \* the Pi's clock minus now
  relay,      \* the heartbeat thread: last sequence, time of the last sending
  wire,       \* heartbeats on their way to, or inside, the backend
  machine,    \* the row of HardwareMachine
  cycle,      \* the evaluators' cycles
  alerts,     \* how many alert events of each kind were created
  reaching,   \* history: every unit's heartbeat was sent and dealt with
  sound,      \* history: the Pi's clock was 0 .. Tolerance ahead
  watch       \* history: since when, and until when, someone was evaluating

vars == <<now, skew, relay, wire, machine, cycle, alerts, reaching, sound, watch>>

-----------------------------------------------------------------------------
(* Types *)

Never == -1                       \* a null date
Moment == 0 .. Horizon
MomentOrNever == Moment \union {Never}

\* A heartbeat; receivedAt is Never until the controller has parsed it.
Heartbeat ==
  [ sequence : Nat, observedAt : Int, sentAt : Moment, receivedAt : MomentOrNever ]

\* "NONE": not enrolled, there is no row.
Machine ==
  [ connectivity          : {"NONE", "ONLINE", "OFFLINE"},
    lastHeartbeatAt       : MomentOrNever,
    lastObservedAt        : Int,
    lastSequence          : Nat,
    offlineCandidateSince : MomentOrNever,
    lastEvaluatedAt       : MomentOrNever,
    offlineSince          : MomentOrNever ]

Unenrolled ==
  [ connectivity |-> "NONE", lastHeartbeatAt |-> Never, lastObservedAt |-> Never,
    lastSequence |-> 0, offlineCandidateSince |-> Never,
    lastEvaluatedAt |-> Never, offlineSince |-> Never ]

TypeOK ==
  /\ now \in Moment
  /\ skew \in Skews
  /\ relay \in [lastSequence : Nat, sentAt : MomentOrNever]
  /\ wire \subseteq Heartbeat
  /\ machine \in Machine
  /\ cycle \in [Evaluators -> MomentOrNever]
  /\ alerts \in [{"OFFLINE", "RECOVERED"} -> Nat]
  /\ {reaching, sound} \subseteq BOOLEAN
  /\ watch \in [since : MomentOrNever, until : MomentOrNever]

Init ==
  /\ now = 0
  /\ skew \in Skews
  /\ relay = [lastSequence |-> 0, sentAt |-> Never]
  /\ wire = {}
  /\ machine = Unenrolled
  /\ cycle = [e \in Evaluators |-> Never]
  /\ alerts = [transition \in {"OFFLINE", "RECOVERED"} |-> 0]
  /\ reaching = TRUE
  /\ sound = (skew \in 0 .. Tolerance)
  /\ watch = [since |-> Never, until |-> Never]

-----------------------------------------------------------------------------
(* The relay *)

PiClock == now + skew

\* Resolution of a sequence number: Pi milliseconds in a unit of time.
Millis == 1000

Larger(a, b) == IF a > b THEN a ELSE b

NextSequence(last) == Larger(PiClock * Millis, last + 1)

\* One round of the thread; its reply only decides what is logged.  A relay
\* that was restarted has forgotten its last sequence.  The heartbeat is on
\* its way, or never arrives, or its handler fails.
SendHeartbeat ==
  \E last \in {relay.lastSequence, 0} :
    /\ relay.sentAt < now
    /\ relay' = [lastSequence |-> NextSequence(last), sentAt |-> now]
    /\ \/ /\ wire' = wire \union {[sequence   |-> NextSequence(last),
                                   observedAt |-> PiClock,
                                   sentAt     |-> now,
                                   receivedAt |-> Never]}
          /\ UNCHANGED reaching
       \/ /\ reaching' = FALSE
          /\ UNCHANGED wire
    /\ UNCHANGED <<now, skew, machine, cycle, alerts, sound, watch>>

\* Time synchronisation, or a Pi that starts with a wrong clock.
StepClock ==
  /\ \E s \in Skews \ {skew} : skew' = s
  /\ sound' = (sound /\ skew' \in 0 .. Tolerance)
  /\ UNCHANGED <<now, relay, wire, machine, cycle, alerts, reaching, watch>>

-----------------------------------------------------------------------------
(* Heartbeat intake: parseHeartbeat, then ingestHardwareHeartbeat *)

TooFarInFuture(h) == h.observedAt > now + Tolerance

Parse ==
  \E h \in wire :
    /\ h.receivedAt = Never
    /\ wire' = IF TooFarInFuture(h)
               THEN wire \ {h}
               ELSE (wire \ {h}) \union {[h EXCEPT !.receivedAt = now]}
    /\ UNCHANGED <<now, skew, relay, machine, cycle, alerts, reaching, sound, watch>>

IsHeartbeatStale(h) ==
  \/ h.sequence <= machine.lastSequence
  \/ h.observedAt <= machine.lastObservedAt

\* Faulty: takes the Pi's word for when it was heard.
Created_byPiClock(h) ==
  [ connectivity |-> "ONLINE", lastHeartbeatAt |-> h.observedAt,
    lastObservedAt |-> h.observedAt, lastSequence |-> h.sequence,
    offlineCandidateSince |-> Never, lastEvaluatedAt |-> h.receivedAt,
    offlineSince |-> Never ]

Created(h) ==
  [ connectivity |-> "ONLINE", lastHeartbeatAt |-> h.receivedAt,
    lastObservedAt |-> h.observedAt, lastSequence |-> h.sequence,
    offlineCandidateSince |-> Never, lastEvaluatedAt |-> h.receivedAt,
    offlineSince |-> Never ]

\* The update clears the candidate and the outage, as a new row would.
Refreshed(h) == Created(h)

\* Faulty: announces a recovery whenever it hears of the machine.
Recovered_always == machine.connectivity # "NONE"

Recovered == machine.connectivity = "OFFLINE"

Ingest ==
  \E h \in wire :
    /\ h.receivedAt # Never
    /\ wire' = wire \ {h}
    /\ \/ /\ machine.connectivity = "NONE"
          /\ machine' = Created(h)
          /\ UNCHANGED alerts
       \/ /\ machine.connectivity # "NONE"
          /\ IsHeartbeatStale(h)                 \* StaleHeartbeatError
          /\ UNCHANGED <<machine, alerts>>
       \/ /\ machine.connectivity # "NONE"
          /\ ~ IsHeartbeatStale(h)
          /\ machine' = Refreshed(h)
          /\ alerts' = IF Recovered
                       THEN [alerts EXCEPT !["RECOVERED"] = @ + 1]
                       ELSE alerts
    /\ UNCHANGED <<now, skew, relay, cycle, reaching, sound, watch>>

-----------------------------------------------------------------------------
(* Health cycles *)

\* evaluateOfflineMachines: takes the time, lists the machines to look at.
StartCycle(e) ==
  /\ cycle[e] = Never
  /\ machine.connectivity = "ONLINE"
  /\ machine.lastHeartbeatAt <= now - Threshold
  /\ cycle' = [cycle EXCEPT ![e] = now]
  /\ UNCHANGED <<now, skew, relay, wire, machine, alerts, reaching, sound, watch>>

\* The cycle throws, or its process stops.
AbortCycle(e) ==
  /\ cycle[e] # Never
  /\ cycle' = [cycle EXCEPT ![e] = Never]
  /\ UNCHANGED <<now, skew, relay, wire, machine, alerts, reaching, sound, watch>>

\* Faulty: does not ask whether anyone was looking in the meantime.
ContinuityLost_never(t) == FALSE

ContinuityLost(t) ==
  machine.lastEvaluatedAt = Never \/ machine.lastEvaluatedAt < t - MaxGap

\* Faulty: one look after the threshold is enough.
Decision_unconfirmed(t) ==
  IF machine.lastHeartbeatAt > t - Threshold THEN "FRESH" ELSE "OFFLINE"

Decision(t) ==
  CASE machine.lastHeartbeatAt > t - Threshold -> "FRESH"
    [] /\ machine.lastHeartbeatAt <= t - Threshold
       /\ machine.offlineCandidateSince = Never \/ ContinuityLost(t)
         -> "START_CONFIRMATION"
    [] OTHER ->
         IF machine.offlineCandidateSince <= t - Confirmation
         THEN "OFFLINE" ELSE "WAIT"

Watched(t) ==
  [ since |-> IF watch.until = Never \/ t > watch.until + MaxGap
              THEN t ELSE watch.since,
    until |-> Larger(watch.until, t) ]

Evaluate(e) ==
  LET t == cycle[e]
  IN
  /\ t # Never
  /\ cycle' = [cycle EXCEPT ![e] = Never]
  /\ \/ /\ machine.connectivity # "ONLINE"
        /\ UNCHANGED <<machine, alerts, watch>>
     \/ /\ machine.connectivity = "ONLINE"
        /\ Decision(t) = "FRESH"
        /\ machine' = [machine EXCEPT !.offlineCandidateSince = Never,
                                      !.lastEvaluatedAt = t]
        /\ watch' = Watched(t)
        /\ UNCHANGED alerts
     \/ /\ machine.connectivity = "ONLINE"
        /\ Decision(t) \in {"START_CONFIRMATION", "WAIT"}
        /\ machine' = [machine EXCEPT
             !.offlineCandidateSince =
               IF Decision(t) = "START_CONFIRMATION" THEN t ELSE @,
             !.lastEvaluatedAt = t]
        /\ watch' = Watched(t)
        /\ UNCHANGED alerts
     \/ /\ machine.connectivity = "ONLINE"
        /\ Decision(t) = "OFFLINE"
        /\ machine' = [machine EXCEPT !.connectivity = "OFFLINE",
                                      !.offlineSince = t,
                                      !.offlineCandidateSince = Never,
                                      !.lastEvaluatedAt = t]
        /\ alerts' = [alerts EXCEPT !["OFFLINE"] = @ + 1]
        /\ watch' = Watched(t)
  /\ UNCHANGED <<now, skew, relay, wire, reaching, sound>>

-----------------------------------------------------------------------------
\* A unit passes; the relay still reaches the backend when the unit's
\* heartbeat was sent and dealt with.
Tick ==
  /\ now < Horizon
  /\ \A h \in wire : now < h.sentAt + MaxDelay
  /\ \A e \in Evaluators : cycle[e] # Never => now < cycle[e] + MaxDelay
  /\ now' = now + 1
  /\ reaching' = (reaching /\ relay.sentAt = now /\ wire = {})
  /\ UNCHANGED <<skew, relay, wire, machine, cycle, alerts, sound, watch>>

Next ==
  \/ SendHeartbeat \/ StepClock
  \/ Parse \/ Ingest
  \/ \E e \in Evaluators : StartCycle(e) \/ AbortCycle(e) \/ Evaluate(e)
  \/ Tick

Spec == Init /\ [][Next]_vars

-----------------------------------------------------------------------------
(* Properties *)

\* One outage makes one OFFLINE alert and at most one RECOVERED alert,
\* however the evaluators and the heartbeats interleave.
OneAlertPerOutage ==
  alerts["OFFLINE"] = alerts["RECOVERED"]
                      + (IF machine.connectivity = "OFFLINE" THEN 1 ELSE 0)

\* A machine is announced OFFLINE only after a silence of the threshold and
\* the confirmation together: a heartbeat always starts the count again, also
\* one recorded between the listing of the machine and its evaluation.  And
\* all through the confirmation evaluators kept looking: an outage of the
\* backend, in which heartbeats are lost and nobody evaluates, never becomes
\* an outage of the machine.
OfflineAfterWatchedSilence ==
  machine.connectivity = "OFFLINE" =>
    /\ machine.lastHeartbeatAt + Threshold + Confirmation <= machine.offlineSince
    /\ watch.since + Confirmation <= machine.offlineSince

\* A relay that keeps sending, over a network that keeps delivering, is never
\* announced OFFLINE, although its clock may step back and the backend then
\* refuses its heartbeats as old: a clock that was never behind the
\* server's, and ahead by no more than the tolerance, is caught up in time.
NoFalseAlarm == reaching /\ sound => machine.connectivity # "OFFLINE"

\* docs/phase3-hardware-monitoring.md: the Pi's timestamp and sequence "do not
\* decide online/offline state".  A machine whose every heartbeat has reached
\* the backend, whatever the Pi's clock showed, is not OFFLINE.
ReachingMeansOnline == reaching => machine.connectivity # "OFFLINE"

=============================================================================
