----------------------------- MODULE MonitorInv -----------------------------
(***************************************************************************)
(* The inductive invariant of HardwareMonitor: what the row of the machine *)
(* says of the heartbeats, and what evaluators and heartbeats that are     *)
(* under way may still do to it.                                           *)
(***************************************************************************)
EXTENDS HardwareMonitor

\* The row is about the past, and a candidate has been silent for the threshold.
RowInv ==
  /\ machine.connectivity # "NONE" => machine.lastHeartbeatAt \in 0 .. now
  /\ machine.offlineCandidateSince # Never =>
       /\ machine.connectivity = "ONLINE" /\ machine.lastEvaluatedAt # Never
       /\ machine.lastHeartbeatAt + Threshold <= machine.offlineCandidateSince
  /\ machine.connectivity = "OFFLINE" =>
       machine.lastHeartbeatAt + Threshold + Confirmation <= machine.offlineSince

\* What is under way is no older than the bound.  A machine was silent when it
\* was listed, or has been heard of since.
UnderWayInv ==
  /\ \A h \in wire :
       /\ h.sentAt <= now /\ now <= h.sentAt + MaxDelay
       /\ h.receivedAt # Never => h.sentAt <= h.receivedAt /\ h.receivedAt <= now
  /\ \A e \in Evaluators :
       cycle[e] # Never =>
         /\ cycle[e] <= now /\ now <= cycle[e] + MaxDelay
         /\ machine.connectivity # "NONE"
         /\ \/ machine.lastHeartbeatAt + Threshold <= cycle[e]
            \/ cycle[e] <= machine.lastHeartbeatAt + MaxDelay

\* While every heartbeat is sent and dealt with in its unit and the Pi's clock
\* is sound, the row is behind by no more than the tolerance and a unit.
SeqBound(t) == (t + Tolerance) * Millis + 1

ReachingInv ==
  /\ sound => skew \in 0 .. Tolerance
  /\ relay.sentAt = Never => relay.lastSequence = 0
  /\ reaching /\ sound =>
       /\ relay.sentAt \in {now - 1, now}
       /\ relay.sentAt # Never => relay.lastSequence <= SeqBound(relay.sentAt)
       /\ \A h \in wire :
            /\ relay.sentAt = now /\ h.sentAt = now
            /\ h.receivedAt \in {Never, now}
            /\ now <= h.observedAt /\ h.observedAt <= now + Tolerance
            /\ now * Millis <= h.sequence /\ h.sequence <= SeqBound(now)
       /\ machine.connectivity # "NONE" =>
            /\ machine.lastObservedAt <= machine.lastHeartbeatAt + Tolerance
            /\ machine.lastSequence <= SeqBound(machine.lastHeartbeatAt)
            /\ now - 1 <= machine.lastHeartbeatAt + Tolerance
            /\ relay.sentAt = now /\ wire = {} =>
                 now <= machine.lastHeartbeatAt + Tolerance

\* What is under way is done before it could mislead an evaluator.
DelaysAreShort == MaxDelay <= MaxGap /\ MaxDelay + MaxDelay <= Threshold

\* The candidate lies in the stretch of time that is being watched, and so will
\* the one that an evaluation under way may yet make.
WatchInv ==
  DelaysAreShort =>
    /\ watch.since <= watch.until /\ watch.until <= now
    /\ machine.offlineCandidateSince # Never =>
         /\ watch.since <= machine.offlineCandidateSince
         /\ watch.until # Never
         /\ machine.lastEvaluatedAt <= watch.until
         /\ watch.until <= machine.lastEvaluatedAt + MaxDelay
    /\ machine.connectivity = "ONLINE" /\ machine.offlineCandidateSince = Never =>
         \A e \in Evaluators :
           /\ cycle[e] # Never
           /\ machine.lastHeartbeatAt + Threshold <= cycle[e]
           => watch.since <= cycle[e]
    /\ machine.connectivity = "OFFLINE" =>
         watch.since + Confirmation <= machine.offlineSince

IInv ==
  /\ TypeOK /\ RowInv /\ UnderWayInv /\ ReachingInv /\ WatchInv
  /\ OneAlertPerOutage /\ NoFalseAlarm
=============================================================================
