----------------------- MODULE HardwareMonitor_proofs -----------------------
(***************************************************************************)
(* Proofs about the hardware monitor, for any number of evaluators and any *)
(* limits of time and skews of the Pi's clock: an outage makes one alert,  *)
(* a machine is OFFLINE only after a watched silence, and one that keeps   *)
(* reaching the backend with a sound clock never is.                       *)
(***************************************************************************)
EXTENDS MonitorInv, TLAPS

LEMMA Limits ==
  /\ Threshold \in Nat /\ Confirmation \in Nat /\ MaxGap \in Nat
  /\ Tolerance \in Nat /\ Horizon \in Nat /\ MaxDelay \in Nat
  /\ Skews \subseteq Int
  /\ Tolerance + 1 < Threshold + Confirmation
  /\ 0 \in Moment /\ Moment \subseteq Nat
  /\ Never = -1 /\ Never \notin Moment
  /\ MomentOrNever \subseteq Int
BY TimeAssumption DEF Moment, MomentOrNever, Never

\* All times and sequences are integers.
LEMMA Numbers ==
  ASSUME TypeOK
  PROVE  /\ now \in Nat /\ skew \in Int
         /\ relay.lastSequence \in Nat /\ relay.sentAt \in Int
         /\ \A h \in wire :
              /\ h.sequence \in Nat /\ h.observedAt \in Int
              /\ h.sentAt \in Nat /\ h.receivedAt \in Int
         /\ machine.lastHeartbeatAt \in Int /\ machine.lastObservedAt \in Int
         /\ machine.lastSequence \in Nat
         /\ machine.offlineCandidateSince \in Int
         /\ machine.lastEvaluatedAt \in Int /\ machine.offlineSince \in Int
         /\ \A e \in Evaluators : cycle[e] \in Int
         /\ watch.since \in Int /\ watch.until \in Int
<1> USE Limits DEF TypeOK
<1>1. now \in Nat /\ skew \in Int
  OBVIOUS
<1>2. relay.lastSequence \in Nat /\ relay.sentAt \in Int
  OBVIOUS
<1>3. \A h \in wire : /\ h.sequence \in Nat /\ h.observedAt \in Int
                      /\ h.sentAt \in Nat /\ h.receivedAt \in Int
  BY DEF Heartbeat
<1>4. /\ machine.lastHeartbeatAt \in Int /\ machine.lastObservedAt \in Int
      /\ machine.lastSequence \in Nat
      /\ machine.offlineCandidateSince \in Int
      /\ machine.lastEvaluatedAt \in Int /\ machine.offlineSince \in Int
  BY DEF Machine
<1>5. \A e \in Evaluators : cycle[e] \in Int
  OBVIOUS
<1>6. watch.since \in Int /\ watch.until \in Int
  OBVIOUS
<1> QED
  BY <1>1, <1>2, <1>3, <1>4, <1>5, <1>6

LEMMA InitInv == Init => IInv
<1> SUFFICES ASSUME Init PROVE IInv
  OBVIOUS
<1> USE Limits DEF Init, Unenrolled, Never
<1>1. TypeOK
  <2>1. Never \in MomentOrNever /\ Unenrolled \in Machine
    BY DEF MomentOrNever, Machine
  <2> QED
    BY <2>1 DEF TypeOK
<1>2. RowInv /\ UnderWayInv
  <2>1. machine.connectivity = "NONE" /\ machine.offlineCandidateSince = Never
    OBVIOUS
  <2>2. wire = {} /\ \A e \in Evaluators : cycle[e] = Never
    OBVIOUS
  <2>3. RowInv
    BY ONLY <2>1 DEF RowInv
  <2>4. UnderWayInv
    BY ONLY <2>2 DEF UnderWayInv
  <2> QED
    BY ONLY <2>3, <2>4
<1>3. ReachingInv
  <2>1. /\ now = 0 /\ relay.sentAt = -1 /\ relay.lastSequence = 0 /\ wire = {}
        /\ machine.connectivity = "NONE"
    OBVIOUS
  <2>2. sound => skew \in 0 .. Tolerance
    OBVIOUS
  <2> QED
    BY ONLY <2>1, <2>2 DEF ReachingInv, Never
<1>4. WatchInv /\ OneAlertPerOutage /\ NoFalseAlarm
  BY DEF WatchInv, OneAlertPerOutage, NoFalseAlarm
<1> QED
  BY <1>1, <1>2, <1>3, <1>4 DEF IInv

-----------------------------------------------------------------------------
(* The relay *)

\* A sequence number is no smaller than the Pi's clock says, and larger than
\* the last one.
LEMMA NextSequenceBound ==
  ASSUME TypeOK, NEW last \in Nat
  PROVE  /\ NextSequence(last) \in Nat
         /\ PiClock * Millis <= NextSequence(last)
         /\ \A bound \in Int :
              PiClock * Millis <= bound /\ last + 1 <= bound => NextSequence(last) <= bound
<1>1. PiClock * Millis \in Int
  BY Numbers DEF PiClock, Millis
<1> QED
  BY <1>1 DEF NextSequence, Larger

LEMMA SendHeartbeatKeeps ==
  ASSUME IInv, SendHeartbeat
  PROVE  IInv'
<1>1. PICK last \in {relay.lastSequence, 0} :
        /\ relay.sentAt < now
        /\ relay' = [lastSequence |-> NextSequence(last), sentAt |-> now]
        /\ \/ /\ wire' = wire \union {[sequence   |-> NextSequence(last),
                                       observedAt |-> PiClock,
                                       sentAt     |-> now,
                                       receivedAt |-> Never]}
              /\ UNCHANGED reaching
           \/ /\ reaching' = FALSE
              /\ UNCHANGED wire
  BY DEF SendHeartbeat
<1>2. UNCHANGED <<now, skew, machine, cycle, alerts, sound, watch>>
  BY DEF SendHeartbeat
<1> DEFINE seq == NextSequence(last)
           new == [sequence |-> seq, observedAt |-> PiClock, sentAt |-> now,
                   receivedAt |-> Never]
<1>3. TypeOK /\ last \in Nat
  BY Numbers DEF IInv
<1>4. seq \in Nat /\ PiClock * Millis <= seq
      /\ \A bound \in Int :
           PiClock * Millis <= bound /\ last + 1 <= bound => seq <= bound
  BY <1>3, NextSequenceBound
<1>5. PiClock \in Int
  BY <1>3, Numbers DEF PiClock
<1> HIDE DEF seq
<1>6. /\ new \in Heartbeat /\ new.sequence = seq /\ new.observedAt = PiClock
      /\ new.sentAt = now /\ new.receivedAt = Never
  BY <1>3, <1>4, <1>5, Limits DEF TypeOK, Heartbeat, MomentOrNever
<1>7. relay' = [lastSequence |-> seq, sentAt |-> now]
  BY <1>1 DEF seq
<1>8. \/ wire' = wire \union {new} /\ UNCHANGED reaching
      \/ reaching' = FALSE /\ UNCHANGED wire
  BY <1>1 DEF seq
<1> HIDE DEF new
<1> USE <1>2, <1>3 DEF IInv
<1>9. TypeOK'
  <2>1. relay' \in [lastSequence : Nat, sentAt : MomentOrNever]
    BY <1>4, <1>7 DEF TypeOK, MomentOrNever
  <2>2. wire' \subseteq Heartbeat /\ reaching' \in BOOLEAN
    BY <1>6, <1>8 DEF TypeOK
  <2> QED
    BY <2>1, <2>2 DEF TypeOK
<1>10. RowInv' /\ OneAlertPerOutage' /\ NoFalseAlarm'
  BY <1>8 DEF RowInv, OneAlertPerOutage, NoFalseAlarm
<1>11. WatchInv'
  BY DEF WatchInv
<1>12. UnderWayInv'
  BY <1>6, <1>8, Numbers, Limits DEF UnderWayInv
<1>13. ReachingInv'
  <2>1. relay'.sentAt = now /\ relay'.lastSequence = seq
    BY <1>7
  <2>2. now # Never
    BY Numbers, Limits
  <2>3. (sound => skew \in 0 .. Tolerance)'
    BY DEF ReachingInv
  <2>4. ASSUME (reaching /\ sound)'
        PROVE  /\ wire' = wire \union {new} /\ wire = {} /\ reaching /\ sound
               /\ now <= PiClock /\ PiClock <= now + Tolerance
               /\ now * Millis <= seq /\ seq <= SeqBound(now)
    <3>1. wire' = wire \union {new} /\ reaching /\ sound
      BY <1>8, <2>4
    <3>2. relay.sentAt = now - 1
      BY <1>1, <3>1, Numbers DEF ReachingInv
    <3>3. wire = {}
      BY <3>1, <3>2, Numbers DEF ReachingInv
    <3>4. now <= PiClock /\ PiClock <= now + Tolerance
      BY <3>1, Numbers, Limits DEF PiClock, ReachingInv
    <3>5. now * Millis <= seq
      BY <1>4, <1>5, <3>4, Numbers DEF Millis
    <3>6. last + 1 <= SeqBound(now)
      <4>1. relay.lastSequence = 0 \/ relay.lastSequence <= SeqBound(now - 1)
        BY <3>1, <3>2 DEF ReachingInv
      <4> QED
        BY <4>1, Numbers, Limits DEF SeqBound, Millis
    <3>7. PiClock * Millis <= SeqBound(now) /\ SeqBound(now) \in Int
      BY <3>4, <1>5, Numbers, Limits DEF SeqBound, Millis
    <3> QED
      BY <1>4, <3>1, <3>3, <3>4, <3>5, <3>6, <3>7
  <2>5. new \in wire' => wire' # {}
    OBVIOUS
  <2> QED
    BY <1>6, <2>1, <2>2, <2>3, <2>4, <2>5, Numbers, Limits DEF ReachingInv, SeqBound
<1> QED
  BY <1>9, <1>10, <1>11, <1>12, <1>13

LEMMA StepClockKeeps ==
  ASSUME IInv, StepClock
  PROVE  IInv'
<1> USE DEF IInv, StepClock
<1>1. TypeOK'
  BY DEF TypeOK
<1>2. RowInv' /\ UnderWayInv' /\ WatchInv' /\ OneAlertPerOutage'
  BY DEF RowInv, UnderWayInv, WatchInv, OneAlertPerOutage
<1>3. ReachingInv'
  <2>1. UNCHANGED <<now, relay, wire, machine, reaching>>
    OBVIOUS
  <2>2. sound' => sound /\ skew' \in 0 .. Tolerance
    OBVIOUS
  <2>3. ReachingInv
    OBVIOUS
  <2> QED
    BY ONLY <2>1, <2>2, <2>3 DEF ReachingInv, SeqBound
<1>4. NoFalseAlarm'
  BY DEF NoFalseAlarm
<1> QED
  BY <1>1, <1>2, <1>3, <1>4

-----------------------------------------------------------------------------
(* Heartbeat intake *)

LEMMA ParseKeeps ==
  ASSUME IInv, Parse
  PROVE  IInv'
<1>1. PICK h \in wire :
        /\ h.receivedAt = Never
        /\ wire' = IF TooFarInFuture(h)
                   THEN wire \ {h}
                   ELSE (wire \ {h}) \union {[h EXCEPT !.receivedAt = now]}
  BY DEF Parse
<1>2. UNCHANGED <<now, skew, relay, machine, cycle, alerts, reaching, sound, watch>>
  BY DEF Parse
<1> DEFINE p == [h EXCEPT !.receivedAt = now]
<1>3. TypeOK /\ h \in Heartbeat
  BY DEF IInv, TypeOK
<1>4. /\ p \in Heartbeat /\ p.sequence = h.sequence /\ p.observedAt = h.observedAt
      /\ p.sentAt = h.sentAt /\ p.receivedAt = now
  BY <1>3 DEF Heartbeat, TypeOK, MomentOrNever
<1>5. wire' = wire \ {h} \/ wire' = (wire \ {h}) \union {p}
  BY <1>1
<1>6. h.observedAt > now + Tolerance \/ wire' = (wire \ {h}) \union {p}
  BY <1>1 DEF TooFarInFuture
<1> HIDE DEF p
<1> USE <1>2, <1>3 DEF IInv
<1>7. TypeOK'
  BY <1>4, <1>5 DEF TypeOK
<1>8. RowInv' /\ OneAlertPerOutage' /\ NoFalseAlarm' /\ WatchInv'
  BY DEF RowInv, OneAlertPerOutage, NoFalseAlarm, WatchInv
<1>9. UnderWayInv'
  BY <1>4, <1>5, Numbers, Limits DEF UnderWayInv
<1>10. ReachingInv'
  <2>1. ASSUME reaching, sound PROVE wire' = (wire \ {h}) \union {p}
    <3>1. h.observedAt <= now + Tolerance
      BY <2>1 DEF ReachingInv
    <3>2. ~ (h.observedAt > now + Tolerance)
      BY <3>1, Numbers, Limits
    <3> QED
      BY <1>6, <3>2
  <2>2. wire' = (wire \ {h}) \union {p} => wire' # {}
    OBVIOUS
  <2> QED
    BY <1>1, <1>4, <2>1, <2>2 DEF ReachingInv, SeqBound
<1> QED
  BY <1>7, <1>8, <1>9, <1>10

\* A recorded heartbeat makes the machine ONLINE, or the row stays.
LEMMA IngestKeeps ==
  ASSUME IInv, Ingest
  PROVE  IInv'
<1>1. PICK h \in wire :
        /\ h.receivedAt # Never
        /\ wire' = wire \ {h}
        /\ \/ /\ machine.connectivity = "NONE"
              /\ machine' = Created(h)
              /\ UNCHANGED alerts
           \/ /\ machine.connectivity # "NONE"
              /\ IsHeartbeatStale(h)
              /\ UNCHANGED <<machine, alerts>>
           \/ /\ machine.connectivity # "NONE"
              /\ ~ IsHeartbeatStale(h)
              /\ machine' = Refreshed(h)
              /\ alerts' = IF Recovered
                           THEN [alerts EXCEPT !["RECOVERED"] = @ + 1]
                           ELSE alerts
  BY DEF Ingest
<1>2. UNCHANGED <<now, skew, relay, cycle, reaching, sound, watch>>
  BY DEF Ingest
<1>3. TypeOK /\ h \in Heartbeat
  BY <1>1 DEF IInv, TypeOK
<1> USE <1>2, <1>3 DEF IInv
<1>4. /\ h.receivedAt \in 0 .. now /\ h.sentAt <= h.receivedAt
      /\ now <= h.receivedAt + MaxDelay
  <2>1. /\ h.sentAt <= h.receivedAt /\ h.receivedAt <= now
        /\ now <= h.sentAt + MaxDelay
    BY <1>1 DEF UnderWayInv
  <2> QED
    BY <1>1, <2>1, Numbers, Limits
\* Within its unit, a heartbeat of a sound clock brings the row up to date.
<1>5. ASSUME reaching, sound
      PROVE  /\ h.receivedAt = now
             /\ now <= h.observedAt /\ h.observedAt <= now + Tolerance
             /\ now * Millis <= h.sequence /\ h.sequence <= SeqBound(now)
  BY <1>1, <1>5 DEF ReachingInv
<1>6. CASE machine' = Created(h)
  <2>1. /\ machine'.connectivity = "ONLINE"
        /\ machine'.lastHeartbeatAt = h.receivedAt
        /\ machine'.lastObservedAt = h.observedAt
        /\ machine'.lastSequence = h.sequence
        /\ machine'.offlineCandidateSince = Never
    BY <1>6 DEF Created
  <2>2. TypeOK'
    <3>1. machine' \in Machine
      <4>1. h.receivedAt \in MomentOrNever /\ Never \in MomentOrNever
            /\ h.observedAt \in Int /\ h.sequence \in Nat
        BY DEF Heartbeat, MomentOrNever
      <4> QED
        BY <1>6, <4>1 DEF Created, Machine, Moment, MomentOrNever
    <3>2. alerts' \in [{"OFFLINE", "RECOVERED"} -> Nat]
      BY <1>1 DEF TypeOK
    <3> QED
      BY <1>1, <3>1, <3>2 DEF TypeOK
  <2>3. RowInv'
    BY <1>4, <2>1 DEF RowInv
  <2>4. UnderWayInv'
    <3>1. ASSUME NEW e \in Evaluators, cycle[e] # Never
          PROVE  cycle[e] <= machine'.lastHeartbeatAt + MaxDelay
      <4>1. cycle[e] <= now
        BY <3>1 DEF UnderWayInv
      <4> QED
        BY <1>4, <2>1, <4>1, Numbers, Limits
    <3> QED
      BY <1>1, <2>1, <3>1 DEF UnderWayInv
  <2>5. ReachingInv'
    <3>1. ASSUME reaching, sound
          PROVE  /\ machine'.lastObservedAt <= machine'.lastHeartbeatAt + Tolerance
                 /\ machine'.lastSequence <= SeqBound(machine'.lastHeartbeatAt)
                 /\ now <= machine'.lastHeartbeatAt + Tolerance
                 /\ now - 1 <= machine'.lastHeartbeatAt + Tolerance
      BY <1>5, <2>1, <3>1, Numbers, Limits
    <3> QED
      BY <1>1, <3>1 DEF ReachingInv, SeqBound
  <2>6. WatchInv'
    <3>1. ASSUME DelaysAreShort, NEW e \in Evaluators,
                 machine'.lastHeartbeatAt + Threshold <= cycle[e]
          PROVE  watch.since <= cycle[e]
      <4>1. watch.since <= watch.until /\ watch.until <= now
        BY <3>1 DEF WatchInv
      <4> QED
        BY <1>4, <2>1, <3>1, <4>1, Numbers, Limits DEF DelaysAreShort
    <3> QED
      BY <2>1, <3>1 DEF WatchInv
  <2>7. OneAlertPerOutage'
    BY <1>1, <2>1, Limits DEF OneAlertPerOutage, TypeOK, Recovered
  <2>8. NoFalseAlarm'
    BY <2>1 DEF NoFalseAlarm
  <2> QED
    BY <2>2, <2>3, <2>4, <2>5, <2>6, <2>7, <2>8
<1>7. CASE machine.connectivity # "NONE" /\ IsHeartbeatStale(h)
           /\ UNCHANGED <<machine, alerts>>
  <2>1. TypeOK' /\ RowInv' /\ UnderWayInv'
    BY <1>1, <1>7 DEF TypeOK, RowInv, UnderWayInv
  <2>2. WatchInv' /\ OneAlertPerOutage' /\ NoFalseAlarm'
    BY <1>7 DEF WatchInv, OneAlertPerOutage, NoFalseAlarm
  <2>3. ReachingInv'
    <3>1. ASSUME reaching, sound PROVE now <= machine.lastHeartbeatAt + Tolerance
      <4>1. /\ machine.lastObservedAt <= machine.lastHeartbeatAt + Tolerance
            /\ machine.lastSequence <= SeqBound(machine.lastHeartbeatAt)
        BY <1>7, <3>1 DEF ReachingInv
      <4>2. CASE h.observedAt <= machine.lastObservedAt
        BY <1>5, <3>1, <4>1, <4>2, Numbers, Limits
      <4>3. CASE h.sequence <= machine.lastSequence
        BY <1>5, <3>1, <4>1, <4>3, Numbers, Limits DEF SeqBound, Millis
      <4> QED
        BY <1>7, <4>2, <4>3 DEF IsHeartbeatStale
    <3> QED
      BY <1>1, <1>7, <3>1 DEF ReachingInv, SeqBound
  <2> QED
    BY <2>1, <2>2, <2>3
<1> QED
  BY <1>1, <1>6, <1>7 DEF Refreshed

-----------------------------------------------------------------------------
(* Health cycles *)

LEMMA StartCycleKeeps ==
  ASSUME IInv, NEW e \in Evaluators, StartCycle(e)
  PROVE  IInv'
<1>1. /\ machine.connectivity = "ONLINE"
      /\ machine.lastHeartbeatAt <= now - Threshold
      /\ cycle' = [cycle EXCEPT ![e] = now]
      /\ UNCHANGED <<now, skew, relay, wire, machine, alerts, reaching, sound, watch>>
  BY DEF StartCycle
<1>2. TypeOK
  BY DEF IInv
<1>3. cycle'[e] = now /\ \A f \in Evaluators : f # e => cycle'[f] = cycle[f]
  BY <1>1, <1>2 DEF TypeOK
<1>4. machine.lastHeartbeatAt + Threshold <= now /\ now <= now + MaxDelay /\ now <= now
  BY <1>1, <1>2, Numbers, Limits
<1> USE <1>1, <1>2, <1>3 DEF IInv
<1>5. TypeOK'
  BY DEF TypeOK, MomentOrNever
<1>6. RowInv' /\ ReachingInv' /\ OneAlertPerOutage' /\ NoFalseAlarm'
  BY DEF RowInv, ReachingInv, SeqBound, OneAlertPerOutage, NoFalseAlarm
<1>7. UnderWayInv'
  BY <1>4 DEF UnderWayInv
<1>8. WatchInv'
  <2>1. DelaysAreShort => watch.since <= now
    BY Numbers DEF WatchInv
  <2> QED
    BY <2>1 DEF WatchInv
<1> QED
  BY <1>5, <1>6, <1>7, <1>8

\* A cycle that ends without effect.
LEMMA EndCycleKeeps ==
  ASSUME IInv, NEW e \in Evaluators, cycle' = [cycle EXCEPT ![e] = Never],
         UNCHANGED <<now, skew, relay, wire, machine, alerts, reaching, sound, watch>>
  PROVE  IInv'
<1>1. TypeOK
  BY DEF IInv
<1>2. cycle'[e] = Never /\ \A f \in Evaluators : f # e => cycle'[f] = cycle[f]
  BY <1>1 DEF TypeOK
<1> USE <1>1, <1>2 DEF IInv
<1>3. TypeOK'
  BY DEF TypeOK, MomentOrNever
<1>4. RowInv' /\ ReachingInv' /\ OneAlertPerOutage' /\ NoFalseAlarm'
  BY DEF RowInv, ReachingInv, SeqBound, OneAlertPerOutage, NoFalseAlarm
<1>5. UnderWayInv'
  BY DEF UnderWayInv
<1>6. WatchInv'
  BY DEF WatchInv
<1> QED
  BY <1>3, <1>4, <1>5, <1>6

\* What an evaluation for the time t adds to the stretch that was watched.
LEMMA WatchedBound ==
  ASSUME TypeOK, NEW t \in Moment
  PROVE  /\ Watched(t) \in [since : MomentOrNever, until : MomentOrNever]
         /\ Watched(t).until \in {t, watch.until}
         /\ t <= Watched(t).until /\ watch.until <= Watched(t).until
         /\ \/ Watched(t).since = t
            \/ /\ Watched(t).since = watch.since
               /\ watch.until # Never /\ t <= watch.until + MaxGap
         /\ watch.until # Never /\ t <= watch.until + MaxGap =>
              Watched(t).since = watch.since
<1>1. t \in Nat /\ t \in MomentOrNever /\ watch.until \in Int
  BY Numbers, Limits DEF MomentOrNever
<1>2. Larger(watch.until, t) \in {t, watch.until}
      /\ t <= Larger(watch.until, t) /\ watch.until <= Larger(watch.until, t)
  BY <1>1 DEF Larger
<1>3. watch.since \in MomentOrNever /\ watch.until \in MomentOrNever
  BY DEF TypeOK
<1>4. t > watch.until + MaxGap <=> ~ (t <= watch.until + MaxGap)
  BY <1>1, Limits
<1> QED
  BY <1>1, <1>2, <1>3, <1>4 DEF Watched

\* The decisions, spelt out.
LEMMA Decisions ==
  ASSUME TypeOK, NEW t \in Moment
  PROVE  /\ Decision(t) = "FRESH" => t < machine.lastHeartbeatAt + Threshold
         /\ Decision(t) # "FRESH" => machine.lastHeartbeatAt + Threshold <= t
         /\ Decision(t) = "START_CONFIRMATION" =>
              machine.offlineCandidateSince = Never \/ machine.lastEvaluatedAt + MaxGap < t
              \/ machine.lastEvaluatedAt = Never
         /\ Decision(t) \in {"WAIT", "OFFLINE"} =>
              /\ machine.offlineCandidateSince # Never
              /\ t <= machine.lastEvaluatedAt + MaxGap
         /\ Decision(t) = "OFFLINE" => machine.offlineCandidateSince + Confirmation <= t
<1>1. /\ t \in Nat /\ machine.lastHeartbeatAt \in Int /\ Threshold \in Nat
      /\ machine.lastEvaluatedAt \in Int /\ MaxGap \in Nat
      /\ machine.offlineCandidateSince \in Int /\ Confirmation \in Nat
  BY Numbers, Limits
<1>2. machine.lastHeartbeatAt > t - Threshold <=> t < machine.lastHeartbeatAt + Threshold
  BY <1>1
<1>3. machine.lastHeartbeatAt <= t - Threshold
      <=> ~ (machine.lastHeartbeatAt > t - Threshold)
  BY <1>1
<1>4. machine.lastHeartbeatAt <= t - Threshold
      <=> machine.lastHeartbeatAt + Threshold <= t
  BY <1>1
<1>5. machine.lastEvaluatedAt < t - MaxGap <=> machine.lastEvaluatedAt + MaxGap < t
  BY <1>1
<1>6. ~ (machine.lastEvaluatedAt < t - MaxGap) => t <= machine.lastEvaluatedAt + MaxGap
  BY <1>1
<1>7. machine.offlineCandidateSince <= t - Confirmation
      <=> machine.offlineCandidateSince + Confirmation <= t
  BY <1>1
<1>8. CASE machine.lastHeartbeatAt > t - Threshold
  <2>1. Decision(t) = "FRESH"
    BY <1>3, <1>8 DEF Decision
  <2> QED
    BY <1>2, <1>8, <2>1
<1>9. CASE /\ ~ (machine.lastHeartbeatAt > t - Threshold)
           /\ machine.offlineCandidateSince = Never \/ ContinuityLost(t)
  <2>1. Decision(t) = "START_CONFIRMATION"
    BY <1>3, <1>9 DEF Decision
  <2> QED
    BY <1>3, <1>4, <1>5, <1>9, <2>1 DEF ContinuityLost
<1>10. CASE /\ ~ (machine.lastHeartbeatAt > t - Threshold)
            /\ ~ (machine.offlineCandidateSince = Never \/ ContinuityLost(t))
  <2>1. Decision(t) = IF machine.offlineCandidateSince <= t - Confirmation
                      THEN "OFFLINE" ELSE "WAIT"
    BY <1>3, <1>10 DEF Decision
  <2> QED
    BY <1>3, <1>4, <1>6, <1>7, <1>10, <2>1 DEF ContinuityLost
<1> QED
  BY <1>8, <1>9, <1>10

\* An evaluation that leaves the heartbeats and the alerts as they are, and
\* the machine ONLINE.
LEMMA QuietKeeps ==
  ASSUME IInv, NEW e \in Evaluators, cycle[e] # Never,
         machine.connectivity = "ONLINE",
         NEW candidate \in MomentOrNever,
         machine' = [machine EXCEPT !.offlineCandidateSince = candidate,
                                    !.lastEvaluatedAt = cycle[e]],
         candidate # Never => machine.lastHeartbeatAt + Threshold <= candidate,
         cycle' = [cycle EXCEPT ![e] = Never],
         watch' = Watched(cycle[e]),
         UNCHANGED <<now, skew, relay, wire, alerts, reaching, sound>>,
         DelaysAreShort =>
           IF candidate # Never
           THEN watch'.since <= candidate
           ELSE \A f \in Evaluators :
                  machine.lastHeartbeatAt + Threshold <= cycle[f] => watch'.since <= cycle[f]
  PROVE  IInv'
<1>1. TypeOK
  BY DEF IInv
<1>2. cycle'[e] = Never /\ \A f \in Evaluators : f # e => cycle'[f] = cycle[f]
  BY <1>1 DEF TypeOK
<1>3. /\ machine'.connectivity = "ONLINE"
      /\ machine'.lastHeartbeatAt = machine.lastHeartbeatAt
      /\ machine'.lastObservedAt = machine.lastObservedAt
      /\ machine'.lastSequence = machine.lastSequence
      /\ machine'.offlineCandidateSince = candidate
      /\ machine'.lastEvaluatedAt = cycle[e]
  BY <1>1 DEF TypeOK, Machine
<1>4. cycle[e] \in Moment /\ cycle[e] <= now /\ now <= cycle[e] + MaxDelay
  BY <1>1 DEF IInv, TypeOK, MomentOrNever, UnderWayInv
<1> USE <1>1, <1>2, <1>3 DEF IInv
<1>5. TypeOK'
  <2>1. machine' \in Machine
    BY <1>4 DEF TypeOK, Machine, MomentOrNever
  <2>2. cycle' \in [Evaluators -> MomentOrNever]
    BY DEF TypeOK, MomentOrNever
  <2> QED
    BY <1>4, <2>1, <2>2, WatchedBound DEF TypeOK
<1>6. RowInv'
  BY DEF RowInv
<1>7. UnderWayInv'
  BY DEF UnderWayInv
<1>8. ReachingInv' /\ OneAlertPerOutage' /\ NoFalseAlarm'
  BY DEF ReachingInv, SeqBound, OneAlertPerOutage, NoFalseAlarm
<1>9. WatchInv'
  <2> SUFFICES ASSUME DelaysAreShort PROVE WatchInv'
    BY DEF WatchInv
  <2>1. watch.since <= watch.until /\ watch.until <= now
    BY DEF WatchInv
  <2>2. /\ watch'.until \in {cycle[e], watch.until}
        /\ cycle[e] <= watch'.until /\ watch.until <= watch'.until
        /\ watch'.since \in {cycle[e], watch.since}
    BY <1>4, WatchedBound
  <2>3. watch'.since <= watch'.until /\ watch'.until <= now
    BY <1>4, <2>1, <2>2, Numbers
  <2>4. /\ watch'.until # Never /\ machine'.lastEvaluatedAt <= watch'.until
        /\ watch'.until <= machine'.lastEvaluatedAt + MaxDelay
    BY <1>4, <2>2, <2>3, Numbers, Limits
  <2> QED
    BY <2>3, <2>4 DEF WatchInv
<1> QED
  BY <1>5, <1>6, <1>7, <1>8, <1>9

LEMMA EvaluateKeeps ==
  ASSUME IInv, NEW e \in Evaluators, Evaluate(e)
  PROVE  IInv'
<1> DEFINE t == cycle[e]
<1>1. /\ TypeOK /\ t # Never /\ t \in Moment
      /\ cycle' = [cycle EXCEPT ![e] = Never]
      /\ UNCHANGED <<now, skew, relay, wire, reaching, sound>>
  BY DEF Evaluate, IInv, TypeOK, MomentOrNever
<1>2. t <= now /\ now <= t + MaxDelay
  BY <1>1 DEF IInv, UnderWayInv
<1>3. CASE UNCHANGED <<machine, alerts, watch>>
  BY <1>1, <1>3, EndCycleKeeps
<1>4. ASSUME DelaysAreShort
      PROVE  watch.since <= watch.until /\ watch.until <= now
  BY <1>4 DEF IInv, WatchInv
\* Another evaluation under way finds the machine silent only if it is later.
<1>5. CASE /\ machine.connectivity = "ONLINE" /\ Decision(t) = "FRESH"
           /\ machine' = [machine EXCEPT !.offlineCandidateSince = Never,
                                         !.lastEvaluatedAt = t]
           /\ watch' = Watched(t) /\ UNCHANGED alerts
  <2>1. t < machine.lastHeartbeatAt + Threshold
    BY <1>1, <1>5, Decisions
  <2>2. t <= machine.lastHeartbeatAt + MaxDelay
    BY <1>1, <2>1, Numbers, Limits DEF IInv, UnderWayInv
  <2>3. ASSUME DelaysAreShort, NEW f \in Evaluators,
               machine.lastHeartbeatAt + Threshold <= cycle[f]
        PROVE  watch'.since <= cycle[f]
    <3>1. CASE watch'.since = t
      BY <1>1, <2>1, <2>3, <3>1, Numbers, Limits
    <3>2. CASE watch'.since = watch.since
      BY <1>1, <1>2, <1>4, <2>2, <2>3, <3>2, Numbers, Limits DEF DelaysAreShort
    <3> QED
      BY <1>1, <1>5, <3>1, <3>2, WatchedBound
  <2>4. Never \in MomentOrNever
    BY DEF MomentOrNever
  <2> QED
    BY <1>1, <1>5, <2>3, <2>4, QuietKeeps
<1>6. CASE /\ machine.connectivity = "ONLINE" /\ Decision(t) = "START_CONFIRMATION"
           /\ machine' = [machine EXCEPT !.offlineCandidateSince = t,
                                         !.lastEvaluatedAt = t]
           /\ watch' = Watched(t) /\ UNCHANGED alerts
  <2>1. machine.lastHeartbeatAt + Threshold <= t
    BY <1>1, <1>6, Decisions
  <2>2. ASSUME DelaysAreShort, watch'.since = watch.since,
               watch.until # Never, t <= watch.until + MaxGap
        PROVE  watch.since <= t
    <3>1. CASE machine.offlineCandidateSince = Never
      BY <1>1, <1>6, <2>1, <2>2, <3>1 DEF IInv, WatchInv
    <3>2. CASE machine.offlineCandidateSince # Never
      <4>1. watch.until <= machine.lastEvaluatedAt + MaxDelay
        BY <2>2, <3>2 DEF IInv, WatchInv
      <4>2. CASE machine.lastEvaluatedAt + MaxGap < t
        BY <1>1, <1>4, <2>2, <4>1, <4>2, Numbers, Limits DEF DelaysAreShort
      <4>3. CASE machine.lastEvaluatedAt = Never
        BY <3>2, <4>3 DEF IInv, RowInv
      <4> QED
        BY <1>1, <1>6, <3>2, <4>2, <4>3, Decisions
    <3> QED
      BY <3>1, <3>2
  <2>3. t \in MomentOrNever /\ t \in Int
    BY <1>1, Limits DEF MomentOrNever
  <2>4. DelaysAreShort => watch'.since <= t
    <3>1. t <= t
      BY <2>3
    <3> QED
      BY <1>1, <1>6, <2>2, <3>1, WatchedBound
  <2> QED
    BY <1>1, <1>6, <2>1, <2>3, <2>4, QuietKeeps
\* Whoever confirms has been watching ever since.
<1>7. ASSUME Decision(t) \in {"WAIT", "OFFLINE"}, watch' = Watched(t)
      PROVE  /\ machine.offlineCandidateSince # Never
             /\ machine.lastHeartbeatAt + Threshold <= machine.offlineCandidateSince
             /\ DelaysAreShort =>
                  /\ watch'.since = watch.since
                  /\ watch.since <= machine.offlineCandidateSince
  <2>1. machine.offlineCandidateSince # Never /\ t <= machine.lastEvaluatedAt + MaxGap
    BY <1>1, <1>7, Decisions
  <2>2. ASSUME DelaysAreShort PROVE t <= watch.until + MaxGap /\ watch.until # Never
    <3>1. machine.lastEvaluatedAt <= watch.until /\ watch.until # Never
      BY <2>1, <2>2 DEF IInv, WatchInv
    <3> QED
      BY <1>1, <2>1, <3>1, Numbers, Limits
  <2> QED
    BY <1>1, <1>7, <2>1, <2>2, WatchedBound DEF IInv, WatchInv, RowInv
<1>8. CASE /\ machine.connectivity = "ONLINE" /\ Decision(t) = "WAIT"
           /\ machine' = [machine EXCEPT
                !.offlineCandidateSince = machine.offlineCandidateSince,
                !.lastEvaluatedAt = t]
           /\ watch' = Watched(t) /\ UNCHANGED alerts
  <2>1. machine.offlineCandidateSince \in MomentOrNever
    BY <1>1 DEF TypeOK, Machine
  <2> QED
    BY <1>1, <1>7, <1>8, <2>1, QuietKeeps
<1>9. CASE /\ machine.connectivity = "ONLINE" /\ Decision(t) = "OFFLINE"
           /\ machine' = [machine EXCEPT !.connectivity = "OFFLINE",
                                         !.offlineSince = t,
                                         !.offlineCandidateSince = Never,
                                         !.lastEvaluatedAt = t]
           /\ alerts' = [alerts EXCEPT !["OFFLINE"] = @ + 1]
           /\ watch' = Watched(t)
  <2> USE <1>1, <1>9 DEF IInv
  <2>1. cycle'[e] = Never /\ \A f \in Evaluators : f # e => cycle'[f] = cycle[f]
    BY DEF TypeOK
  <2>2. /\ machine'.connectivity = "OFFLINE"
        /\ machine'.lastHeartbeatAt = machine.lastHeartbeatAt
        /\ machine'.lastObservedAt = machine.lastObservedAt
        /\ machine'.lastSequence = machine.lastSequence
        /\ machine'.offlineCandidateSince = Never
        /\ machine'.offlineSince = t
    BY DEF TypeOK, Machine
  <2>3. /\ machine.lastHeartbeatAt + Threshold <= machine.offlineCandidateSince
        /\ machine.offlineCandidateSince + Confirmation <= t
    BY <1>7, Decisions
  <2>4. machine.lastHeartbeatAt + Threshold + Confirmation <= t
    BY <2>3, Numbers, Limits
  <2>5. TypeOK'
    <3>1. machine' \in Machine
      BY DEF TypeOK, Machine, MomentOrNever
    <3>2. alerts' \in [{"OFFLINE", "RECOVERED"} -> Nat]
      BY DEF TypeOK
    <3>3. cycle' \in [Evaluators -> MomentOrNever]
      BY DEF TypeOK, MomentOrNever
    <3> QED
      BY <3>1, <3>2, <3>3, WatchedBound DEF TypeOK
  <2>6. RowInv'
    BY <2>2, <2>4 DEF RowInv
  <2>7. UnderWayInv'
    BY <2>1, <2>2 DEF UnderWayInv
  <2>8. ReachingInv'
    BY <2>2 DEF ReachingInv, SeqBound
  <2>9. WatchInv'
    <3>1. ASSUME DelaysAreShort
          PROVE  /\ watch'.since <= watch'.until /\ watch'.until <= now
                 /\ watch'.since + Confirmation <= t
      <4>1. /\ watch'.since = watch.since
            /\ watch.since <= machine.offlineCandidateSince
        BY <1>7, <3>1
      <4>2. /\ watch'.until \in {t, watch.until}
            /\ watch.until <= watch'.until
        BY WatchedBound
      <4> QED
        BY <1>2, <1>4, <2>3, <3>1, <4>1, <4>2, Numbers, Limits
    <3> QED
      BY <2>2, <3>1 DEF WatchInv
  <2>10. OneAlertPerOutage'
    BY <2>2, Limits DEF OneAlertPerOutage, TypeOK
  <2>11. NoFalseAlarm'
    <3>1. ASSUME reaching, sound PROVE FALSE
      <4>1. now - 1 <= machine.lastHeartbeatAt + Tolerance
        BY <3>1 DEF ReachingInv
      <4> QED
        BY <1>2, <2>4, <4>1, Numbers, Limits
    <3> QED
      BY <3>1 DEF NoFalseAlarm
  <2> QED
    BY <2>5, <2>6, <2>7, <2>8, <2>9, <2>10, <2>11
<1> QED
  BY <1>3, <1>5, <1>6, <1>8, <1>9 DEF Evaluate

-----------------------------------------------------------------------------
(* Time, and all steps together *)

LEMMA TickKeeps ==
  ASSUME IInv, Tick
  PROVE  IInv'
<1>1. /\ now < Horizon /\ now' = now + 1
      /\ \A h \in wire : now < h.sentAt + MaxDelay
      /\ \A e \in Evaluators : cycle[e] # Never => now < cycle[e] + MaxDelay
      /\ reaching' = (reaching /\ relay.sentAt = now /\ wire = {})
      /\ UNCHANGED <<skew, relay, wire, machine, cycle, alerts, sound, watch>>
  BY DEF Tick
<1>2. TypeOK
  BY DEF IInv
<1>3. now \in Nat /\ now' \in Moment
  BY <1>1, <1>2, Numbers, Limits DEF Moment
<1>4. reaching' => reaching /\ relay.sentAt = now /\ wire = {}
  BY <1>1
<1> USE <1>1, <1>2, <1>3 DEF IInv
<1>5. TypeOK'
  BY DEF TypeOK
<1>6. RowInv'
  <2>1. machine.connectivity # "NONE" => machine.lastHeartbeatAt \in 0 .. now + 1
    BY DEF RowInv
  <2> QED
    BY <2>1 DEF RowInv
<1>7. UnderWayInv'
  BY Numbers, Limits DEF UnderWayInv
<1>8. ReachingInv'
  <2>1. (sound => skew \in 0 .. Tolerance)'
    BY DEF ReachingInv
  <2>2. ASSUME reaching', sound
        PROVE  /\ relay.sentAt = now' - 1 /\ relay.sentAt # now' /\ wire = {}
               /\ machine.connectivity # "NONE" =>
                    now' - 1 <= machine.lastHeartbeatAt + Tolerance
    BY <1>4, <2>2 DEF ReachingInv
  <2> QED
    BY <1>4, <2>1, <2>2 DEF ReachingInv, SeqBound
<1>9. WatchInv'
  BY Numbers DEF WatchInv
<1>10. OneAlertPerOutage' /\ NoFalseAlarm'
  BY <1>4 DEF OneAlertPerOutage, NoFalseAlarm
<1> QED
  BY <1>5, <1>6, <1>7, <1>8, <1>9, <1>10

LEMMA StutterKeeps ==
  ASSUME IInv, UNCHANGED vars
  PROVE  IInv'
<1> USE DEF IInv, vars
<1>1. TypeOK' /\ RowInv' /\ UnderWayInv'
  BY DEF TypeOK, RowInv, UnderWayInv
<1>2. ReachingInv' /\ WatchInv'
  BY DEF ReachingInv, SeqBound, WatchInv
<1>3. OneAlertPerOutage' /\ NoFalseAlarm'
  BY DEF OneAlertPerOutage, NoFalseAlarm
<1> QED
  BY <1>1, <1>2, <1>3

LEMMA StepKeeps == IInv /\ [Next]_vars => IInv'
<1> SUFFICES ASSUME IInv, [Next]_vars PROVE IInv'
  OBVIOUS
<1>1. ASSUME NEW e \in Evaluators, AbortCycle(e) PROVE IInv'
  BY <1>1, EndCycleKeeps DEF AbortCycle
<1>2. ASSUME NEW e \in Evaluators, StartCycle(e) \/ AbortCycle(e) \/ Evaluate(e)
      PROVE  IInv'
  BY <1>1, <1>2, StartCycleKeeps, EvaluateKeeps
<1>3. CASE SendHeartbeat \/ StepClock \/ Parse \/ Ingest
  BY <1>3, SendHeartbeatKeeps, StepClockKeeps, ParseKeeps, IngestKeeps
<1> QED
  BY <1>2, <1>3, TickKeeps, StutterKeeps DEF Next

\* The invariant holds in every state of every behaviour.
THEOREM Invariance == Spec => []IInv
<1> QED
  BY InitInv, StepKeeps, PTL DEF Spec

-----------------------------------------------------------------------------
(* The properties *)

\* The variables keep their types.
THEOREM TypeCorrect == Spec => []TypeOK
<1>1. IInv => TypeOK
  BY DEF IInv
<1> QED
  BY <1>1, Invariance, PTL

\* Every outage of the machine makes one OFFLINE alert, and its end at most one
\* RECOVERED alert, whoever evaluates and whatever arrives in between.
THEOREM AlertsMatchOutages == Spec => []OneAlertPerOutage
<1>1. IInv => OneAlertPerOutage
  BY DEF IInv
<1> QED
  BY <1>1, Invariance, PTL

\* A machine is announced OFFLINE only after the threshold and the confirmation
\* have passed without a heartbeat, and evaluators kept looking all through the
\* confirmation: provided nothing is under way for longer than the largest gap,
\* or than half the threshold.
THEOREM SilenceWasWatched ==
  ASSUME DelaysAreShort
  PROVE  Spec => []OfflineAfterWatchedSilence
<1>1. IInv => OfflineAfterWatchedSilence
  BY DEF IInv, RowInv, WatchInv, OfflineAfterWatchedSilence
<1> QED
  BY <1>1, Invariance, PTL

\* A machine whose heartbeats have all arrived, and whose clock was sound, is
\* not OFFLINE, although some of them may have been refused as old.
THEOREM NoAlarmWithoutCause == Spec => []NoFalseAlarm
<1>1. IInv => NoFalseAlarm
  BY DEF IInv
<1> QED
  BY <1>1, Invariance, PTL
=============================================================================
