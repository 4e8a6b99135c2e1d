------------------------ MODULE AlertDelivery_proofs ------------------------
(***************************************************************************)
(* Proofs about AlertDelivery, for any number of workers and alerts and    *)
(* any limits that DeliveryAssumption allows, the longest cycle being no   *)
(* part of it: types, the invariant IInv of module AlertInv, and the       *)
(* safety properties that follow from it.                                  *)
(***************************************************************************)
EXTENDS AlertInv, TLAPS

LEMMA Limits ==
  /\ MaxAttempts \in Nat /\ Stale \in Nat /\ Validity \in Nat /\ KeyLife \in Nat
  /\ MaxCycle \in Nat /\ Horizon \in Nat
  /\ 0 < Stale /\ 0 < Validity /\ Validity <= KeyLife
  BY DeliveryAssumption

LEMMA Times ==
  /\ Moment \subseteq Nat
  /\ 0 \in Moment
  BY Limits DEF Moment

LEMMA IdleIsWorker == Idle \in Worker
  BY Times DEF Idle, Worker, Replies

LEMMA OneWorker ==
  ASSUME TypeOK, NEW w \in Workers, NEW r \in Worker,
         worker' = [worker EXCEPT ![w] = r]
  PROVE  /\ worker' \in [Workers -> Worker]
         /\ worker'[w] = r
         /\ \A v \in Workers \ {w} : worker'[v] = worker[v]
  BY DEF TypeOK

\* Everything about one worker that the invariant says, given its record.
Fine(x) ==
  /\ x.at # "idle" => x.now <= now
  /\ x.at \in {"send", "mark"} \/ x.todo # {} => ~ KeyExpired(x.now)
  /\ \A c \in x.todo : /\ x.at # "idle"
                       /\ Due(c.row, x.now)
                       /\ c.row.claimedAt <= c.row.updatedAt
  /\ x.at \in {"send", "mark"} =>
       /\ x.sending \in Candidate
       /\ Holds(alert[x.sending.id], x) \/ TakenOver(alert[x.sending.id], x)
  /\ x.at = "mark" /\ x.reply = "accepted" => line[x.sending.id].broadcasts > 0

Rest == RowInv /\ OneAttemptEach /\ BroadcastOnceInTime

LEMMA FineInv ==
  /\ IInv <=> TypeOK /\ Rest /\ \A w \in Workers : Fine(worker[w])
  /\ IInv' <=> TypeOK' /\ Rest' /\ \A w \in Workers : Fine(worker[w])'
  BY DEF IInv, Rest, CycleInv, ListInv, HoldInv, ReplyInv, Sending, Fine

LEMMA IdleIsFine == Fine(Idle) /\ Fine(Idle)'
  BY DEF Fine, Idle

-----------------------------------------------------------------------------
(* Steps that touch no row and no broadcast *)

\* Nobody begins an attempt.
LEMMA KeepsAttempts ==
  ASSUME OneAttemptEach,
         \A w \in Workers : Sending(w)' => Sending(w) /\ worker'[w].sending = worker[w].sending
  PROVE  OneAttemptEach'
<1> SUFFICES ASSUME NEW u \in Workers, NEW v \in Workers, Sending(u)', Sending(v)',
                    worker'[u].sending.id = worker'[v].sending.id,
                    worker'[u].sending.row.attemptCount = worker'[v].sending.row.attemptCount
             PROVE  u = v
  BY DEF OneAttemptEach
<1>1. /\ Sending(u) /\ worker'[u].sending = worker[u].sending
      /\ Sending(v) /\ worker'[v].sending = worker[v].sending
  OBVIOUS
<1> QED
  BY <1>1 DEF OneAttemptEach

\* One worker moves, and sends nothing it did not send before.
LEMMA QuietStep ==
  ASSUME IInv, NEW w \in Workers, NEW r \in Worker,
         worker' = [worker EXCEPT ![w] = r],
         UNCHANGED <<now, alert, line>>,
         Fine(r),
         r.at \in {"send", "mark"} =>
           worker[w].at \in {"send", "mark"} /\ r.sending = worker[w].sending
  PROVE  IInv'
<1>1. /\ worker' \in [Workers -> Worker]
      /\ worker'[w] = r
      /\ \A v \in Workers \ {w} : worker'[v] = worker[v]
  BY OneWorker DEF IInv
<1>2. TypeOK'
  BY <1>1 DEF IInv, TypeOK
<1>3. BroadcastOnceInTime' /\ RowInv'
  BY DEF IInv, BroadcastOnceInTime, KeyExpired, RowInv
<1>4. OneAttemptEach'
  BY <1>1, KeepsAttempts DEF IInv, Sending
<1>5. \A v \in Workers : Fine(worker[v])'
  <2> TAKE v \in Workers
  <2>1. CASE v = w
    BY <1>1, <2>1 DEF Fine, Holds, TakenOver
  <2>2. CASE v # w
    <3>1. Fine(worker[v])
      BY FineInv
    <3> QED
      BY <1>1, <2>2, <3>1 DEF Fine, Holds, TakenOver
  <2> QED
    BY <2>1, <2>2
<1> QED
  BY <1>2, <1>3, <1>4, <1>5, FineInv DEF Rest

LEMMA EndStep ==
  ASSUME IInv, NEW w \in Workers, Finish(w) \/ Abort(w)
  PROVE  IInv'
<1>1. worker' = [worker EXCEPT ![w] = Idle] /\ UNCHANGED <<now, alert, line>>
  BY DEF Finish, Abort
<1>2. Idle.at = "idle"
  BY DEF Idle
<1> QED
  BY <1>1, <1>2, IdleIsWorker, IdleIsFine, QuietStep

\* What is listed is due, and its key is young enough.
LEMMA ListStep ==
  ASSUME IInv, NEW w \in Workers, List(w)
  PROVE  IInv'
<1> DEFINE todo == {c \in {[id |-> a, row |-> alert[a]] : a \in Alerts} :
                      /\ ~ KeyExpired(worker[w].now)
                      /\ ~ Exhausted(c.row)
                      /\ Due(c.row, worker[w].now)}
           r == [worker[w] EXCEPT !.at = "loop", !.todo = todo]
<1>1. worker[w] \in Worker /\ worker[w].at = "list" /\ alert \in [Alerts -> Alert]
  BY DEF IInv, TypeOK, List
<1>2. todo \in SUBSET Candidate
  BY <1>1 DEF Candidate
<1>3. \A c \in todo : /\ ~ KeyExpired(worker[w].now)
                      /\ Due(c.row, worker[w].now)
                      /\ c.row.claimedAt <= c.row.updatedAt
  BY DEF IInv, RowInv
<1>4. worker' = [worker EXCEPT ![w].at = "loop", ![w].todo = todo]
  BY DEF List
<1> HIDE DEF todo
<1>5. worker' = [worker EXCEPT ![w] = r]
  BY <1>1, <1>4 DEF IInv, TypeOK
<1>6. r \in Worker /\ r.at = "loop" /\ r.todo = todo /\ r.now = worker[w].now
  BY <1>1, <1>2 DEF Worker
<1>7. Fine(worker[w])
  BY FineInv
<1>8. Fine(r)
  BY <1>1, <1>3, <1>6, <1>7 DEF Fine
<1> HIDE DEF r
<1> QED
  BY <1>5, <1>6, <1>8, QuietStep DEF List

-----------------------------------------------------------------------------
(* The sweeps *)

\* Some unfinished rows are left to a person; nothing else about them changes.
Reviewing ==
  /\ alert' \in [Alerts -> Alert]
  /\ \A a \in Alerts :
       /\ alert'[a].attemptCount = alert[a].attemptCount
       /\ alert'[a].claimedAt = alert[a].claimedAt
       /\ alert'[a].updatedAt \in {alert[a].updatedAt, now}
       /\ \/ alert'[a].deliveryStatus = alert[a].deliveryStatus
          \/ /\ alert[a].deliveryStatus \in Unfinished
             /\ alert'[a].deliveryStatus = "MANUAL_REVIEW"

LEMMA SweepReviews ==
  ASSUME TypeOK, NEW P \in SUBSET Alerts,
         alert' = [a \in Alerts |-> IF alert[a].deliveryStatus \in Sweepable /\ a \in P
                                    THEN Reviewed(alert[a]) ELSE alert[a]]
  PROVE  Reviewing
<1> SUFFICES ASSUME NEW a \in Alerts
             PROVE  /\ alert'[a] \in Alert
                    /\ alert'[a].attemptCount = alert[a].attemptCount
                    /\ alert'[a].claimedAt = alert[a].claimedAt
                    /\ alert'[a].updatedAt \in {alert[a].updatedAt, now}
                    /\ \/ alert'[a].deliveryStatus = alert[a].deliveryStatus
                       \/ /\ alert[a].deliveryStatus \in Unfinished
                          /\ alert'[a].deliveryStatus = "MANUAL_REVIEW"
  BY DEF Reviewing
<1>1. alert[a] \in Alert /\ now \in Moment
  BY DEF TypeOK
<1>2. CASE alert[a].deliveryStatus \in Unfinished /\ a \in P
  <2>1. alert'[a] = [alert[a] EXCEPT !.deliveryStatus = "MANUAL_REVIEW", !.updatedAt = now]
    BY <1>2 DEF Sweepable, Reviewed
  <2> QED
    BY <1>1, <1>2, <2>1 DEF Alert, Final
<1>3. CASE ~ (alert[a].deliveryStatus \in Unfinished /\ a \in P)
  <2>1. alert'[a] = alert[a]
    BY <1>3 DEF Sweepable
  <2> QED
    BY <1>1, <2>1
<1> QED
  BY <1>2, <1>3

LEMMA SweepStep ==
  ASSUME IInv, NEW w \in Workers, NEW r \in Worker,
         worker' = [worker EXCEPT ![w] = r],
         Reviewing, UNCHANGED <<now, line>>,
         Fine(r), r.at \notin {"send", "mark"}
  PROVE  IInv'
<1>1. /\ worker' \in [Workers -> Worker]
      /\ worker'[w] = r
      /\ \A v \in Workers \ {w} : worker'[v] = worker[v]
  BY OneWorker DEF IInv
<1>2. TypeOK'
  BY <1>1 DEF IInv, TypeOK, Reviewing
<1>3. BroadcastOnceInTime'
  BY DEF IInv, BroadcastOnceInTime, KeyExpired, Reviewing
<1>4. OneAttemptEach'
  BY <1>1, KeepsAttempts DEF IInv, Sending
<1>5. RowInv'
  <2> SUFFICES ASSUME NEW a \in Alerts
               PROVE  alert'[a].claimedAt <= alert'[a].updatedAt /\ alert'[a].updatedAt <= now
    BY DEF RowInv
  <2>1. /\ alert[a].claimedAt <= alert[a].updatedAt /\ alert[a].updatedAt <= now
        /\ alert[a].claimedAt \in Nat /\ alert[a].updatedAt \in Nat /\ now \in Nat
    BY Times DEF IInv, RowInv, TypeOK, Alert
  <2> QED
    BY <2>1 DEF Reviewing
<1>6. \A v \in Workers : Fine(worker[v])'
  <2> TAKE v \in Workers
  <2>1. CASE v = w
    BY <1>1, <2>1 DEF Fine
  <2>2. CASE v # w
    <3>1. Fine(worker[v]) /\ worker'[v] = worker[v]
      BY <1>1, <2>2, FineInv
    <3>2. worker[v].at \in {"send", "mark"} => worker[v].sending.id \in Alerts
      BY <3>1 DEF Fine, Candidate
    <3>3. ASSUME NEW a \in Alerts, NEW x,
                 Holds(alert[a], x) \/ TakenOver(alert[a], x)
          PROVE  Holds(alert'[a], x) \/ TakenOver(alert'[a], x)
      BY <3>3 DEF Reviewing, Holds, TakenOver
    <3> QED
      BY <3>1, <3>2, <3>3 DEF Fine
  <2> QED
    BY <2>1, <2>2
<1> QED
  BY <1>2, <1>3, <1>4, <1>5, <1>6, FineInv DEF Rest

LEMMA StartStep ==
  ASSUME IInv, NEW w \in Workers, StartDelivery(w)
  PROVE  IInv'
<1> DEFINE r == [Idle EXCEPT !.at = "exhausted", !.now = now]
           P == {a \in Alerts : KeyExpired(now)}
<1>1. now \in Moment /\ now \in Nat
  BY Times DEF IInv, TypeOK
<1>2. r \in Worker /\ r.at = "exhausted" /\ r.todo = {} /\ r.now = now
  BY <1>1 DEF Idle, Worker, Replies
<1>3. Fine(r)
  BY <1>1, <1>2 DEF Fine
<1>4. P \in SUBSET Alerts
  OBVIOUS
<1>5. alert' = [a \in Alerts |-> IF alert[a].deliveryStatus \in Sweepable /\ a \in P
                                 THEN Reviewed(alert[a]) ELSE alert[a]]
  BY DEF StartDelivery
<1> HIDE DEF P
<1>6. Reviewing
  BY <1>4, <1>5, SweepReviews DEF IInv
<1>7. worker' = [worker EXCEPT ![w] = r] /\ UNCHANGED <<now, line>>
  BY DEF StartDelivery
<1> HIDE DEF r
<1> QED
  BY <1>2, <1>3, <1>6, <1>7, SweepStep

LEMMA ExhaustedStep ==
  ASSUME IInv, NEW w \in Workers, SweepExhausted(w)
  PROVE  IInv'
<1> DEFINE r == [worker[w] EXCEPT !.at = "list"]
           P == {a \in Alerts : Exhausted(alert[a])}
<1>1. worker[w] \in Worker /\ worker[w].at = "exhausted" /\ Fine(worker[w])
  BY FineInv DEF IInv, TypeOK, SweepExhausted
<1>2. r \in Worker /\ r.at = "list" /\ r.todo = worker[w].todo /\ r.now = worker[w].now
  BY <1>1 DEF Worker
<1>3. Fine(r)
  BY <1>1, <1>2 DEF Fine
<1>4. P \in SUBSET Alerts
  OBVIOUS
<1>5. alert' = [a \in Alerts |-> IF alert[a].deliveryStatus \in Sweepable /\ a \in P
                                 THEN Reviewed(alert[a]) ELSE alert[a]]
  BY DEF SweepExhausted
<1> HIDE DEF P
<1>6. Reviewing
  BY <1>4, <1>5, SweepReviews DEF IInv
<1>7. worker' = [worker EXCEPT ![w] = r] /\ UNCHANGED <<now, line>>
  BY DEF SweepExhausted, IInv, TypeOK
<1> HIDE DEF r
<1> QED
  BY <1>2, <1>3, <1>6, <1>7, SweepStep

-----------------------------------------------------------------------------
(* The attempt *)

\* Who claims the row of a worker that is still sending takes it over: he
\* counts a later attempt, and writes a later time.
LEMMA TakesOver ==
  ASSUME IInv, NEW v \in Workers, NEW w \in Workers, Sending(v),
         NEW c \in worker[w].todo, worker[v].sending.id = c.id,
         Unchanged(alert[c.id], c.row)
  PROVE  /\ worker[v].sending.row.attemptCount + 1 <= alert[c.id].attemptCount
         /\ worker[v].now < worker[w].now
<1>1. Fine(worker[v]) /\ Fine(worker[w])
  BY FineInv
<1>2. /\ c \in Candidate /\ worker[v] \in Worker /\ worker[w] \in Worker
      /\ alert \in [Alerts -> Alert]
  BY DEF IInv, TypeOK, Worker
<1>3. c.id \in Alerts /\ c.row \in Alert
  BY <1>2 DEF Candidate
<1>4. Holds(alert[c.id], worker[v]) \/ TakenOver(alert[c.id], worker[v])
  BY <1>1 DEF Fine, Sending
<1>5. /\ c.row.claimedAt = alert[c.id].claimedAt
      /\ c.row.deliveryStatus = alert[c.id].deliveryStatus
      /\ c.row.deliveryStatus # "PENDING"
  BY <1>4 DEF Unchanged, Holds, TakenOver
<1>6. /\ Due(c.row, worker[w].now)
      /\ c.row.claimedAt <= c.row.updatedAt
  BY <1>1 DEF Fine
<1>7. /\ worker[v].sending \in Candidate
      /\ worker[v].sending.row.attemptCount \in Nat
      /\ alert[c.id].attemptCount \in Nat
  BY <1>1, <1>2, <1>3 DEF Fine, Sending, Candidate, Alert
<1>8. /\ c.row.claimedAt \in Nat /\ c.row.updatedAt \in Nat
      /\ worker[v].now \in Nat /\ worker[w].now \in Nat
      /\ Stale \in Nat /\ 0 < Stale
  BY <1>2, <1>3, Times, Limits DEF Worker, Alert
<1>9. worker[v].now <= c.row.claimedAt
  BY <1>4, <1>5, <1>8 DEF Holds, TakenOver
<1>10. c.row.claimedAt + Stale <= worker[w].now
  BY <1>5, <1>6, <1>8 DEF Due
<1>11. worker[v].now < worker[w].now
  BY <1>8, <1>9, <1>10
<1>12. worker[v].sending.row.attemptCount + 1 <= alert[c.id].attemptCount
  BY <1>4, <1>7 DEF Holds, TakenOver
<1> QED
  BY <1>11, <1>12

LEMMA ClaimStep ==
  ASSUME IInv, NEW w \in Workers, Claim(w)
  PROVE  IInv'
<1>1. PICK c \in worker[w].todo : ClaimCandidate(w, c)
  BY DEF Claim
<1>2. /\ worker[w] \in Worker /\ worker[w].at = "loop" /\ Fine(worker[w])
      /\ alert \in [Alerts -> Alert] /\ now \in Moment
      /\ UNCHANGED <<now, line>>
  BY <1>1, FineInv DEF IInv, TypeOK, ClaimCandidate
<1>3. c \in Candidate /\ c.id \in Alerts /\ c.row \in Alert
  BY <1>2 DEF Worker, Candidate
<1>4. CASE /\ Unchanged(alert[c.id], c.row)
           /\ alert' = [alert EXCEPT ![c.id] =
                [ deliveryStatus |-> "SENDING", attemptCount |-> @.attemptCount + 1,
                  claimedAt |-> worker[w].now, updatedAt |-> now ]]
           /\ worker' = [worker EXCEPT ![w].at = "send", ![w].sending = c,
                                       ![w].todo = @ \ {c}]
  <2> DEFINE r == [worker[w] EXCEPT !.at = "send", !.sending = c, !.todo = @ \ {c}]
             row == [ deliveryStatus |-> "SENDING",
                      attemptCount |-> alert[c.id].attemptCount + 1,
                      claimedAt |-> worker[w].now, updatedAt |-> now ]
  <2>1. /\ r \in Worker /\ r.at = "send" /\ r.sending = c
        /\ r.todo = worker[w].todo \ {c} /\ r.now = worker[w].now
    BY <1>2, <1>3 DEF Worker
  <2>2. worker' = [worker EXCEPT ![w] = r]
    BY <1>4 DEF IInv, TypeOK
  <2>3. row \in Alert
    BY <1>2, <1>3 DEF Alert, Unfinished, Worker
  <2>4. alert' = [alert EXCEPT ![c.id] = row]
    BY <1>4
  <2> HIDE DEF r
  <2>5. /\ worker' \in [Workers -> Worker]
        /\ worker'[w] = r
        /\ \A v \in Workers \ {w} : worker'[v] = worker[v]
    BY <2>1, <2>2, OneWorker DEF IInv
  <2>6. /\ alert'[c.id].deliveryStatus = "SENDING"
        /\ alert'[c.id].attemptCount = c.row.attemptCount + 1
        /\ alert'[c.id].claimedAt = worker[w].now
        /\ \A a \in Alerts \ {c.id} : alert'[a] = alert[a]
    BY <1>2, <1>3, <1>4, <2>4 DEF Unchanged
  <2>7. alert' \in [Alerts -> Alert]
    <3> HIDE DEF row
    <3> QED
      BY <1>2, <2>3, <2>4
  <2>8. \A v \in Workers : Sending(v) /\ worker[v].sending.id = c.id =>
          /\ worker[v].sending.row.attemptCount + 1 <= alert[c.id].attemptCount
          /\ worker[v].now < worker[w].now
    BY <1>4, TakesOver
  <2>9. TypeOK'
    BY <1>2, <2>5, <2>7 DEF IInv, TypeOK
  <2>10. BroadcastOnceInTime'
    BY <1>2, <2>6 DEF IInv, BroadcastOnceInTime, KeyExpired
  <2>11. RowInv'
    <3>1. worker[w].now <= now
      BY <1>2 DEF Fine
    <3>2. row.claimedAt = worker[w].now /\ row.updatedAt = now
      OBVIOUS
    <3>3. now <= now
      BY <1>2, Times
    <3>4. alert'[c.id] = row
      BY <1>2, <1>3, <2>4
    <3> HIDE DEF row
    <3> QED
      BY <1>2, <2>6, <3>1, <3>2, <3>3, <3>4 DEF IInv, RowInv
  <2>12. OneAttemptEach'
    <3>1. c.row.attemptCount = alert[c.id].attemptCount /\ c.row.attemptCount \in Nat
      BY <1>3, <1>4 DEF Unchanged, Alert
    <3>2. ASSUME NEW v \in Workers \ {w}, Sending(v)', worker'[v].sending.id = c.id
          PROVE  worker'[v].sending.row.attemptCount # c.row.attemptCount
      <4>1. Sending(v) /\ worker'[v] = worker[v] /\ Fine(worker[v])
        BY <2>5, <3>2, FineInv DEF Sending
      <4>2. worker[v].sending.row.attemptCount \in Nat
        BY <4>1 DEF Fine, Sending, Candidate, Alert
      <4>3. worker[v].sending.row.attemptCount + 1 <= alert[c.id].attemptCount
        BY <2>8, <3>2, <4>1
      <4> QED
        BY <3>1, <4>1, <4>2, <4>3
    <3>3. ASSUME NEW u \in Workers \ {w}, NEW v \in Workers \ {w}, Sending(u)', Sending(v)',
                 worker'[u].sending.id = worker'[v].sending.id,
                 worker'[u].sending.row.attemptCount = worker'[v].sending.row.attemptCount
          PROVE  u = v
      BY <2>5, <3>3 DEF IInv, OneAttemptEach, Sending
    <3> QED
      BY <2>1, <2>5, <3>2, <3>3 DEF OneAttemptEach
  <2>13. \A v \in Workers : Fine(worker[v])'
    <3> TAKE v \in Workers
    <3>1. CASE v = w
      <4>1. \A d \in r.todo : d \in worker[w].todo
        BY <2>1
      <4>2. Holds(alert'[c.id], r)
        BY <2>1, <2>6 DEF Holds
      <4> QED
        BY <1>2, <1>3, <2>1, <2>5, <3>1, <4>1, <4>2 DEF Fine
    <3>2. CASE v # w
      <4>1. Fine(worker[v]) /\ worker'[v] = worker[v]
        BY <2>5, <3>2, FineInv
      <4>2. CASE Sending(v) /\ worker[v].sending.id = c.id
        <5>1. /\ alert'[c.id].attemptCount = alert[c.id].attemptCount + 1
              /\ alert'[c.id].claimedAt = worker[w].now
              /\ alert'[c.id].deliveryStatus # "PENDING"
          BY <1>3, <1>4, <2>6 DEF Unchanged
        <5>2. /\ alert[c.id].attemptCount \in Nat
              /\ worker[v].sending.row.attemptCount \in Nat
          BY <1>2, <1>3, <4>1, <4>2 DEF Fine, Sending, Candidate, Alert
        <5>3. alert'[c.id].attemptCount > worker[v].sending.row.attemptCount + 1
          BY <2>8, <4>2, <5>1, <5>2
        <5>4. alert'[c.id].claimedAt > worker[v].now
          <6>1. worker[v].now \in Nat /\ worker[w].now \in Nat
            BY <1>2, Times DEF IInv, TypeOK, Worker
          <6> QED
            BY <2>8, <4>2, <5>1, <6>1
        <5>5. TakenOver(alert'[c.id], worker[v])
          BY <5>1, <5>3, <5>4 DEF TakenOver
        <5> QED
          BY <1>2, <4>1, <4>2, <5>5 DEF Fine
      <4>3. CASE Sending(v) /\ worker[v].sending.id # c.id
        <5>1. worker[v].sending.id \in Alerts
          BY <4>1, <4>3 DEF Fine, Sending, Candidate
        <5> QED
          BY <1>2, <2>6, <4>1, <4>3, <5>1 DEF Fine
      <4>4. CASE ~ Sending(v)
        BY <1>2, <4>1, <4>4 DEF Fine, Sending
      <4> QED
        BY <4>2, <4>3, <4>4
    <3> QED
      BY <3>1, <3>2
  <2> QED
    BY <2>9, <2>10, <2>11, <2>12, <2>13, FineInv DEF Rest
<1>5. CASE worker' = [worker EXCEPT ![w].todo = @ \ {c}] /\ UNCHANGED alert
  <2> DEFINE r == [worker[w] EXCEPT !.todo = @ \ {c}]
  <2>1. /\ r \in Worker /\ r.at = "loop"
        /\ r.todo = worker[w].todo \ {c} /\ r.now = worker[w].now
    BY <1>2 DEF Worker
  <2>2. worker' = [worker EXCEPT ![w] = r]
    BY <1>5 DEF IInv, TypeOK
  <2>3. Fine(r)
    BY <1>2, <2>1 DEF Fine
  <2> HIDE DEF r
  <2> QED
    BY <1>2, <1>5, <2>1, <2>2, <2>3, QuietStep
<1> QED
  BY <1>1, <1>4, <1>5 DEF ClaimCandidate

\* LINE broadcasts an alert again only when it has forgotten its key, which
\* it has not while the key is good.
LEMMA BroadcastFacts ==
  ASSUME IInv, NEW a \in Alerts
  PROVE  /\ Broadcast(a) \in [Alerts -> [broadcasts : Nat, since : Moment]]
         /\ Broadcast(a)[a].broadcasts > 0
         /\ \/ Broadcast(a) = line
            \/ /\ Broadcast(a)[a].broadcasts = line[a].broadcasts + 1
               /\ line[a].broadcasts = 0 \/ KeyExpired(now)
         /\ \A b \in Alerts \ {a} : Broadcast(a)[b] = line[b]
<1>1. /\ line \in [Alerts -> [broadcasts : Nat, since : Moment]] /\ now \in Moment
  BY DEF IInv, TypeOK
<1>2. now \in Nat /\ line[a].since \in Nat /\ line[a].broadcasts \in Nat
  BY <1>1, Times
<1>3. CASE KnownToLine(a)
  <2>1. Broadcast(a) = line /\ line[a].broadcasts > 0
    BY <1>3 DEF KnownToLine, Broadcast
  <2> QED
    BY <1>1, <2>1
<1>4. CASE ~ KnownToLine(a)
  <2>1. line[a].broadcasts = 0 \/ KeyExpired(now)
    BY <1>2, <1>4, Limits DEF KnownToLine, KeyExpired
  <2>2. Broadcast(a) = [line EXCEPT ![a] = [broadcasts |-> @.broadcasts + 1, since |-> now]]
    BY <1>4 DEF Broadcast
  <2> DEFINE entry == [broadcasts |-> line[a].broadcasts + 1, since |-> now]
  <2>3. /\ entry \in [broadcasts : Nat, since : Moment]
        /\ entry.broadcasts = line[a].broadcasts + 1 /\ entry.broadcasts > 0
    BY <1>1, <1>2
  <2>4. Broadcast(a) = [line EXCEPT ![a] = entry]
    BY <2>2
  <2> HIDE DEF entry
  <2>5. Broadcast(a)[a] = entry /\ \A b \in Alerts \ {a} : Broadcast(a)[b] = line[b]
    BY <1>1, <2>4
  <2> QED
    BY <1>1, <2>1, <2>3, <2>4, <2>5
<1> QED
  BY <1>3, <1>4

LEMMA SendStep ==
  ASSUME IInv, NEW w \in Workers, Send(w)
  PROVE  IInv'
<1> DEFINE a == worker[w].sending.id
<1>1. PICK reply \in Replies \ {"none"} :
        /\ worker' = [worker EXCEPT ![w].at = "mark", ![w].reply = reply]
        /\ \/ reply \in {"accepted", "retryable"} /\ line' = Broadcast(a)
           \/ reply \in {"retryable", "refused"} /\ UNCHANGED line
  BY DEF Send
<1>2. /\ worker[w] \in Worker /\ worker[w].at = "send" /\ Fine(worker[w])
      /\ UNCHANGED <<now, alert>>
  BY FineInv DEF IInv, TypeOK, Send
<1>3. a \in Alerts
  BY <1>2 DEF Fine, Candidate
<1> DEFINE r == [worker[w] EXCEPT !.at = "mark", !.reply = reply]
<1>4. /\ r \in Worker /\ r.at = "mark" /\ r.sending = worker[w].sending
      /\ r.todo = worker[w].todo /\ r.now = worker[w].now /\ r.reply = reply
  BY <1>2 DEF Worker
<1>5. worker' = [worker EXCEPT ![w] = r]
  BY <1>1 DEF IInv, TypeOK
<1> HIDE DEF r
<1>6. /\ worker' \in [Workers -> Worker]
      /\ worker'[w] = r
      /\ \A v \in Workers \ {w} : worker'[v] = worker[v]
  BY <1>4, <1>5, OneWorker DEF IInv
<1>7. /\ line' \in [Alerts -> [broadcasts : Nat, since : Moment]]
      /\ \A b \in Alerts \ {a} : line'[b] = line[b]
      /\ \/ line' = line
         \/ /\ line'[a].broadcasts = line[a].broadcasts + 1
            /\ line[a].broadcasts = 0 \/ KeyExpired(now)
      /\ reply = "accepted" => line'[a].broadcasts > 0
  BY <1>1, <1>3, BroadcastFacts DEF IInv, TypeOK
<1>8. \A b \in Alerts : line[b].broadcasts > 0 => line'[b].broadcasts > 0
  BY <1>3, <1>7 DEF IInv, TypeOK
<1>9. TypeOK'
  BY <1>2, <1>6, <1>7 DEF IInv, TypeOK
<1>10. BroadcastOnceInTime' /\ RowInv'
  <2>1. RowInv'
    BY <1>2 DEF IInv, RowInv
  <2> SUFFICES ASSUME NEW b \in Alerts
               PROVE  /\ ~ KeyExpired(now) => line'[b].broadcasts <= 1
                      /\ alert'[b].deliveryStatus = "SENT" => line'[b].broadcasts > 0
    BY <1>2, <2>1 DEF BroadcastOnceInTime, KeyExpired
  <2>2. /\ ~ KeyExpired(now) => line[b].broadcasts <= 1
        /\ alert[b].deliveryStatus = "SENT" => line[b].broadcasts > 0
    BY DEF IInv, BroadcastOnceInTime
  <2> QED
    BY <1>2, <1>3, <1>7, <1>8, <2>2
<1>11. OneAttemptEach'
  BY <1>2, <1>4, <1>6, KeepsAttempts DEF IInv, Sending
<1>12. \A v \in Workers : Fine(worker[v])'
  <2> TAKE v \in Workers
  <2>1. CASE v = w
    BY <1>2, <1>4, <1>6, <1>7, <2>1 DEF Fine, Holds, TakenOver
  <2>2. CASE v # w
    <3>1. Fine(worker[v]) /\ worker'[v] = worker[v]
      BY <1>6, <2>2, FineInv
    <3>2. worker[v].at \in {"send", "mark"} => worker[v].sending.id \in Alerts
      BY <3>1 DEF Fine, Candidate
    <3> QED
      BY <1>2, <1>8, <3>1, <3>2 DEF Fine
  <2> QED
    BY <2>1, <2>2
<1> QED
  BY <1>9, <1>10, <1>11, <1>12, FineInv DEF Rest

\* The mark finds the row only if it still keeps the worker's own claim.
LEMMA MineIsHeld ==
  ASSUME IInv, NEW w \in Workers, Sending(w),
         StillMine(alert[worker[w].sending.id], worker[w].now)
  PROVE  Holds(alert[worker[w].sending.id], worker[w])
<1>1. Fine(worker[w]) /\ worker[w] \in Worker
  BY FineInv DEF IInv, TypeOK
<1>2. worker[w].now \in Nat
  BY <1>1, Times DEF Worker
<1>3. ~ TakenOver(alert[worker[w].sending.id], worker[w])
  BY <1>2 DEF StillMine, TakenOver
<1> QED
  BY <1>1, <1>3 DEF Fine, Sending

\* Whoever else is sending the alert has been taken over, and SENT is marked
\* only after LINE has confirmed it.
LEMMA MarkStep ==
  ASSUME IInv, NEW w \in Workers, Mark(w)
  PROVE  IInv'
<1> DEFINE c == worker[w].sending
           status == Outcome(worker[w].reply, c.row.attemptCount + 1, worker[w].now)
           mine == StillMine(alert[c.id], worker[w].now)
           r == IF worker[w].reply = "accepted" /\ ~ mine THEN Idle
                ELSE [worker[w] EXCEPT !.at = "loop", !.sending = Nobody, !.reply = "none"]
<1>1. /\ worker[w] \in Worker /\ worker[w].at = "mark" /\ Fine(worker[w])
      /\ alert \in [Alerts -> Alert] /\ now \in Moment
      /\ UNCHANGED <<now, line>>
  BY FineInv DEF IInv, TypeOK, Mark
<1>2. c \in Candidate /\ c.id \in Alerts
  BY <1>1 DEF Fine, Candidate
<1>3. status \in {"SENT", "MANUAL_REVIEW", "FAILED"}
      /\ (status = "SENT" => worker[w].reply = "accepted")
  BY DEF Outcome, Disposition
<1>4. /\ worker' = [worker EXCEPT ![w] = r]
      /\ alert' = IF mine THEN [alert EXCEPT ![c.id].deliveryStatus = status,
                                             ![c.id].updatedAt = now]
                  ELSE alert
  BY DEF Mark, IInv, TypeOK
<1>5. r \in Worker /\ r.at \in {"idle", "loop"} /\ Fine(r)
  <2>1. CASE worker[w].reply = "accepted" /\ ~ mine
    BY <2>1, IdleIsWorker, IdleIsFine DEF Idle
  <2>2. CASE ~ (worker[w].reply = "accepted" /\ ~ mine)
    <3>1. r = [worker[w] EXCEPT !.at = "loop", !.sending = Nobody, !.reply = "none"]
      BY <2>2
    <3>2. /\ r \in Worker /\ r.at = "loop"
          /\ r.todo = worker[w].todo /\ r.now = worker[w].now
      BY <1>1, <3>1 DEF Worker, Replies
    <3> HIDE DEF r
    <3> QED
      BY <1>1, <3>2 DEF Fine
  <2> QED
    BY <2>1, <2>2
<1> HIDE DEF r
<1>6. /\ worker' \in [Workers -> Worker]
      /\ worker'[w] = r
      /\ \A v \in Workers \ {w} : worker'[v] = worker[v]
  BY <1>4, <1>5, OneWorker DEF IInv
<1> HIDE DEF status
<1>7. /\ alert' \in [Alerts -> Alert]
      /\ \A a \in Alerts \ {c.id} : alert'[a] = alert[a]
      /\ alert'[c.id].attemptCount = alert[c.id].attemptCount
      /\ alert'[c.id].claimedAt = alert[c.id].claimedAt
      /\ \/ alert' = alert
         \/ /\ mine
            /\ alert'[c.id].updatedAt = now
            /\ alert'[c.id].deliveryStatus = status
  <2>1. CASE mine
    <3> DEFINE row == [alert[c.id] EXCEPT !.deliveryStatus = status, !.updatedAt = now]
    <3>1. alert' = [alert EXCEPT ![c.id] = row]
      BY <1>1, <1>4, <2>1
    <3>2. /\ row \in Alert /\ row.deliveryStatus = status /\ row.updatedAt = now
          /\ row.attemptCount = alert[c.id].attemptCount
          /\ row.claimedAt = alert[c.id].claimedAt
      BY <1>1, <1>2, <1>3 DEF Alert, Unfinished, Final
    <3> HIDE DEF row
    <3> QED
      BY <1>1, <1>2, <2>1, <3>1, <3>2
  <2>2. CASE ~ mine
    BY <1>1, <1>4, <2>2
  <2> QED
    BY <2>1, <2>2
<1>8. TypeOK'
  BY <1>1, <1>6, <1>7 DEF IInv, TypeOK
<1>9. BroadcastOnceInTime'
  <2>1. status = "SENT" => line[c.id].broadcasts > 0
    BY <1>1, <1>3 DEF Fine
  <2> QED
    BY <1>1, <1>7, <2>1 DEF IInv, BroadcastOnceInTime, KeyExpired
<1>10. RowInv'
  <2>1. alert[c.id].claimedAt <= now
    <3>1. /\ alert[c.id].claimedAt \in Nat /\ alert[c.id].updatedAt \in Nat /\ now \in Nat
          /\ alert[c.id].claimedAt <= alert[c.id].updatedAt /\ alert[c.id].updatedAt <= now
      BY <1>1, <1>2, Times DEF Alert, IInv, RowInv
    <3> QED
      BY <3>1
  <2>2. now <= now
    BY <1>1, Times
  <2> HIDE DEF mine
  <2> QED
    BY <1>1, <1>7, <2>1, <2>2 DEF IInv, RowInv
<1>11. OneAttemptEach'
  BY <1>5, <1>6, KeepsAttempts DEF IInv, Sending
<1>12. \A v \in Workers : Fine(worker[v])'
  <2> TAKE v \in Workers
  <2>1. CASE v = w
    <3>1. r.at \notin {"send", "mark"}
      BY <1>5
    <3> QED
      BY <1>1, <1>5, <1>6, <2>1, <3>1 DEF Fine
  <2>2. CASE v # w
    <3>1. Fine(worker[v]) /\ worker'[v] = worker[v]
      BY <1>6, <2>2, FineInv
    <3>2. CASE Sending(v) /\ mine /\ worker[v].sending.id = c.id
      <4>1. Holds(alert[c.id], worker[w])
        BY <1>1, <3>2, MineIsHeld DEF Sending
      <4>2. /\ worker[v].sending.row.attemptCount \in Nat
            /\ c.row.attemptCount \in Nat
        BY <1>2, <3>1, <3>2 DEF Fine, Sending, Candidate, Alert
      <4>3. worker[v].sending.row.attemptCount # c.row.attemptCount
        BY <1>1, <2>2, <3>2 DEF IInv, OneAttemptEach, Sending
      <4>4. ~ Holds(alert[c.id], worker[v])
        BY <4>1, <4>2, <4>3 DEF Holds
      <4>5. TakenOver(alert[c.id], worker[v])
        BY <3>1, <3>2, <4>4 DEF Fine, Sending
      <4>6. alert'[c.id].deliveryStatus # "PENDING"
        BY <1>3, <1>7, <4>5 DEF TakenOver
      <4>7. TakenOver(alert'[c.id], worker[v])
        BY <1>7, <4>5, <4>6 DEF TakenOver
      <4> QED
        BY <1>1, <3>1, <3>2, <4>7 DEF Fine
    <3>3. CASE ~ (Sending(v) /\ mine /\ worker[v].sending.id = c.id)
      <4>1. Sending(v) => worker[v].sending.id \in Alerts
        BY <3>1 DEF Fine, Sending, Candidate
      <4>2. Sending(v) => alert'[worker[v].sending.id] = alert[worker[v].sending.id]
        BY <1>7, <3>3, <4>1
      <4> HIDE DEF mine
      <4> QED
        BY <1>1, <3>1, <4>2 DEF Fine, Sending
    <3> QED
      BY <3>2, <3>3
  <2> QED
    BY <2>1, <2>2
<1> QED
  BY <1>8, <1>9, <1>10, <1>11, <1>12, FineInv DEF Rest

LEMMA TickStep ==
  ASSUME IInv, Tick
  PROVE  IInv'
<1>1. /\ now \in Nat /\ now' = now + 1 /\ now' \in Moment
      /\ UNCHANGED <<alert, worker, line>>
  BY Limits DEF IInv, TypeOK, Tick, Moment
<1>2. TypeOK' /\ OneAttemptEach'
  BY <1>1 DEF IInv, TypeOK, OneAttemptEach, Sending
<1>3. BroadcastOnceInTime'
  <2>1. KeyExpired(now) => KeyExpired(now')
    BY <1>1, Limits DEF KeyExpired
  <2> QED
    BY <1>1, <2>1 DEF IInv, BroadcastOnceInTime
<1>4. RowInv'
  <2>1. \A a \in Alerts : alert[a].updatedAt \in Nat
    BY Times DEF IInv, TypeOK, Alert
  <2> QED
    BY <1>1, <2>1 DEF IInv, RowInv
<1>5. \A w \in Workers : Fine(worker[w])'
  <2> TAKE w \in Workers
  <2>1. Fine(worker[w]) /\ worker[w].now \in Nat
    BY FineInv, Times DEF IInv, TypeOK, Worker
  <2> QED
    BY <1>1, <2>1 DEF Fine, Holds, TakenOver
<1> QED
  BY <1>2, <1>3, <1>4, <1>5, FineInv DEF Rest

-----------------------------------------------------------------------------

LEMMA InitIsSound == Init => IInv
<1> SUFFICES ASSUME Init PROVE IInv
  OBVIOUS
<1>1. Created \in Alert
  BY Times DEF Created, Alert, Unfinished
<1>2. TypeOK
  BY <1>1, Times, IdleIsWorker DEF Init, TypeOK
<1>3. BroadcastOnceInTime /\ RowInv
  BY DEF Init, BroadcastOnceInTime, RowInv, Created
<1>4. OneAttemptEach /\ \A w \in Workers : Fine(worker[w])
  BY IdleIsFine DEF Init, OneAttemptEach, Sending, Idle
<1> QED
  BY <1>2, <1>3, <1>4, FineInv DEF Rest

LEMMA StepIsSound == IInv /\ [Next]_vars => IInv'
<1> SUFFICES ASSUME IInv, [Next]_vars PROVE IInv'
  OBVIOUS
<1>1. ASSUME NEW w \in Workers, StartDelivery(w) \/ Proceed(w) \/ Abort(w)
      PROVE  IInv'
  BY <1>1, StartStep, ExhaustedStep, ListStep, ClaimStep, SendStep, MarkStep, EndStep
     DEF Proceed
<1>2. CASE Tick
  BY <1>2, TickStep
<1>3. CASE UNCHANGED vars
  <2>1. TypeOK' /\ Rest'
    BY <1>3 DEF IInv, TypeOK, Rest, BroadcastOnceInTime, KeyExpired, RowInv,
       OneAttemptEach, Sending, vars
  <2>2. \A w \in Workers : Fine(worker[w])'
    BY <1>3, FineInv DEF Fine, vars
  <2> QED
    BY <2>1, <2>2, FineInv
<1> QED
  BY <1>1, <1>2, <1>3 DEF Next

\* A worker that has claimed a row holds it until its mark, unless its cycle
\* outlasts the claim and a later one takes over (deliverPendingHardwareAlerts).
THEOREM Invariance == Spec => []IInv
<1> QED
  BY InitIsSound, StepIsSound, PTL DEF Spec

\* The rows, the workers and LINE are of the types the code gives them.
THEOREM TypeCorrect == Spec => []TypeOK
<1>1. IInv => TypeOK
  BY DEF IInv
<1> QED
  BY <1>1, Invariance, PTL

\* While its key is good an alert is broadcast at most once, however many
\* workers claim it, take it over and stop; and one that is recorded as sent
\* was broadcast.
THEOREM OnceWhileItsKeyIsGood == Spec => []BroadcastOnceInTime
<1>1. IInv => BroadcastOnceInTime
  BY DEF IInv
<1> QED
  BY <1>1, Invariance, PTL

\* A worker whose claim was taken over while it was sending, which nothing in
\* the code rules out, does not decide what becomes of the alert: the claims
\* of a row have different times (the conditional updates of
\* deliverPendingHardwareAlerts).
THEOREM StaleClaimsMarkNothing == Spec => MarksOwnAttempt
<1>1. ASSUME IInv, NEW w \in Workers, Mark(w), alert' # alert
      PROVE  alert[worker[w].sending.id].attemptCount = worker[w].sending.row.attemptCount + 1
  <2>1. Sending(w) /\ StillMine(alert[worker[w].sending.id], worker[w].now)
    BY <1>1 DEF Mark, Sending
  <2> QED
    BY <1>1, <2>1, MineIsHeld DEF Holds
<1>2. IInv =>
        [\A w \in Workers :
           Mark(w) /\ alert' # alert =>
             LET c == worker[w].sending
             IN alert[c.id].attemptCount = c.row.attemptCount + 1]_vars
  BY <1>1
<1> QED
  BY <1>2, Invariance, PTL DEF MarksOwnAttempt

\* A final row stays as it is, whatever a worker listed or claimed before.
LEMMA FinalStep ==
  ASSUME IInv, [Next]_vars, NEW a \in Alerts, alert[a].deliveryStatus \in Final
  PROVE  alert'[a].deliveryStatus = alert[a].deliveryStatus
<1>1. alert[a].deliveryStatus \notin Unfinished
  BY DEF Final, Unfinished
<1>2. ASSUME NEW w \in Workers, StartDelivery(w) \/ SweepExhausted(w)
      PROVE  alert'[a] = alert[a]
  BY <1>1, <1>2 DEF StartDelivery, SweepExhausted, Sweepable
<1>3. ASSUME NEW w \in Workers, Claim(w)
      PROVE  alert'[a] = alert[a]
  <2>1. PICK c \in worker[w].todo : ClaimCandidate(w, c)
    BY <1>3 DEF Claim
  <2>2. c.row.deliveryStatus \in Unfinished
    BY FineInv DEF Fine, Due, Unfinished
  <2>3. Unchanged(alert[c.id], c.row) => c.id # a
    BY <1>1, <2>2 DEF Unchanged
  <2>4. alert \in [Alerts -> Alert]
    BY DEF IInv, TypeOK
  <2> QED
    BY <2>1, <2>3, <2>4 DEF ClaimCandidate
<1>4. ASSUME NEW w \in Workers, Mark(w)
      PROVE  alert'[a] = alert[a]
  <2>1. StillMine(alert[worker[w].sending.id], worker[w].now) =>
          worker[w].sending.id # a
    BY DEF StillMine, Final
  <2>2. alert \in [Alerts -> Alert]
    BY DEF IInv, TypeOK
  <2> QED
    BY <1>4, <2>1, <2>2 DEF Mark
<1> QED
  BY <1>2, <1>3, <1>4
     DEF Next, Proceed, List, Send, Finish, Abort, Tick, vars

-----------------------------------------------------------------------------
(* What the owner is promised *)

Heard == [a \in Alerts |-> line[a].broadcasts]

Verdicts == [a \in Alerts |-> Verdict(alert[a].deliveryStatus)]

Expired == {a \in Alerts : KeyExpired(now)}

Underway == {a \in Alerts : \E w \in Workers :
               worker[w].at # "idle" /\ ~ KeyExpired(worker[w].now)}

\* What becomes of the rows while LINE broadcasts nothing.
LEMMA SettleRefines ==
  ASSUME IInv, IInv', [Next]_vars, UNCHANGED line
  PROVE  Promise!Settle
<1>1. \A s : Verdict(s) \in Promise!Verdicts
  BY DEF Verdict, Promise!Verdicts
<1>2. ASSUME NEW a \in Alerts,
             Verdict(alert'[a].deliveryStatus) # Verdict(alert[a].deliveryStatus)
      PROVE  /\ Verdict(alert[a].deliveryStatus) = "open"
             /\ Verdict(alert'[a].deliveryStatus) = "sent" => line[a].broadcasts > 0
  <2>1. alert[a].deliveryStatus \notin Final
    BY <1>2, FinalStep
  <2>2. alert'[a].deliveryStatus = "SENT" => line[a].broadcasts > 0
    BY DEF IInv, BroadcastOnceInTime
  <2> QED
    BY <2>1, <2>2 DEF Verdict, Final
<1>3. Verdicts' = [a \in Alerts |-> Verdict(alert'[a].deliveryStatus)]
  BY DEF Verdicts
<1>4. Verdicts' \in [Alerts -> Promise!Verdicts]
  BY <1>1, <1>3
<1> QED
  BY <1>2, <1>3, <1>4 DEF Promise!Settle, Verdicts

\* Time does not go back, and who begins a cycle takes the time as it is.
LEMMA KeysRunOutRefines ==
  ASSUME IInv, [Next]_vars
  PROVE  Promise!KeysRunOut
<1>1. now \in Nat /\ now' \in {now, now + 1}
  BY Times DEF IInv, TypeOK, Next, Proceed, StartDelivery, SweepExhausted, List, Claim,
     ClaimCandidate, Send, Mark, Finish, Abort, Tick, vars
<1>2. KeyExpired(now) => KeyExpired(now')
  BY <1>1, Limits DEF KeyExpired
<1>3. ASSUME NEW w \in Workers, worker'[w].at # "idle", ~ KeyExpired(worker'[w].now),
             KeyExpired(now')
      PROVE  worker[w].at # "idle" /\ ~ KeyExpired(worker[w].now)
  <2>1. CASE worker'[w] = worker[w]
    BY <1>3, <2>1
  <2>2. CASE StartDelivery(w)
    <3>1. worker'[w].now = now /\ now' = now
      BY <2>2 DEF StartDelivery, Idle, IInv, TypeOK
    <3> QED
      BY <1>3, <3>1
  <2>3. CASE Proceed(w) \/ Abort(w)
    <3>1. worker[w].at # "idle"
      BY <2>3 DEF Proceed, SweepExhausted, List, Claim, ClaimCandidate, Send, Mark,
         Finish, Abort
    <3>2. worker'[w].at = "idle" \/ worker'[w].now = worker[w].now
      <4>1. worker \in [Workers -> Worker] /\ worker[w] \in Worker
        BY DEF IInv, TypeOK
      <4>2. CASE SweepExhausted(w) \/ List(w)
        BY <4>1, <4>2 DEF SweepExhausted, List, Worker
      <4>3. CASE Claim(w)
        <5>1. PICK c \in worker[w].todo : ClaimCandidate(w, c)
          BY <4>3 DEF Claim
        <5> QED
          BY <4>1, <5>1 DEF ClaimCandidate, Worker
      <4>4. CASE Send(w)
        BY <4>1, <4>4 DEF Send, Worker
      <4>5. CASE Mark(w)
        BY <4>1, <4>5 DEF Mark, Worker, Idle
      <4>6. CASE Finish(w) \/ Abort(w)
        BY <4>1, <4>6 DEF Finish, Abort, Idle
      <4> QED
        BY <2>3, <4>2, <4>3, <4>4, <4>5, <4>6 DEF Proceed
    <3> QED
      BY <1>3, <3>1, <3>2
  <2>4. ASSUME NEW v \in Workers, v # w, StartDelivery(v) \/ Proceed(v) \/ Abort(v)
        PROVE  worker'[w] = worker[w]
    BY <2>4 DEF StartDelivery, Proceed, SweepExhausted, List, Claim, ClaimCandidate, Send,
       Mark, Finish, Abort, IInv, TypeOK
  <2>5. CASE Tick \/ UNCHANGED vars
    BY <2>1, <2>5 DEF Tick, vars
  <2> QED
    BY <2>1, <2>2, <2>3, <2>4, <2>5 DEF Next
<1>4. Expired \subseteq Expired' /\ Expired' \subseteq Alerts
  BY <1>2 DEF Expired
<1>5. Underway' \subseteq Alerts /\ Underway' \intersect Expired' \subseteq Underway
  BY <1>3 DEF Underway, Expired
<1> QED
  BY <1>4, <1>5 DEF Promise!KeysRunOut, Expired, Underway

\* LINE broadcasts what it has not broadcast, or whose key has run out since
\* the cycle began.
LEMMA SendRefines ==
  ASSUME IInv, NEW w \in Workers, Send(w)
  PROVE  line' = line \/ \E a \in Alerts : Promise!Announce(a)
<1>1. /\ worker[w].at = "send" /\ UNCHANGED <<now, alert>>
      /\ Fine(worker[w]) /\ line \in [Alerts -> [broadcasts : Nat, since : Moment]]
  BY FineInv DEF Send, IInv, TypeOK
<1>2. PICK a \in Alerts : a = worker[w].sending.id
  BY <1>1 DEF Fine, Candidate
<1>3. line' = Broadcast(a) \/ line' = line
  BY <1>2 DEF Send
<1>4. CASE line' = Broadcast(a) /\ line' # line
  <2>1. /\ line'[a].broadcasts = line[a].broadcasts + 1
        /\ line[a].broadcasts = 0 \/ KeyExpired(now)
        /\ \A b \in Alerts \ {a} : line'[b] = line[b]
    BY <1>4, BroadcastFacts
  <2>2. Heard' = [Heard EXCEPT ![a] = @ + 1]
    BY <1>2, <2>1 DEF Heard
  <2>3. Verdicts' = Verdicts /\ Expired' = Expired
    BY <1>1 DEF Verdicts, Expired
  <2>4. \A v \in Workers : worker'[v].now = worker[v].now
                           /\ (worker'[v].at # "idle" <=> worker[v].at # "idle")
    BY DEF Send, IInv, TypeOK, Worker
  <2>5. Underway' = Underway
    BY <2>4 DEF Underway, KeyExpired
  <2>6. a \in Underway
    BY <1>1 DEF Underway, Fine
  <2>7. Heard[a] = 0 \/ a \in Expired
    BY <2>1 DEF Heard, Expired
  <2> QED
    BY <2>2, <2>3, <2>5, <2>6, <2>7
    DEF Promise!Announce, Heard, Verdicts, Expired, Underway
<1> QED
  BY <1>3, <1>4

LEMMA StepRefines ==
  ASSUME IInv, IInv', [Next]_vars
  PROVE  Promise!Next
<1>1. CASE UNCHANGED line
  <2>1. Promise!Settle /\ Promise!KeysRunOut
    BY <1>1, SettleRefines, KeysRunOutRefines
  <2> QED
    BY <1>1, <2>1 DEF Promise!Next, Promise!Proceed
<1>2. CASE \E w \in Workers : Send(w)
  BY <1>1, <1>2, SendRefines DEF Promise!Next
<1> QED
  BY <1>1, <1>2 DEF Next, StartDelivery, Proceed, SweepExhausted, List, Claim,
     ClaimCandidate, Mark, Finish, Abort, Tick, vars

\* The delivery of alerts implements module Notice: the owner hears of an alert
\* once while its key is good, and again only from a cycle that has outlasted
\* the key; and no row that is sent or left to a person is taken up again,
\* whatever a worker listed or claimed before.
THEOREM Refinement == Spec => KeepsPromise
<1>1. Init => Promise!Init
  BY Limits DEF Init, Promise!Init, Created, Verdict, KeyExpired, Idle
<1>2. IInv /\ IInv' /\ [Next]_vars => [Promise!Next]_(Promise!vars)
  BY StepRefines
<1> QED
  BY <1>1, <1>2, Invariance, PTL DEF Spec, KeepsPromise, Promise!Spec
=============================================================================
