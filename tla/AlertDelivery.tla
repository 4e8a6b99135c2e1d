--------------------------- MODULE AlertDelivery ---------------------------
(***************************************************************************)
(* The delivery of hardware alerts to LINE: deliverPendingHardwareAlerts,  *)
(* run by the health loop of the server and by the scheduled job at the    *)
(* same time.  Every database call is one step and every call of LINE      *)
(* another; a worker may stop between any two of them.                     *)
(*                                                                         *)
(* A worker takes the time once, at the start of its cycle, and compares   *)
(* and writes that time for the whole cycle.  Alerts are numbered in the   *)
(* order of their detection and are all created at time 0.  LINE accepts   *)
(* an alert once per retry key, and remembers the key for KeyLife from its *)
(* first request.  Nothing bounds a cycle in the code: it may last longer  *)
(* than a claim, and beyond the life of a key.                             *)
(***************************************************************************)
EXTENDS Naturals

CONSTANTS
  Workers,      \* processes that deliver
  Alerts,       \* ids of rows of HardwareAlertEvent
  MaxAttempts,  \* HARDWARE_ALERT_MAX_ATTEMPTS
  Stale,        \* HARDWARE_ALERT_CLAIM_STALE_MS
  Validity,     \* LINE_RETRY_KEY_VALIDITY_MS
  KeyLife,      \* how long LINE recognises a key
  MaxCycle,     \* bound: the longest cycle of a worker
  Horizon       \* bound: time stops here, when every key has expired

ASSUME DeliveryAssumption ==
  /\ {MaxAttempts, Stale, Validity, KeyLife, MaxCycle, Horizon} \subseteq Nat
  /\ Alerts \subseteq Nat \ {0}
  /\ MaxAttempts > 0 /\ Stale > 0
  /\ 0 < Validity /\ Validity <= KeyLife   \* 24 hours, both of them
  /\ Validity <= Horizon

VARIABLES
  now,     \* the clock
  alert,   \* the rows
  worker,  \* the workers' cycles
  line     \* LINE: how often each alert was broadcast, and when first

vars == <<now, alert, worker, line>>

-----------------------------------------------------------------------------
(* Types *)

Moment == 0 .. Horizon

Unfinished == {"PENDING", "FAILED", "SENDING"}
Final == {"SENT", "MANUAL_REVIEW"}

\* claimedAt is 0 until the first claim; whether it is null is attemptCount = 0.
Alert ==
  [ deliveryStatus : Unfinished \union Final,
    attemptCount   : Nat,
    claimedAt      : Moment,
    updatedAt      : Moment ]

\* A row as the listing read it.
Candidate == [ id : Alerts, row : Alert ]

Created == [deliveryStatus |-> "PENDING", attemptCount |-> 0,
            claimedAt |-> 0, updatedAt |-> 0]

Nobody == [id |-> 0, row |-> Created]

Replies == {"none", "accepted", "retryable", "refused"}

\* at: the await a worker has reached; now: the time of its cycle;
\* todo: candidates it has still to handle; sending: the one it has claimed.
Worker ==
  [ at      : {"idle", "exhausted", "list", "loop", "send", "mark"},
    now     : Moment,
    todo    : SUBSET Candidate,
    sending : Candidate \union {Nobody},
    reply   : Replies ]

Idle == [at |-> "idle", now |-> 0, todo |-> {}, sending |-> Nobody, reply |-> "none"]

TypeOK ==
  /\ now \in Moment
  /\ alert \in [Alerts -> Alert]
  /\ worker \in [Workers -> Worker]
  /\ line \in [Alerts -> [broadcasts : Nat, since : Moment]]

Init ==
  /\ now = 0
  /\ alert = [a \in Alerts |-> Created]
  /\ worker = [w \in Workers |-> Idle]
  /\ line = [a \in Alerts |-> [broadcasts |-> 0, since |-> 0]]

-----------------------------------------------------------------------------
(* A cycle.  Keys were created at time 0. *)

\* Faulty: never expires.
KeyExpired_never(t) == FALSE

KeyExpired(t) == t >= Validity

Exhausted(row) == row.attemptCount >= MaxAttempts

\* Faulty: leaves a row that some worker died with.
Sweepable_unlessSending == {"PENDING", "FAILED"}

Sweepable == Unfinished

Reviewed(row) == [row EXCEPT !.deliveryStatus = "MANUAL_REVIEW", !.updatedAt = now]

\* Takes the time, and moves the alerts whose key has expired to review.
StartDelivery(w) ==
  /\ worker[w].at = "idle"
  /\ worker' = [worker EXCEPT ![w] = [Idle EXCEPT !.at = "exhausted", !.now = now]]
  /\ alert' = [a \in Alerts |->
       IF alert[a].deliveryStatus \in Sweepable /\ KeyExpired(now)
       THEN Reviewed(alert[a]) ELSE alert[a]]
  /\ UNCHANGED <<now, line>>

\* Moves the alerts that have used up their attempts to review.
SweepExhausted(w) ==
  /\ worker[w].at = "exhausted"
  /\ worker' = [worker EXCEPT ![w].at = "list"]
  /\ alert' = [a \in Alerts |->
       IF alert[a].deliveryStatus \in Sweepable /\ Exhausted(alert[a])
       THEN Reviewed(alert[a]) ELSE alert[a]]
  /\ UNCHANGED <<now, line>>

\* What a worker whose cycle began at t may claim.
Due(row, t) ==
  \/ row.deliveryStatus = "PENDING"
  \/ row.deliveryStatus = "FAILED" /\ row.updatedAt + Stale <= t
  \/ row.deliveryStatus = "SENDING" /\ row.claimedAt + Stale <= t

List(w) ==
  /\ worker[w].at = "list"
  /\ worker' = [worker EXCEPT
       ![w].at = "loop",
       ![w].todo = {c \in {[id |-> a, row |-> alert[a]] : a \in Alerts} :
                      /\ ~ KeyExpired(worker[w].now)
                      /\ ~ Exhausted(c.row)
                      /\ Due(c.row, worker[w].now)}]
  /\ UNCHANGED <<now, alert, line>>

\* The candidate detected first.
IsFirst(c, todo) == c \in todo /\ \A d \in todo : c.id <= d.id

\* Faulty: trusts the row the listing read.
Unchanged_assumed(row, seen) == TRUE

\* The conditional update finds the row as the listing read it.
Unchanged(row, seen) ==
  /\ row.deliveryStatus = seen.deliveryStatus
  /\ row.attemptCount = seen.attemptCount
  /\ row.claimedAt = seen.claimedAt

ClaimCandidate(w, c) ==
  /\ worker[w].at = "loop"
  /\ IsFirst(c, worker[w].todo)
  /\ \/ /\ Unchanged(alert[c.id], c.row)
        /\ alert' = [alert EXCEPT ![c.id] =
             [ deliveryStatus |-> "SENDING", attemptCount |-> @.attemptCount + 1,
               claimedAt |-> worker[w].now, updatedAt |-> now ]]
        /\ worker' = [worker EXCEPT ![w].at = "send", ![w].sending = c,
                                    ![w].todo = @ \ {c}]
     \/ /\ ~ Unchanged(alert[c.id], c.row)
        /\ worker' = [worker EXCEPT ![w].todo = @ \ {c}]
        /\ UNCHANGED alert
  /\ UNCHANGED <<now, line>>

Claim(w) == \E c \in worker[w].todo : ClaimCandidate(w, c)

\* provider.send, once per retry key: LINE answers 409 with the accepted
\* request for a key it knows, which counts as success.
KnownToLine(a) == line[a].broadcasts > 0 /\ now < line[a].since + KeyLife

Broadcast(a) ==
  IF KnownToLine(a) THEN line
  ELSE [line EXCEPT ![a] = [broadcasts |-> @.broadcasts + 1, since |-> now]]

\* Accepted, with the reply or without; or lost on the way; or refused.
Send(w) ==
  LET a == worker[w].sending.id
  IN
  /\ worker[w].at = "send"
  /\ \E reply \in Replies \ {"none"} :
       /\ worker' = [worker EXCEPT ![w].at = "mark", ![w].reply = reply]
       /\ \/ reply \in {"accepted", "retryable"} /\ line' = Broadcast(a)
          \/ reply \in {"retryable", "refused"} /\ UNCHANGED line
  /\ UNCHANGED <<now, alert>>

\* hardwareAlertFailureDisposition
Disposition(reply, attempts, t) ==
  IF reply = "refused" \/ attempts >= MaxAttempts \/ KeyExpired(t)
  THEN "MANUAL_REVIEW" ELSE "FAILED"

\* Faulty: stores LINE's answer.
Outcome_raw(reply, attempts, t) == reply

Outcome(reply, attempts, t) ==
  IF reply = "accepted" THEN "SENT" ELSE Disposition(reply, attempts, t)

\* Faulty: takes any claim of the row for the worker's own.
StillMine_anyClaim(row, t) == row.deliveryStatus = "SENDING"

\* The update that ends an attempt finds the worker's own claim.
StillMine(row, t) == row.deliveryStatus = "SENDING" /\ row.claimedAt = t

\* Success whose claim was lost throws, and ends the cycle.
Mark(w) ==
  LET c == worker[w].sending
      mine == StillMine(alert[c.id], worker[w].now)
      status == Outcome(worker[w].reply, c.row.attemptCount + 1, worker[w].now)
  IN
  /\ worker[w].at = "mark"
  /\ alert' = IF mine
              THEN [alert EXCEPT ![c.id].deliveryStatus = status,
                                 ![c.id].updatedAt = now]
              ELSE alert
  /\ worker' = [worker EXCEPT ![w] =
       IF worker[w].reply = "accepted" /\ ~ mine THEN Idle
       ELSE [@ EXCEPT !.at = "loop", !.sending = Nobody, !.reply = "none"]]
  /\ UNCHANGED <<now, line>>

Finish(w) ==
  /\ worker[w].at = "loop"
  /\ worker[w].todo = {}
  /\ worker' = [worker EXCEPT ![w] = Idle]
  /\ UNCHANGED <<now, alert, line>>

\* The process stops, or a database call throws.
Abort(w) ==
  /\ worker[w].at # "idle"
  /\ worker' = [worker EXCEPT ![w] = Idle]
  /\ UNCHANGED <<now, alert, line>>

Proceed(w) == SweepExhausted(w) \/ List(w) \/ Claim(w) \/ Send(w) \/ Mark(w) \/ Finish(w)

Tick ==
  /\ now < Horizon
  /\ \A w \in Workers : worker[w].at # "idle" => now < worker[w].now + MaxCycle
  /\ now' = now + 1
  /\ UNCHANGED <<alert, worker, line>>

Next ==
  \/ \E w \in Workers : StartDelivery(w) \/ Proceed(w) \/ Abort(w)
  \/ Tick

\* The loop of the server starts a cycle every thirty seconds, the job every
\* five minutes; a cycle goes on or ends, and time passes.
Fairness ==
  /\ \A w \in Workers : WF_vars(StartDelivery(w)) /\ WF_vars(Proceed(w))
  /\ WF_vars(Tick)

Spec == Init /\ [][Next]_vars /\ Fairness

-----------------------------------------------------------------------------
(* Properties *)

\* While its key is good an alert is broadcast at most once, although its
\* reply may be lost, its sender may stop, and others take over its claim and
\* send it too: every attempt carries the key of the row.  What is recorded as
\* sent was broadcast.
BroadcastOnceInTime ==
  \A a \in Alerts :
    /\ ~ KeyExpired(now) => line[a].broadcasts <= 1
    /\ alert[a].deliveryStatus = "SENT" => line[a].broadcasts > 0

\* A worker whose claim has gone stale and was taken over while it was sending
\* decides nothing about the alert any more: the mark, which compares times,
\* finds the row only in the attempt that its own claim has counted.
MarksOwnAttempt ==
  [][\A w \in Workers :
       Mark(w) /\ alert' # alert =>
         LET c == worker[w].sending
         IN alert[c.id].attemptCount = c.row.attemptCount + 1]_vars

\* How the owner's side sees a row.
Verdict(status) ==
  CASE status = "SENT" -> "sent"
    [] status = "MANUAL_REVIEW" -> "left"
    [] OTHER -> "open"

Promise == INSTANCE Notice WITH
  Messages <- Alerts,
  heard <- [a \in Alerts |-> line[a].broadcasts],
  verdict <- [a \in Alerts |-> Verdict(alert[a].deliveryStatus)],
  expired <- {a \in Alerts : KeyExpired(now)},
  underway <- {a \in Alerts : \E w \in Workers :
                 worker[w].at # "idle" /\ ~ KeyExpired(worker[w].now)}

\* Every step of a worker is a step of Notice or does not show: the owner
\* hears of an alert once while its key is good, and later again only from a
\* cycle that has outlasted it; and what its row once says of it is final,
\* whatever other workers listed or claimed earlier.
KeepsPromise == Promise!Spec

\* Every alert is delivered or left to a person in the end, although workers
\* may stop at any step and LINE may fail every time.
EveryAlertIsSettled ==
  \A a \in Alerts : <>(alert[a].deliveryStatus \in Final)
=============================================================================
