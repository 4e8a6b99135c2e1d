------------------------------ MODULE AlertInv ------------------------------
(***************************************************************************)
(* The inductive invariant of AlertDelivery: what a worker may rely on     *)
(* between its claim and its mark, and what has become of its claim if the *)
(* cycle has outlasted it.                                                 *)
(***************************************************************************)
EXTENDS AlertDelivery

\* A cycle began in the past, and handles an alert only if the alert's key was
\* good then.
CycleInv ==
  \A w \in Workers :
    /\ worker[w].at # "idle" => worker[w].now <= now
    /\ worker[w].at \in {"send", "mark"} \/ worker[w].todo # {} =>
         ~ KeyExpired(worker[w].now)

\* A row is claimed, then updated; none of it lies ahead.
RowInv ==
  \A a \in Alerts :
    /\ alert[a].claimedAt <= alert[a].updatedAt
    /\ alert[a].updatedAt <= now

\* Only what was due when the cycle began is on its list.
ListInv ==
  \A w \in Workers : \A c \in worker[w].todo :
    /\ worker[w].at # "idle"
    /\ Due(c.row, worker[w].now)
    /\ c.row.claimedAt <= c.row.updatedAt

Sending(w) == worker[w].at \in {"send", "mark"}

\* The row keeps the claim of x, unless a sweep has left the alert to a person.
Holds(row, x) ==
  /\ row.attemptCount = x.sending.row.attemptCount + 1
  /\ row.claimedAt = x.now
  /\ row.deliveryStatus \in {"SENDING", "MANUAL_REVIEW"}

\* The claim of x has been taken over: the time of the row is a later one.
TakenOver(row, x) ==
  /\ row.attemptCount > x.sending.row.attemptCount + 1
  /\ row.claimedAt > x.now
  /\ row.deliveryStatus # "PENDING"

HoldInv ==
  \A w \in Workers : Sending(w) =>
    LET c == worker[w].sending IN
    /\ c \in Candidate
    /\ Holds(alert[c.id], worker[w]) \/ TakenOver(alert[c.id], worker[w])

\* Several workers may be sending one alert, but each in an attempt of its own.
OneAttemptEach ==
  \A v, w \in Workers :
    /\ Sending(v) /\ Sending(w)
    /\ worker[v].sending.id = worker[w].sending.id
    /\ worker[v].sending.row.attemptCount = worker[w].sending.row.attemptCount
    => v = w

\* What LINE has confirmed was broadcast.
ReplyInv ==
  \A w \in Workers :
    worker[w].at = "mark" /\ worker[w].reply = "accepted" =>
      line[worker[w].sending.id].broadcasts > 0

IInv ==
  /\ TypeOK
  /\ CycleInv /\ RowInv /\ ListInv /\ HoldInv /\ ReplyInv
  /\ OneAttemptEach /\ BroadcastOnceInTime
=============================================================================
