---------------------------- MODULE OwnerReport ----------------------------
(***************************************************************************)
(* The delivery of one sales report to the owner (owner-report.service.ts) *)
(* by jobs that may overlap, stop, or be run again by hand.  The ledger    *)
(* row of the report is what they coordinate by.  Each database call is a  *)
(* step, and so is each statement of the claiming transaction, which runs  *)
(* at the default isolation level.                                         *)
(*                                                                         *)
(* Sales are confirmed while jobs run, so two jobs may compute different   *)
(* reports of the same period.  A job takes the time once; nothing bounds  *)
(* how long it runs.                                                       *)
(***************************************************************************)
EXTENDS SalesReport

CONSTANTS
  Jobs,        \* processes that can run at the same time
  Type,        \* the report's type: DAILY or WEEKLY
  AsOf,        \* the hour it is derived from
  Sales,       \* the sales that are made
  LateSale,    \* the one of them that is confirmed while jobs run, or never
  Ttl,         \* DELIVERY_CLAIM_TTL_MS
  Validity,    \* LINE_RETRY_KEY_VALIDITY_MS
  KeyLife,     \* how long LINE recognises a key
  NextPeriod,  \* from when on the schedule derives another report
  MaxRun,      \* bound: the longest run of a job
  Nothing,     \* the absent row, key or report
  Horizon      \* bound: time stops here, when a key has expired

ASSUME ReportAssumption ==
  /\ Type \in ReportTypes
  /\ LateSale \in Sales
  /\ {Ttl, Validity, KeyLife, NextPeriod, MaxRun, Horizon} \subseteq Nat
  /\ 0 < Validity /\ Validity <= KeyLife   \* 24 hours, both of them

\* Amounts are whole satang.
ASSUME SaleAssumption ==
  /\ AsOf \in Int
  /\ IsFiniteSet(Sales)
  /\ \A s \in Sales : s.satang \in Nat /\ s.paidAt \in Int

VARIABLES
  now,      \* the clock, in units of its own
  sold,     \* the sales confirmed so far
  row,      \* the row of SalesReportDelivery, or Nothing
  job,      \* the runs in progress
  accepted  \* LINE: what it has broadcast: key, report and time

vars == <<now, sold, row, job, accepted>>

-----------------------------------------------------------------------------
(* Types *)

Moment == 0 .. Horizon

Final == {"SENT", "MANUAL_REVIEW"}

\* A retry key is named by the job whose claim created it.
Row ==
  [ status    : Final \union {"SENDING", "FAILED"},
    claimedAt : Moment,
    createdAt : Moment,
    retryKey  : Jobs,
    payload   : SUBSET Sales ]

Awaits == {"idle", "claim", "create", "review", "take", "collect", "send", "mark"}

\* at: the await a job has reached; now: the time it took; seen: the row as it
\* read it; payload: the report it has computed; reply: LINE's.
Run ==
  [ at      : Awaits,
    now     : Moment,
    seen    : {Nothing} \union Row,
    payload : {Nothing} \union SUBSET Sales,
    reply   : {"none", "accepted", "retryable", "refused"} ]

Idle == [at |-> "idle", now |-> 0, seen |-> Nothing, payload |-> Nothing, reply |-> "none"]

ASSUME NothingAssumption ==
  Nothing \notin Row /\ \A sales \in SUBSET Sales : sales # Nothing

TypeOK ==
  /\ now \in Moment
  /\ sold \in SUBSET Sales
  /\ row \in {Nothing} \union Row
  /\ job \in [Jobs -> Run]
  /\ accepted \subseteq [retryKey : Jobs, payload : SUBSET Sales, at : Moment]

Init ==
  /\ now = 0
  /\ sold = Sales \ {LateSale}
  /\ row = Nothing
  /\ job = [j \in Jobs |-> Idle]
  /\ accepted = {}

-----------------------------------------------------------------------------
\* A late webhook or poll confirms a sale; bound: one.
ConfirmSale ==
  /\ LateSale \notin sold
  /\ sold' = sold \union {LateSale}
  /\ UNCHANGED <<now, row, job, accepted>>

ReportPeriod == Period(Type, AsOf)

\* Faulty: leaves what some job died with.
Unresolved_failed == {"FAILED"}

Unresolved == {"SENDING", "FAILED"}

KeyExpired(r, t) == r.createdAt + Validity <= t

\* Takes the time, and moves every delivery with an expired key to review.
\* A run of a later period does this too, and goes on with its own report.
Start(j) ==
  /\ job[j].at = "idle"
  /\ job' = IF now < NextPeriod
            THEN [job EXCEPT ![j] = [Idle EXCEPT !.at = "claim", !.now = now]] ELSE job
  /\ row' = IF row # Nothing /\ row.status \in Unresolved /\ KeyExpired(row, now)
            THEN [row EXCEPT !.status = "MANUAL_REVIEW"] ELSE row
  /\ UNCHANGED <<now, sold, accepted>>

StaleClaim(r, t) == r.status = "SENDING" /\ r.claimedAt + Ttl <= t

\* The first statement of the claim, and what it makes of the row.  A job
\* that meets a row that is sent, in review or busy ends.
ReadClaim(j) ==
  LET t == job[j].now
      go(at) == job' = [job EXCEPT ![j].at = at, ![j].seen = row]
  IN
  /\ job[j].at = "claim"
  /\ \/ row = Nothing /\ job[j].payload = Nothing /\ go("collect")
     \/ row = Nothing /\ job[j].payload # Nothing /\ go("create")
     \/ /\ row # Nothing
        /\ \/ row.status \in Final
           \/ row.status = "SENDING" /\ ~ StaleClaim(row, t)
        /\ job' = [job EXCEPT ![j] = Idle]
     \/ /\ row # Nothing
        /\ row.status = "FAILED" \/ StaleClaim(row, t)
        /\ IF KeyExpired(row, t) THEN go("review") ELSE go("take")
  /\ UNCHANGED <<now, sold, row, accepted>>

\* listTransactions, aggregation and layout: the report is a function of the
\* sales it covers (Aggregate), which stand for it here.
Collect(j) ==
  /\ job[j].at = "collect"
  /\ job' = [job EXCEPT ![j].at = "claim",
                        ![j].payload = Reportable(sold, ReportPeriod)]
  /\ UNCHANGED <<now, sold, row, accepted>>

\* Faulty: replaces the row another job has created.
RowIsFree_assumed == TRUE

RowIsFree == row = Nothing

\* The insertion; against a row that has appeared meanwhile it fails (P2002)
\* and the claim is made again, without the report.
CreateRow(j) ==
  LET fresh == [ status |-> "SENDING", claimedAt |-> job[j].now,
                 createdAt |-> job[j].now, retryKey |-> j,
                 payload |-> job[j].payload ]
  IN
  /\ job[j].at = "create"
  /\ \/ /\ RowIsFree
        /\ row' = fresh
        /\ job' = [job EXCEPT ![j].at = "send", ![j].seen = fresh]
     \/ /\ ~ RowIsFree
        /\ job' = [job EXCEPT ![j].at = "claim", ![j].payload = Nothing]
        /\ UNCHANGED row
  /\ UNCHANGED <<now, sold, accepted>>

\* The update to MANUAL_REVIEW finds the row as it was read, or throws.
ReviewExpired(j) ==
  /\ job[j].at = "review"
  /\ row' = IF row.status = job[j].seen.status /\ row.claimedAt = job[j].seen.claimedAt
            THEN [row EXCEPT !.status = "MANUAL_REVIEW"] ELSE row
  /\ job' = [job EXCEPT ![j] = Idle]
  /\ UNCHANGED <<now, sold, accepted>>

\* The conditional update of the claim.
Claimable(r, t) == r.status = "FAILED" \/ StaleClaim(r, t)

TakeClaim(j) ==
  /\ job[j].at = "take"
  /\ \/ /\ Claimable(row, job[j].now)
        /\ row' = [row EXCEPT !.status = "SENDING", !.claimedAt = job[j].now]
        /\ job' = [job EXCEPT ![j].at = "send"]
     \/ /\ ~ Claimable(row, job[j].now)                       \* BUSY
        /\ job' = [job EXCEPT ![j] = Idle]
        /\ UNCHANGED row
  /\ UNCHANGED <<now, sold, accepted>>

\* Faulty: every run makes a key of its own.
KeyOf_ownKey(j) == j

\* The key and the report of the ledger, as the claim returned them.
KeyOf(j) == job[j].seen.retryKey

\* LINE broadcasts a request whose key it does not know.
KnownToLine(key) == \E b \in accepted : b.retryKey = key /\ now < b.at + KeyLife

Broadcast(j) ==
  IF KnownToLine(KeyOf(j)) THEN accepted
  ELSE accepted \union {[retryKey |-> KeyOf(j), payload |-> job[j].seen.payload, at |-> now]}

\* Accepted, with the reply or without (a timeout); or lost; or refused.
Send(j) ==
  /\ job[j].at = "send"
  /\ \E reply \in {"accepted", "retryable", "refused"} :
       /\ job' = [job EXCEPT ![j].at = "mark", ![j].reply = reply]
       /\ \/ reply \in {"accepted", "retryable"} /\ accepted' = Broadcast(j)
          \/ reply \in {"retryable", "refused"} /\ UNCHANGED accepted
  /\ UNCHANGED <<now, sold, row>>

\* Faulty: marks whatever has become of the row.
Markable_always(r) == TRUE

\* The marks are conditional on SENDING alone: they may meet the claim of
\* another job.
Markable(r) == r.status = "SENDING"

\* Faulty: stores LINE's answer.
MarkFor_raw(reply) == reply

MarkFor(reply) ==
  CASE reply = "accepted"  -> "SENT"
    [] reply = "retryable" -> "FAILED"
    [] reply = "refused"   -> "MANUAL_REVIEW"

Mark(j) ==
  /\ job[j].at = "mark"
  /\ row' = IF Markable(row) THEN [row EXCEPT !.status = MarkFor(job[j].reply)] ELSE row
  /\ job' = [job EXCEPT ![j] = Idle]
  /\ UNCHANGED <<now, sold, accepted>>

\* The process stops, or a database call throws.
Abort(j) ==
  /\ job[j].at # "idle"
  /\ job' = [job EXCEPT ![j] = Idle]
  /\ UNCHANGED <<now, sold, row, accepted>>

Proceed(j) ==
  \/ ReadClaim(j) \/ Collect(j) \/ CreateRow(j) \/ ReviewExpired(j)
  \/ TakeClaim(j) \/ Send(j) \/ Mark(j)

Tick ==
  /\ now < Horizon
  /\ \A j \in Jobs : job[j].at # "idle" => now < job[j].now + MaxRun
  /\ now' = now + 1
  /\ UNCHANGED <<sold, row, job, accepted>>

Next ==
  \/ ConfirmSale
  \/ \E j \in Jobs : Start(j) \/ Proceed(j) \/ Abort(j)
  \/ Tick

\* The schedule starts jobs day after day, and each sweeps the whole ledger.
Fairness ==
  /\ \A j \in Jobs : WF_vars(Start(j)) /\ WF_vars(Proceed(j))
  /\ WF_vars(Tick)

Spec == Init /\ [][Next]_vars /\ Fairness

-----------------------------------------------------------------------------
(* Properties *)

\* What the owner receives is what the ledger keeps, although another job may
\* have computed another report of the same period, and what the ledger calls
\* sent was received.  While the key is good the owner receives it once,
\* although jobs overlap, stop and take over each other's claims, and replies
\* are lost; a run that began before the key had run out may repeat it after.
OwnerSawTheLedger ==
  /\ \A b \in accepted :
       /\ row # Nothing
       /\ b.retryKey = row.retryKey
       /\ b.payload = row.payload
  /\ row # Nothing /\ row.status = "SENT" => accepted # {}
  /\ Cardinality(accepted) > 1 => KeyExpired(row, now)

\* How the owner's side sees the row.
Verdict ==
  CASE row # Nothing /\ row.status = "SENT" -> "sent"
    [] row # Nothing /\ row.status = "MANUAL_REVIEW" -> "left"
    [] OTHER -> "open"

Promise == INSTANCE Notice WITH
  Messages <- {Type},
  heard <- [m \in {Type} |-> Cardinality(accepted)],
  verdict <- [m \in {Type} |-> Verdict],
  expired <- {m \in {Type} : row # Nothing /\ KeyExpired(row, now)},
  underway <- {m \in {Type} : \E j \in Jobs :
                 /\ job[j].at # "idle"
                 /\ row = Nothing \/ ~ KeyExpired(row, job[j].now)}

\* Every step of a job is a step of Notice or does not show: the owner hears
\* the report once while its key is good, and later again only from a run that
\* has outlasted it; and what its row once says of it is final, whatever other
\* jobs read or claimed earlier.
KeepsPromise == Promise!Spec

\* A claimed report is sent or left to a person in the end, although its job
\* may have stopped anywhere: a later run sweeps it when its key has expired.
EveryClaimIsSettled ==
  row # Nothing ~> row # Nothing /\ row.status \in Final

\* The week that the weekly report of AsOf covers, and its days as the daily
\* reports of the following mornings see them.
ReportedWeek == Period("WEEKLY", AsOf)

ReportedDay(d) == Period("DAILY", ReportedWeek.start + (d + 1) * Day + 8)

SumOf(buckets) ==
  [ revenueSatang |-> FoldFunction(+, 0, [b \in DOMAIN buckets |-> buckets[b].revenueSatang]),
    units |-> FoldFunction(+, 0, [b \in DOMAIN buckets |-> buckets[b].units]) ]

AddUp(sales) ==
  LET weekly == Aggregate("WEEKLY", sales, ReportedWeek)
      daily(d) == Aggregate("DAILY", sales, ReportedDay(d))
  IN /\ SumOf(weekly.weekdays) = weekly.total
     /\ SumOf(weekly.timeBands) = weekly.total
     /\ \A d \in 0 .. 6 : /\ daily(d).total = weekly.weekdays[d]
                           /\ SumOf(daily(d).timeBands) = daily(d).total

\* The daily reports of a week, each run on the following morning, and the
\* weekly report account for the same sales, each once: the weekdays of the
\* weekly report are the days' totals, and the time bands of every report,
\* the one around midnight included, add up to its total.  It is looked at
\* before the first job, for every set of the sales.
ReportsAddUp ==
  now = 0 /\ row = Nothing /\ (\A j \in Jobs : job[j] = Idle) =>
    \A sales \in SUBSET sold : AddUp(sales)
=============================================================================
