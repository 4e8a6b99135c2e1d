---------------------------- MODULE SalesReport ----------------------------
(***************************************************************************)
(* The arithmetic of the owner's reports (sales-report.ts): which sales a  *)
(* daily or weekly report covers, and how they are added up.  Times are    *)
(* whole hours of UTC counted from a Monday 00:00; the reports are in the  *)
(* local time of Bangkok, seven hours ahead.                               *)
(***************************************************************************)
EXTENDS Integers, FiniteSetsExt

BangkokOffset == 7
Day == 24
Week == 7 * Day

ReportTypes == {"DAILY", "WEEKLY"}

Local(t) == t + BangkokOffset

\* The local midnight before t, in UTC.
TodayStart(t) == (Local(t) \div Day) * Day - BangkokOffset

\* Days since the local Monday; Sunday is 6.
Weekday(t) == (Local(t) \div Day) % 7

Period(type, t) ==
  LET end == IF type = "DAILY" THEN TodayStart(t)
             ELSE TodayStart(t) - Weekday(t) * Day
  IN [start |-> end - (IF type = "DAILY" THEN Day ELSE Week), end |-> end]

\* Faulty: counts the first moment of the next period too.
Within_inclusive(s, period) == period.start <= s.paidAt /\ s.paidAt <= period.end

Within(s, period) == period.start <= s.paidAt /\ s.paidAt < period.end

\* A sale that the customer had abandoned is not reported.
IsReportable(s) == s.satang > 0 /\ ~ s.cancelled

Reportable(sales, period) == {s \in sales : IsReportable(s) /\ Within(s, period)}

Revenue(sales) == MapThenSumSet(LAMBDA s : s.satang, sales)

Bucket(sales) == [revenueSatang |-> Revenue(sales), units |-> Cardinality(sales)]

LocalHour(t) == Local(t) % Day

TimeBand(t) ==
  CASE LocalHour(t) \in 6 .. 9   -> 0
    [] LocalHour(t) \in 10 .. 13 -> 1
    [] LocalHour(t) \in 14 .. 17 -> 2
    [] LocalHour(t) \in 18 .. 21 -> 3
    [] OTHER -> 4

TimeBands(sales) == [band \in 0 .. 4 |-> Bucket({s \in sales : TimeBand(s.paidAt) = band})]

Weekdays(sales) == [day \in 0 .. 6 |-> Bucket({s \in sales : Weekday(s.paidAt) = day})]

\* aggregateDailySales and aggregateWeeklySales; the ranking of the products
\* and the best hours and days are left out.
Aggregate(type, source, period) ==
  LET sales == Reportable(source, period)
  IN [ total     |-> Bucket(sales),
       timeBands |-> TimeBands(sales),
       weekdays  |-> IF type = "WEEKLY" THEN Weekdays(sales) ELSE <<>> ]
=============================================================================
