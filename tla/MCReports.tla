------------------------------ MODULE MCReports ------------------------------
\* The instance of OwnerReport that TLC checks: the weekly report of Monday
\* 08:00 in Bangkok (hour 169), and sales at the edges of its days: the first
\* hour of the week, the hour after the first midnight, the hour in which the
\* next week begins, and one that its customer had abandoned.
EXTENDS OwnerReport

MCAsOf == 169

Sale(id, satang, paidAt, cancelled) ==
  [id |-> id, satang |-> satang, paidAt |-> paidAt, cancelled |-> cancelled]

MCLateSale == Sale(2, 2000, 17, FALSE)

MCSales ==
  { Sale(1, 1500, -7, FALSE), Sale(2, 2000, 17, FALSE), Sale(3, 1500, 161, FALSE),
    Sale(4, 2000, 40, TRUE) }
==============================================================================
