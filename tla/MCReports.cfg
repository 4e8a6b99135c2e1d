\* Two jobs; a claim is stale after one unit.  A run may last longer, and
\* beyond the life of a key, which LINE forgets when the code does.
SPECIFICATION Spec
CONSTANTS
  Jobs = {scheduled, manual}
  Type = "WEEKLY"
  AsOf <- MCAsOf
  Sales <- MCSales
  LateSale <- MCLateSale
  Ttl = 1
  Validity = 2
  KeyLife = 2
  NextPeriod = 3
  MaxRun = 2
  Nothing = Nothing
  Horizon = 4
INVARIANT TypeOK
INVARIANT OwnerSawTheLedger
INVARIANT ReportsAddUp
PROPERTY KeepsPromise
PROPERTY EveryClaimIsSettled
