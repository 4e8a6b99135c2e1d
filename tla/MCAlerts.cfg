\* Two workers and one alert.  A cycle may last longer than a claim and beyond
\* the life of a key, which LINE forgets when the code does.
SPECIFICATION Spec
CONSTANTS
  Workers = {loop, cron}
  Alerts = {1}
  MaxAttempts = 3
  Stale = 1
  Validity = 3
  KeyLife = 3
  MaxCycle = 2
  Horizon = 5
INVARIANT TypeOK
PROPERTY KeepsPromise
PROPERTY MarksOwnAttempt
PROPERTY EveryAlertIsSettled
