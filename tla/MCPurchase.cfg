SPECIFICATION FairSpec
CONSTANTS
  Slots = {s1}
  Transactions = {1, 2}
  Nil = Nil
  MaxReloads = 1
  MaxRestarts = 1
INVARIANT TypeOK
INVARIANT OpensOnceForASale
INVARIANT ScreenTellsTheTruth
INVARIANT MarkBeforeCommand
INVARIANT OneDoorPerItem
PROPERTY PaidIsConcluded
\* The assistance screen has no way out but a reload, and reloads are bounded.
CHECK_DEADLOCK FALSE
