\* Two evaluators; a heartbeat or a cycle may be under way for a minute.
SPECIFICATION Spec
CONSTANTS
  Evaluators = {loop, cron}
  Threshold = 2
  Confirmation = 2
  MaxGap = 1
  Tolerance = 2
  Skews <- MCSkews
  MaxDelay = 1
  Horizon = 6
SYMMETRY Symmetry
INVARIANT TypeOK
INVARIANT OneAlertPerOutage
INVARIANT OfflineAfterWatchedSilence
INVARIANT NoFalseAlarm
CHECK_DEADLOCK FALSE
