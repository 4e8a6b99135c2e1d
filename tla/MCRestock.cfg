SPECIFICATION Spec
CONSTANTS
  Slots = {s1}
  Nil = Nil
  ClockSize = 3
  PulseTicks = 2
  MaxCalls = 2
  Horizon = 4
  SessionEnd = 3
  GrantTTL = 2
  MaxGrantTTL = 2
  PiLag = 0
  ServeTime = 1
INVARIANT TypeOK
INVARIANT PulseIsBounded
INVARIANT GrantOpensOnce
PROPERTY NoSecondPulse
PROPERTY NothingOpensLate
