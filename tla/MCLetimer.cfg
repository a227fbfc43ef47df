SPECIFICATION FairSpec
CONSTANTS
  CLOCK_FREQ = 4000
  PRESCALER_VALUE = 4
  LETIMER_PERIOD_MS = 9
  Waits <- MCWaits
  MaxLatency = 2
  ROLLOVER_MODULUS = 3
INVARIANTS TypeOK WaitIsExact
PROPERTIES UnderflowsAreCounted WaitEnds
