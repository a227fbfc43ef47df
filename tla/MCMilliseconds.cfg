SPECIFICATION Spec
CONSTANTS
  CLOCK_FREQ = 32768
  PRESCALER_VALUE = 4
  LETIMER_PERIOD_MS = 3000
  Waits <- SensorWaits
  MaxLatency = 1
  ROLLOVER_MODULUS = 4
PROPERTY MillisecondsFollowTheClock
