SPECIFICATION FairSpec
CONSTANTS
  QUEUE_DEPTH = 2
  Temperatures = {t1}
  MaxInbox = 2
  Interrupts <- SensorInterrupts
  ClientPairs = FALSE
  Blank = Blank
  None = None
INVARIANT InFlightIsExplained
PROPERTIES ImplementsMachine AdvertisesAgain
