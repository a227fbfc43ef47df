SPECIFICATION FairSpec
INVARIANTS TypeOK EM1HeldForTransfer WakeupBelongsToWait
PROPERTIES NoTransferOverrun ReportIsFresh StallHasCause StallIsForever
  MeasuresPeriodically
