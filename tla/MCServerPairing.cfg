SPECIFICATION FairSpec
CONSTANTS
  QUEUE_DEPTH = 2
  Temperatures = {t1}
  MaxInbox = 3
  Interrupts <- ButtonInterrupts
  ClientPairs = TRUE
  Blank = Blank
  None = None
INVARIANTS TypeOK FlagsFollowStack OutputsFollowFlags PromptEndsWithPairing
PROPERTY FailedPairingCloses
