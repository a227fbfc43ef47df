SPECIFICATION Spec
CONSTANTS
  QUEUE_DEPTH = 2
  Temperatures = {t1}
  MaxInbox = 2
  Interrupts <- ButtonInterrupts
  ClientPairs = TRUE
  Blank = Blank
  None = None
INVARIANT NullIsChecked
