SPECIFICATION Spec
CONSTANTS
  QUEUE_DEPTH = 4
  MAX_BUFFER_LENGTH = 5
  MIN_BUFFER_LENGTH = 1
  Data <- MCData
  Blank = Blank
INVARIANTS TypeOK RingConsistent
PROPERTY ImplementsFifo
