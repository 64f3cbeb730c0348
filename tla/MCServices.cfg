SPECIFICATION Spec
CONSTANTS
  Cols = 4
  Rows = 3
  SectorSize = 4
  NCyl = 2
  NHead = 2
  SPT = 3
  Floppies <- MCFloppies
  Greeting <- MCGreeting
  BootError <- MCBootError
  Clocks <- MCClocks
  BlockSize = 256
  SegSpan = 1024
  FileHandles = 5
  Names <- MCNames
  Guests <- MCGuests
  Calls <- MCCalls
INVARIANTS LoadExact
PROPERTIES ScreenContained ReadsReported HandlesExact
CHECK_DEADLOCK FALSE
