SPECIFICATION Spec
CONSTANTS
  Byte = {0, 1}
  BlockSize = 2
  NBlocks = 3
  Para = 1
  Word <- MCWord
  MaxLen = 4
  MaxPtr = 2
  Data <- MCData
  Backings <- MCBackings
  HasRead = TRUE
  HasWrite = FALSE
  Diffing = TRUE
  MaxAccesses = 2
  Direct <- MCDirect
INVARIANTS MemTypeOK BlockBounds FlatRead FlatWrite RefExact ChangesAreFlagged
CHECK_DEADLOCK FALSE
