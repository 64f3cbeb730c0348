SPECIFICATION Spec
CONSTANTS
  Byte = {0, 1, 2, 3, 4}
  Wrap = 8
  High = 2
  Para = 4
  Segs = {0, 1}
  Offsets = {1, 2, 15}
  Counts = {0, 4}
  Memories <- MCMemories
  Accs <- MCAccs
  Holes <- MCHoles
  Steps = {1, 2}
  PortBytes = {3, 4}
INVARIANTS StringTypeOK Accounted WritesExact PatternRepeats RepeatEnds ReadsInOrder
CHECK_DEADLOCK FALSE
