SPECIFICATION Spec
CONSTANTS
  KeyBufferSize = 3
  ByteRange = 256
  Uis = {"tty", "sdl"}
  Chars <- MCChars
  Syms <- MCSyms
  MaxEvents = 2
  MaxPresses = 5
INVARIANTS TypeOK OneRedraw
PROPERTIES KeysInOrder PeekedIsPopped KeyWakesGuest
CHECK_DEADLOCK FALSE
