SPECIFICATION Spec
CONSTANTS
  KeyBufferSize = 3
  ByteRange = 256
  Uis = {"tty", "sdl"}
  Chars <- MCChars
  Syms <- MCSyms
  MaxEvents = 2
  MaxPresses = 5
PROPERTIES PopRemoves
CHECK_DEADLOCK FALSE
