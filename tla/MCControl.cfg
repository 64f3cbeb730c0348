SPECIFICATION Spec
CONSTANTS
  Word <- MCWord
  MagicCS = 3
  MagicIP = 3
  HleCS = 2
  Handlers = {0}
  Settable = {1}
  GuestCode <- MCGuestCode
  Ints = {0, 1, 2, 3}
  DivideInt = 1
  Reset <- MCReset
  Vectors <- MCVectors
  InstrErrors = {"halt"}
  BadVecIP = {3}
  BadVecCS = {2}
  FlagVals = {2}
  RegVals = {0}
  ClearIT <- MCClearIT
  PopfMask <- MCPopfMask
  Size = 6
  Unmappable <- MCUnmappable
  StartSP = {0}
INVARIANTS TypeOK FramesIntact StackBalanced CallsUnwound
PROPERTIES Implements
CHECK_DEADLOCK FALSE
