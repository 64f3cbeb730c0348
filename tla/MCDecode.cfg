SPECIFICATION Spec
CONSTANTS
  Size = 4
  Codes <- MCCodes
  Holes <- MCHoles
  Extra <- MCExtra
INVARIANTS TypeOK PrefixesLocal CommitExact ZeroesCaught
