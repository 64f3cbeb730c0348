SPECIFICATION Spec
CONSTANTS
  Top = 8
  Programs <- MCPrograms
  RegFiles <- MCRegFiles
  SegFiles <- MCSegFiles
  Holes <- MCHoles
  Roms <- MCRoms
INVARIANTS AddressExact MovesExact FaultsContained StackRestores
CHECK_DEADLOCK FALSE
