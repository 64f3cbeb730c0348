SPECIFICATION Spec
CONSTANTS
  Top = 8
  Programs <- MCPrograms
  RegFiles <- MCRegFiles
  SegFiles <- MCSegFiles
  Holes <- MCHoles
  Roms <- MCRoms
INVARIANT RefsHold21Bits
CHECK_DEADLOCK FALSE
