SPECIFICATION Spec
CONSTANTS
  Bits <- MCBits
  Programs <- MCPrograms
  Operands <- MCOperands
  Counts = {0, 1, 2, 7, 8, 9, 17, 31, 33}
INVARIANTS WideSums OrderDecided FlagsDescribe ShiftsExact DivisionExact DecimalExact
CHECK_DEADLOCK FALSE
