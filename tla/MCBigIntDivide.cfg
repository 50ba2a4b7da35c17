SPECIFICATION BigSpec
CONSTANTS
  LimbBits = 2
  Words = {0, 1, 7}
  Exponents = {1, 2, 3}
  MaxMagnitude = 40
INVARIANT DivisionExact
CHECK_DEADLOCK FALSE
