SPECIFICATION ButtonSpec
CONSTANTS
  Bits = 6
  Old = 2
  New = 2
  Bounce = 2
  Long = 7
  Repeat = 2
  Window = 16
  Needed = 3
  Wrap = 36
  MaxLate = 2
  MaxTime = 54
INVARIANTS
  Debounced
  PressesRestart
CHECK_DEADLOCK FALSE
