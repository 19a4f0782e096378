SPECIFICATION Spec
CONSTANTS
  Modes = {a, b}
  FirstMode = a
  None = None
  Grips <- MCGrips
  Settle = 1
  Extendable = 2
  Hold = 3
  MaxEvents = 5
INVARIANT KeepIsDeliberate
PROPERTIES ButtonsAccounted LocalPressesStayLocal ChordIsSpent OneTransaction
CHECK_DEADLOCK FALSE
