SPECIFICATION Spec
CONSTANTS
  Modes = {a, b}
  FirstMode = a
  None = None
  Grips <- MCGrips
  Settle = 1
  Extendable = 2
  Hold = 3
  MaxEvents = 5
PROPERTY ChordUntilReleased
CHECK_DEADLOCK FALSE
