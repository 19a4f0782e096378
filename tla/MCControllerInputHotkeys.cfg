SPECIFICATION Spec
CONSTANTS
  Modes = {a, b}
  FirstMode = a
  None = None
  Grips <- ChordGrips
  Settle = 1
  Extendable = 2
  Hold = 3
  MaxEvents = 5
PROPERTY HotkeysAreDesktops
CHECK_DEADLOCK FALSE
