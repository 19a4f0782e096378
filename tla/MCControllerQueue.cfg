CONSTANTS
  Capacity = 2
  MaxMessages = 4
  MaxSessions = 3
SPECIFICATION Spec
INVARIANTS
  PadExclusive
  QuietWhileOwned
  InputInOrder
PROPERTIES
  ControllerGoesOn
