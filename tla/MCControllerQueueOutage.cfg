CONSTANTS
  Capacity = 2
  MaxMessages = 2
  MaxSessions = 2
SPECIFICATION Spec
INVARIANT NoInputAcrossOutage
