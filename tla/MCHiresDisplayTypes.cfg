SPECIFICATION Spec
CONSTANTS
  PassCount = 2
  MaxUpdates = 2
  MaxFaults = 1
  MaxGenerations = 1
  None = None
  NoColour = NoColour
INVARIANT DisplayInv
