SPECIFICATION Spec
CONSTANTS
  PassCount = 2
  MaxUpdates = 1
  MaxFaults = 0
  MaxGenerations = 1
  None = None
  NoColour = NoColour
INVARIANT OverlayIsWhatWasRecorded
