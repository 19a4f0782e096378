SPECIFICATION Spec
CONSTANTS
  PassCount = 2
  MaxUpdates = 2
  MaxFaults = 1
  MaxGenerations = 1
  None = None
  NoColour = NoColour
INVARIANTS
  MemoryOwned FrameIsServers BuffersAgree MappingIsExact HextileIsTheProtocols ModesFit
PROPERTY KeepsShowing
