SPECIFICATION AppSpec
CONSTANTS
  MaxWidth = 2
  MaxHeight = 1
  Capacity = 2
  Geometries <- MCGeometries
  WireRects <- MCWireRects
  MaxRects = 2
  MaxUpdates = 3
  MaxRequests = 2
  MaxRowPixels = 2
  MaxFramePixels = 2
  DisplayWidth = 2
  DisplayHeight = 1
INVARIANTS
  NoTornScreen ScreenCurrent OneRequestInFlight NothingLeaked
PROPERTIES
  SessionRefined FailureConverges UpdateIsShown
