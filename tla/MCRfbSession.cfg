SPECIFICATION SessionSpec
CONSTANTS
  MaxWidth = 3
  MaxHeight = 3
  Capacity = 6
  Geometries <- MCGeometries
  WireRects <- MCWireRects
  MaxRects = 3
  MaxUpdates = 2
  MaxRequests = 1
  MaxRowPixels = 2
  MaxFramePixels = 4
INVARIANTS
  NoTornAuthority FreshAuthority RowsInBounds
PROPERTIES
  AuthorityFromOneFrame
