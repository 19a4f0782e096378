SPECIFICATION Spec
CONSTANTS
  Descriptors = {3, 4}
  BufferSize = 2
  MaxCount = 3
  MaxConnections = 2
  MaxBytes = 5
PROPERTY StreamImplemented
