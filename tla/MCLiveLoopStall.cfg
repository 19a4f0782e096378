CONSTANTS
  MaxAttempts = 2
  Modes = {"480p", "720p"}
SPECIFICATION Spec
PROPERTY StallEnds
