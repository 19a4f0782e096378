CONSTANTS
  MaxAttempts = 2
  Modes = {"480p", "720p", "1080i"}
SPECIFICATION Spec
INVARIANTS
  CandidateOwnsFailures
  ShowsTheConfirmed
PROPERTIES
  OneRequestAtATime
  LocalCandidateDecided
  ExitHonoured
