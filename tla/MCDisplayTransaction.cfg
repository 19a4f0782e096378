SPECIFICATION Spec
CONSTANTS
  Modes = {m1, m2}
  Hires = {m1}
  DefaultMode = m1
  Fits = {f1, full}
  Full = full
  None = None
  MaxFaults = 2
INVARIANTS
  RecordFirst LiveCoherent
PROPERTIES
  OnlyTheKeptIsConfirmed OperatorToldTheTruth StartRestores
