SPECIFICATION Spec
CONSTANTS
  BufferSize = 3
  MaxEvents = 7
  MaxFailures = 2
  MaxRuns = 2
INVARIANTS
  LossesAccounted
  MemoryBounded
PROPERTIES
  ImplementsLossyLog
  ExitLosesOnlyLate
CHECK_DEADLOCK FALSE
