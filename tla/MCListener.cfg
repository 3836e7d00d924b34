SPECIFICATION Spec
CONSTANTS
  a = a
  b = b
  None = None
  Ids <- MCIds
  MaxRaises = 2
  MaxCalls = 9
SYMMETRY MCSymmetry
INVARIANTS
  DurationsExact
  DistinctEndsArePaired
  RunEventsOnce
  RunEndAgrees
  NoStampLeft
