SPECIFICATION Spec
CONSTANTS
  a = a
  b = b
  None = None
  Ids <- MCIds
  MaxRaises = 0
  MaxCalls = 6
INVARIANT
  EndsArePaired
