SPECIFICATION Spec
CONSTANTS
  listener = listener
  feed = feed
  Callers <- OneCaller
  Children = 2
  MaxCalls = 2
  MayStall = FALSE
INVARIANT
  NeverBreaksApp
