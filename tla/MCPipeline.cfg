SPECIFICATION FairSpec
CONSTANTS
  listener = listener
  feed = feed
  Callers <- TwoCallers
  Children = 2
  MaxCalls = 2
  MayStall = TRUE
INVARIANTS
  EveryChildOnce
  AppOutcomeKept
PROPERTY
  CallsReturn
