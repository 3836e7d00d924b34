SPECIFICATION MCSpec
CONSTANTS
  d1 = d1
  d2 = d2
  d3 = d3
  Dashboards <- MCDashboards
  None = None
  Page = 2
  MaxRows = 2
  MaxChanges = 2
INVARIANTS
  VerdictExact
  OkWasTrue
  SanitizeTells
  PassWasTrue
  FailureHasCause
