SPECIFICATION Spec
CONSTANTS
  init = init
  make = make
  None = None
  Jobs <- TwoJobs
  Datasets <- MCDatasets
  Charts <- MCCharts
  Releases <- MCReleases
  MaxStarts = 3
INVARIANTS
  DashboardComplete
  SerialNoDuplicates
  SerialChartsNotAhead
  SerialConverges
PROPERTY
  SerialStableIds
