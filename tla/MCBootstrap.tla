---------------------------- MODULE MCBootstrap -----------------------------
EXTENDS Bootstrap

CONSTANTS init, make

TwoJobs == {init, make}

MCDatasets == <<"events", "virtual">>
MCCharts == <<"kpi", "table">>
MCReleases == 1..2
=============================================================================
