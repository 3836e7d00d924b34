----------------------------- MODULE Bootstrap ------------------------------
(***************************************************************************)
(* infra/superset/bootstrap_dashboards.py: the job that writes the event   *)
(* schema and the starter dashboard into Superset.  superset-init runs it  *)
(* when the stack comes up and `make bootstrap` whenever somebody asks; a  *)
(* job may die anywhere and be run again, from a newer release, or while   *)
(* another one is still at work.  Every object is one query and one        *)
(* commit.                                                                 *)
(***************************************************************************)
EXTENDS Integers, Sequences, FiniteSets

CONSTANTS Jobs,      \* bootstraps that may be under way at a time
          Datasets,  \* names of the datasets, in a job's order
          Charts,    \* names of the charts, in a job's order
          Releases,  \* versions of the definitions a job may carry
          MaxStarts, \* bound: jobs started
          None

ASSUME ReleaseAssumption == Releases \subseteq Nat /\ MaxStarts \in Nat
ASSUME NamesAssumption == \A names \in {Datasets, Charts} : names \in Seq({names[i] : i \in DOMAIN names})
ASSUME NoneAssumption == None \notin Nat

VARIABLES schema,   \* the events table exists
          rows,     \* Superset's metadata: rows[id]
          phase,    \* where each job is
          at,       \* the object of Plan it is ensuring
          found,    \* what its query returned
          ids,      \* dataset and chart ids it has collected, by name
          release,  \* the release it carries
          starts,   \* bound: jobs started so far
          finished, \* history: releases of jobs that exited 0
          lagged,   \* history: datasets whose latest fetch_metadata raised
          serial    \* history: no two jobs ever overlapped

carried == <<release, starts, serial>>
vars == <<schema, rows, phase, at, found, ids, finished, lagged, carried>>

\* bootstrap(): the objects in the order the job ensures them.
Objects(kind, names) == [i \in DOMAIN names |-> [kind |-> kind, name |-> names[i]]]
Database == <<[kind |-> "database", name |-> "database"]>>
Dashboard == <<[kind |-> "dashboard", name |-> "dashboard"]>>

\* Mutant: charts before the datasets they read.
PlanChartsFirst ==
  Database \o Objects("chart", Charts) \o Objects("dataset", Datasets) \o Dashboard

\* Mutant: the dashboard is created empty and filled by a later run.
PlanDashboardFirst ==
  Database \o Objects("dataset", Datasets) \o Dashboard \o Objects("chart", Charts)

Plan ==
  Database \o Objects("dataset", Datasets) \o Objects("chart", Charts) \o Dashboard

ASSUME PlanAssumption == \A i, k \in DOMAIN Plan : Plan[i].name = Plan[k].name => i = k

Of(kind) == {i \in DOMAIN Plan : Plan[i].kind = kind}
ChartNames == {Plan[i].name : i \in Of("chart")}
Matching(o) == {i \in DOMAIN rows : rows[i].kind = o.kind /\ rows[i].name = o.name}

\* database_name and slug are unique in Superset's schema, slice_name is not.
Unique(kind) == kind # "chart"

NoIds == [n \in {Plan[i].name : i \in DOMAIN Plan} |-> None]

Init ==
  /\ schema = FALSE
  /\ rows = <<>>
  /\ phase = [j \in Jobs |-> "down"]
  /\ at = [j \in Jobs |-> 1]
  /\ found = [j \in Jobs |-> None]
  /\ ids = [j \in Jobs |-> NoIds]
  /\ release = [j \in Jobs |-> 0]
  /\ starts = 0
  /\ finished = {}
  /\ lagged = {}
  /\ serial = TRUE

\* Releases only move forward.
Start(j, r) ==
  /\ phase[j] = "down"
  /\ starts < MaxStarts
  /\ \A k \in Jobs : release[k] <= r
  /\ starts' = starts + 1
  /\ serial' = (serial /\ \A k \in Jobs : phase[k] = "down")
  /\ phase' = [phase EXCEPT ![j] = "ddl"]
  /\ at' = [at EXCEPT ![j] = 1]
  /\ ids' = [ids EXCEPT ![j] = NoIds]
  /\ release' = [release EXCEPT ![j] = r]
  /\ UNCHANGED <<schema, rows, found, finished, lagged>>

\* _run_schema_ddl: CREATE ... IF NOT EXISTS, in one transaction.
RunDdl(j) ==
  /\ phase[j] = "ddl"
  /\ schema' = TRUE
  /\ phase' = [phase EXCEPT ![j] = "query"]
  /\ UNCHANGED <<rows, at, found, ids, finished, lagged, carried>>

\* Mutant: charts are looked up by name and content.
HitsByContent(j) ==
  {i \in Matching(Plan[at[j]]) : rows[i].kind = "chart" => rows[i].release = release[j]}

Hits(j) == Matching(Plan[at[j]])

\* session.query(...).filter_by(name).first()
Query(j) ==
  /\ phase[j] = "query"
  /\ IF Hits(j) = {}
     THEN found' = [found EXCEPT ![j] = None]
     ELSE \E i \in Hits(j) : /\ \A k \in Hits(j) : i <= k
                             /\ found' = [found EXCEPT ![j] = i]
  /\ phase' = [phase EXCEPT ![j] = "commit"]
  /\ UNCHANGED <<schema, rows, at, ids, finished, lagged, carried>>

\* What a job writes into the row of an object.  Columns are a dataset's
\* cached metadata, slices a dashboard's charts and its grid.
Written(j, columns) ==
  LET o == Plan[at[j]] IN
  [kind |-> o.kind, name |-> o.name, release |-> release[j], columns |-> columns,
   slices |-> IF o.kind = "dashboard" THEN {ids[j][n] : n \in ChartNames} ELSE {}]

\* Mutant: the columns are read only by the run that creates the dataset.
RefreshesNew(j) == Plan[at[j]].kind = "dataset" /\ found[j] = None

Refreshes(j) == Plan[at[j]].kind = "dataset"

NextObject(j) ==
  /\ phase' = [phase EXCEPT ![j] = "query"]
  /\ at' = [at EXCEPT ![j] = @ + 1]

\* What the job does after a commit of the object with this id.
Advance(j, id) ==
  /\ ids' = [ids EXCEPT ![j][Plan[at[j]].name] = id]
  /\ IF at[j] = Len(Plan)
     THEN /\ phase' = [phase EXCEPT ![j] = "down"]
          /\ finished' = finished \cup {release[j]}
          /\ UNCHANGED at
     ELSE /\ IF Refreshes(j) THEN phase' = [phase EXCEPT ![j] = "refresh"] /\ UNCHANGED at
                            ELSE NextObject(j)
          /\ UNCHANGED finished
  /\ UNCHANGED <<schema, found, lagged, carried>>

\* Mutant: delete and create instead of update.
UpdatedAnew(j) == Append([rows EXCEPT ![found[j]].name = None], Written(j, 0))

Updated(j) == [rows EXCEPT ![found[j]] = Written(j, @.columns)]

\* The object was found: its definition is brought up to date in place.
Update(j) ==
  /\ phase[j] = "commit"
  /\ found[j] # None
  /\ rows' = Updated(j)
  /\ Advance(j, found[j])

Clash(j) == Unique(Plan[at[j]].kind) /\ Matching(Plan[at[j]]) # {}

\* It was not: a new row, with a new id.
Insert(j) ==
  /\ phase[j] = "commit"
  /\ found[j] = None
  /\ ~Clash(j)
  /\ rows' = Append(rows, Written(j, 0))
  /\ Advance(j, Len(rows'))

\* dataset.fetch_metadata() and its commit, on every run of the job.
RefreshColumns(j) ==
  /\ phase[j] = "refresh"
  /\ LET id == ids[j][Plan[at[j]].name] IN
     /\ rows' = [rows EXCEPT ![id].columns = rows[id].release]
     /\ lagged' = lagged \ {id}
  /\ NextObject(j)
  /\ UNCHANGED <<schema, found, ids, finished, carried>>

\* fetch_metadata raises: rollback, a warning, and on with the next object.
RefreshFails(j) ==
  /\ phase[j] = "refresh"
  /\ lagged' = lagged \cup {ids[j][Plan[at[j]].name]}
  /\ NextObject(j)
  /\ UNCHANGED <<schema, rows, found, ids, finished, carried>>

\* The job exits 1 or is killed.  Its open transaction is rolled back; what it
\* committed stays.  A commit that breaks a unique constraint ends here too.
Fail(j) ==
  /\ phase[j] # "down"
  /\ phase' = [phase EXCEPT ![j] = "down"]
  /\ UNCHANGED <<schema, rows, at, found, ids, finished, lagged, carried>>

AllDown ==
  /\ \A j \in Jobs : phase[j] = "down"
  /\ UNCHANGED vars

Step(j) ==
  \/ RunDdl(j) \/ Query(j) \/ Update(j) \/ Insert(j)
  \/ RefreshColumns(j) \/ RefreshFails(j)

Next ==
  \/ \E j \in Jobs : \/ \E r \in Releases : Start(j, r)
                     \/ Step(j)
                     \/ Fail(j)
  \/ AllDown

Spec == Init /\ [][Next]_vars
-----------------------------------------------------------------------------
(* Properties.                                                              *)

Dashboards == {i \in DOMAIN rows : rows[i].kind = "dashboard"}

\* The dashboard is all or nothing: wherever jobs die and however they
\* overlap, it shows one chart of every name, each of them committed.
DashboardComplete ==
  \A d \in Dashboards :
    /\ rows[d].slices \subseteq DOMAIN rows
    /\ {rows[i].name : i \in rows[d].slices} = ChartNames
    /\ Cardinality(rows[d].slices) = Cardinality(ChartNames)

\* bootstrap_dashboards.py:5-6: running it again updates in place and never
\* duplicates, across crashes and releases, as long as jobs do not overlap.
SerialNoDuplicates == serial => \A i \in DOMAIN Plan : Cardinality(Matching(Plan[i])) <= 1

\* Ids survive reruns, so links and edits made in Superset stay attached: a
\* row never changes its identity and a dashboard never changes its charts.
SerialStableIds ==
  [][serial' => \A i \in DOMAIN rows :
       /\ rows'[i].name = rows[i].name
       /\ rows'[i].slices = rows[i].slices]_vars

\* A chart is never of a newer release than the datasets it reads, even when
\* an upgrade dies half way: datasets are committed before charts.
SerialChartsNotAhead ==
  serial => \A c, d \in DOMAIN rows :
    rows[c].kind = "chart" /\ rows[d].kind = "dataset" => rows[c].release <= rows[d].release

\* A job that exits 0 leaves every object at its release or a later one,
\* whatever earlier jobs died in the middle of; and the datasets' columns too.
\* A refresh that failed is the job's exception (it goes on and exits 0), until
\* the next one of that dataset makes up for it.
SerialConverges ==
  serial =>
    \A r \in finished, i \in DOMAIN Plan :
      \E k \in Matching(Plan[i]) :
        /\ rows[k].release >= r
        /\ rows[k].kind = "dataset" /\ k \notin lagged => rows[k].columns >= r
=============================================================================
