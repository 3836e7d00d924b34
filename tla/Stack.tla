-------------------------------- MODULE Stack --------------------------------
(***************************************************************************)
(* The stack that the operator's tools look at while it is in use: the     *)
(* database with the events table, Superset's metadata, Superset and its   *)
(* dashboards.  Services stop and come back, sinks write, somebody else    *)
(* sanitizes or bootstraps, dashboards come and go, sessions expire.       *)
(***************************************************************************)
EXTENDS Integers, FiniteSets

CONSTANTS Dashboards, \* ids of dashboards
          MaxRows,    \* bound: rows of the events table
          MaxChanges  \* bound: changes during the run of one tool

ASSUME DashboardsAssumption == IsFiniteSet(Dashboards)
ASSUME StackAssumption == MaxRows \in Nat /\ MaxChanges \in Nat

VARIABLES stack,   \* the services and what they hold
          epoch,   \* how often the database went down; how often Superset's
                   \* sessions were ended: what was opened earlier is void
          seen,    \* history: per field of stack, the values it has had
          changes  \* bound: changes so far

stackVars == <<stack, epoch, seen, changes>>

Stack == [db : BOOLEAN, schema : {"none", "partial", "full"}, rows : 0..MaxRows,
          nulls : BOOLEAN, meta : {"absent", "norow", "internal", "localhost", "other"},
          superset : {"down", "ok", "error"},
          dashboards : [Dashboards -> {"absent", "ok", "broken"}]]

Consistent(s) == (s.schema # "full" => s.rows = 0) /\ (s.nulls => s.rows > 0)

StackInit(S) ==
  /\ stack \in {s \in S : Consistent(s)}
  /\ epoch = [db |-> 0, sessions |-> 0]
  /\ seen = [f \in DOMAIN stack |-> {stack[f]}]
  /\ changes = 0

\* The stack becomes `new`.
Becomes(new) ==
  /\ stack' = new
  /\ seen' = [f \in DOMAIN stack |-> seen[f] \cup {new[f]}]

Change(new) ==
  /\ changes < MaxChanges
  /\ changes' = changes + 1
  /\ Becomes(new)

DatabaseTurns ==
  /\ Change([stack EXCEPT !.db = ~@])
  /\ epoch' = IF stack.db THEN [epoch EXCEPT !.db = @ + 1] ELSE epoch

SessionsExpire ==
  /\ Change(stack)
  /\ epoch' = [epoch EXCEPT !.sessions = @ + 1]

SupersetTurns(status) ==
  /\ status # stack.superset
  /\ Change([stack EXCEPT !.superset = status])
  /\ UNCHANGED epoch

DashboardTurns(d, status) ==
  /\ status # stack.dashboards[d]
  /\ Change([stack EXCEPT !.dashboards[d] = status])
  /\ UNCHANGED epoch

RowArrives ==
  /\ stack.db
  /\ stack.schema = "full"
  /\ stack.rows < MaxRows
  /\ Change([stack EXCEPT !.rows = @ + 1])
  /\ UNCHANGED epoch

Truncated(s) == [s EXCEPT !.rows = 0, !.nulls = FALSE]

\* TRUNCATE waits for a transaction that has read the table.
SomebodySanitizes(reading) ==
  /\ stack.db
  /\ ~reading
  /\ Change(Truncated(stack))
  /\ UNCHANGED epoch

BootstrapRuns ==
  /\ stack.db
  /\ Change([stack EXCEPT !.schema = IF @ = "none" THEN "full" ELSE @, !.meta = "internal"])
  /\ UNCHANGED epoch

StackStep(reading) ==
  \/ DatabaseTurns
  \/ SessionsExpire
  \/ \E status \in {"down", "ok", "error"} : SupersetTurns(status)
  \/ \E d \in Dashboards, status \in {"absent", "ok", "broken"} : DashboardTurns(d, status)
  \/ RowArrives
  \/ SomebodySanitizes(reading)
  \/ BootstrapRuns

\* A connection is known by the epoch in which it was opened.
Alive(connection) == stack.db /\ connection = epoch.db
=============================================================================
