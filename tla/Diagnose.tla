------------------------------ MODULE Diagnose -------------------------------
(***************************************************************************)
(* infra/scripts/diagnose_superset_db.py: one run of `make diagnose`, a    *)
(* sequence of probes of a stack that does not stand still.  Each probe    *)
(* reads the stack as it is at that moment.                                *)
(***************************************************************************)
EXTENDS Stack

VARIABLES url,       \* DATABASE_URL: unset, with user and port, without a
                     \* port, or without the user part
          elsewhere, \* the port assumed for an incomplete URL is open
          probe,     \* the next probe
          session,   \* check_database's connection
          rowsSeen,  \* check_database's local count
          fails      \* _counts["FAIL"], as far as main asks: is it positive

diagnoseVars == <<url, elsewhere, probe, session, rowsSeen, fails>>

DiagnoseInit ==
  /\ url \in {"none", "full", "noPort", "noUser"}
  /\ elsewhere \in BOOLEAN
  /\ probe = "environment"
  /\ session = 0
  /\ rowsSeen = 0
  /\ fails = FALSE

\* A probe runs, reports OK, WARN or FAIL, and the next one follows.
Probe(this, label, then) ==
  /\ probe = this
  /\ probe' = then
  /\ fails' = (fails \/ label = "FAIL")
  /\ UNCHANGED <<url, elsewhere, stackVars>>

-----------------------------------------------------------------------------
(* The probes, in the order of main.                                        *)

CheckEnvironment ==
  /\ Probe("environment", IF url = "none" THEN "FAIL" ELSE "OK", "dbPort")
  /\ UNCHANGED <<session, rowsSeen>>

\* The port of a complete URL, else the default.
Listening == IF url = "full" THEN stack.db ELSE elsewhere

CheckDbPort ==
  /\ Probe("dbPort", IF Listening THEN "OK" ELSE "FAIL", "supersetPort")
  /\ UNCHANGED <<session, rowsSeen>>

CheckSupersetPort ==
  /\ Probe("supersetPort", IF stack.superset = "down" THEN "WARN" ELSE "OK",
           IF url = "none" THEN "superset" ELSE "connect")
  /\ UNCHANGED <<session, rowsSeen>>

Connect ==
  /\ stack.db
  /\ Probe("connect", "OK", "inspect")
  /\ session' = epoch.db
  /\ UNCHANGED rowsSeen

\* Mutant: columns are not compared.
SchemaFits(schema) == schema # "none"

SchemaComplete(schema) == schema = "full"

Inspect ==
  /\ Alive(session)
  /\ IF SchemaComplete(stack.schema) THEN Probe("inspect", "OK", "count")
                                     ELSE Probe("inspect", "FAIL", "skip")
  /\ UNCHANGED <<session, rowsSeen>>

CountRows ==
  /\ Alive(session)
  /\ Probe("count", "none", "nulls")
  /\ rowsSeen' = stack.rows
  /\ UNCHANGED session

CountNulls ==
  /\ Alive(session)
  /\ IF stack.nulls THEN Probe("nulls", "FAIL", "skip")
                    ELSE Probe("nulls", IF rowsSeen = 0 THEN "WARN" ELSE "OK", "metadata")
  /\ UNCHANGED <<session, rowsSeen>>

\* The database, or the connection, is gone: the except clause reports it.
Lost(this) ==
  /\ IF this = "connect" THEN ~stack.db ELSE ~Alive(session)
  /\ Probe(this, "FAIL", "skip")
  /\ UNCHANGED <<session, rowsSeen>>

SkipMetadata ==
  /\ Probe("skip", "WARN", "superset")
  /\ UNCHANGED <<session, rowsSeen>>

\* A dbs table that cannot be queried is no more than a warning.
CheckMetadata ==
  /\ Probe("metadata", IF stack.db /\ stack.meta \in {"norow", "localhost"} THEN "FAIL"
                       ELSE IF stack.db /\ stack.meta = "internal" THEN "OK" ELSE "WARN",
           "superset")
  /\ UNCHANGED <<session, rowsSeen>>

\* Mutant: an HTTP error is no failure.
Answers(superset) == superset # "down"

Responds(superset) == superset = "ok"

CheckSuperset ==
  /\ Probe("superset", IF Responds(stack.superset) THEN "OK" ELSE "FAIL", "done")
  /\ UNCHANGED <<session, rowsSeen>>

DiagnoseStep ==
  \/ CheckEnvironment \/ CheckDbPort \/ CheckSupersetPort
  \/ Connect \/ Inspect \/ CountRows \/ CountNulls
  \/ \E this \in {"connect", "inspect", "count", "nulls"} : Lost(this)
  \/ SkipMetadata \/ CheckMetadata \/ CheckSuperset

\* It has read the events table and its transaction is still open.
DiagnoseReads == probe = "nulls" /\ Alive(session)

\* The run, and the stack that goes on meanwhile.
DiagnoseNext ==
  \/ DiagnoseStep
  \/ StackStep(DiagnoseReads) /\ UNCHANGED diagnoseVars

DiagnoseSpec ==
  StackInit(Stack) /\ DiagnoseInit /\ [][DiagnoseNext]_<<stackVars, diagnoseVars>>

-----------------------------------------------------------------------------
(* Properties.                                                              *)

\* Exit code 0: main found no failure.
Ok == probe = "done" /\ ~fails

\* On a stack that stands still and with a complete URL the verdict is exact:
\* 0 when every link of the chain is in order, 1 when one of them is not.
VerdictExact ==
  probe = "done" /\ changes = 0 /\ url = "full" =>
    (Ok <=> /\ stack.db /\ stack.schema = "full" /\ ~stack.nulls
            /\ stack.meta \notin {"norow", "localhost"} /\ stack.superset = "ok")

\* On a stack that moves, a good verdict still means that the database, its
\* schema, its data and Superset were each in order at some moment of the
\* run.  (Superset's metadata is not among them: a table that cannot be
\* queried at its moment is only a warning.)
OkWasTrue ==
  Ok => /\ url # "none"
        /\ TRUE \in seen.db
        /\ "full" \in seen.schema
        /\ FALSE \in seen.nulls
        /\ "ok" \in seen.superset
=============================================================================
