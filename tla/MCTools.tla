------------------------------ MODULE MCTools --------------------------------
(* One of the three tools runs against the stack; three dashboards, pages   *)
(* of two.                                                                  *)
EXTENDS Diagnose, Sanitize, SmokeSuites

CONSTANTS d1, d2, d3
MCDashboards == {d1, d2, d3}

VARIABLE tool
tools == <<diagnoseVars, sanitizeVars, smokeVars, stackVars, tool>>

\* What a tool reads of the stack; the rest has a fixed value.
Unread == [db |-> TRUE, schema |-> "full", rows |-> 1, nulls |-> FALSE, meta |-> "internal",
           superset |-> "ok", dashboards |-> [d \in Dashboards |-> "ok"]]
Varied == [diagnose |-> {s \in [db : BOOLEAN, schema : {"none", "partial", "full"}, rows : 0..1,
                                nulls : BOOLEAN, superset : {"down", "ok", "error"},
                                meta : {"absent", "norow", "internal", "localhost", "other"},
                                dashboards : {Unread.dashboards}] : TRUE},
           sanitize |-> {[Unread EXCEPT !.db = up, !.schema = s, !.rows = n] :
                           up \in BOOLEAN, s \in {"none", "full"}, n \in 0..1},
           smoke |-> {[Unread EXCEPT !.db = up, !.schema = s, !.superset = "down"] :
                        up \in BOOLEAN, s \in {"none", "full"}}
                     \cup {[Unread EXCEPT !.superset = w, !.dashboards = m] :
                        w \in {"ok", "error"}, m \in [Dashboards -> {"absent", "ok", "broken"}]}]

\* The tools that do not run are where they begin.
MCInit ==
  /\ tool \in DOMAIN Varied
  /\ StackInit(Varied[tool])
  /\ DiagnoseInit /\ (tool # "diagnose" => url = "full" /\ elsewhere)
  /\ SanitizeInit /\ (tool # "sanitize" => confirmed)
  /\ SmokeInit /\ (tool # "smoke" => configured /\ credentials)

Ended == CASE tool = "diagnose" -> probe = "done"
           [] tool = "sanitize" -> point = "done"
           [] tool = "smoke" -> at = "done"

MCNext ==
  \/ /\ ~Ended
     /\ UNCHANGED tool
     /\ \/ tool = "diagnose" /\ DiagnoseNext /\ UNCHANGED <<sanitizeVars, smokeVars>>
        \/ tool = "sanitize" /\ SanitizeNext /\ UNCHANGED <<diagnoseVars, smokeVars>>
        \/ tool = "smoke" /\ SmokeNext /\ UNCHANGED <<diagnoseVars, sanitizeVars>>
  \/ Ended /\ UNCHANGED tools

MCSpec == MCInit /\ [][MCNext]_tools
=============================================================================
