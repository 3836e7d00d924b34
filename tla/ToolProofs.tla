----------------------------- MODULE ToolProofs ------------------------------
(* Theorems about the operator's tools, each against a stack in use, for    *)
(* any dashboards, any size of a page and any number of changes.            *)
EXTENDS Diagnose, Sanitize, SmokeSuites, FiniteSetTheorems, TLAPS

-----------------------------------------------------------------------------
(* The stack.                                                               *)

Fields == {"db", "schema", "rows", "nulls", "meta", "superset", "dashboards"}

\* What the stack is has been seen, and so has every outage.
Witnessed ==
  /\ DOMAIN seen = Fields
  /\ \A f \in Fields : stack[f] \in seen[f]
  /\ epoch.db > 0 => FALSE \in seen.db

StackInv ==
  /\ stack \in Stack
  /\ epoch \in [db : Nat, sessions : Nat]
  /\ changes \in Nat
  /\ Witnessed

\* What was seen stays seen, and epochs only grow.
Onward ==
  /\ \A f \in Fields : seen[f] \subseteq seen'[f]
  /\ epoch.db <= epoch'.db
  /\ epoch.sessions <= epoch'.sessions

LEMMA StackFields ==
  ASSUME NEW s \in Stack
  PROVE  /\ DOMAIN s = Fields
         /\ s.db \in BOOLEAN /\ s.schema \in {"none", "partial", "full"}
         /\ s.rows \in 0..MaxRows /\ s.nulls \in BOOLEAN
         /\ s.meta \in {"absent", "norow", "internal", "localhost", "other"}
         /\ s.superset \in {"down", "ok", "error"}
         /\ s.dashboards \in [Dashboards -> {"absent", "ok", "broken"}]
BY DEF Stack, Fields

LEMMA StackBegins ==
  ASSUME StackInit(Stack)
  PROVE  StackInv /\ changes = 0 /\ epoch.db = 0 /\ epoch.sessions = 0
<1>1. /\ stack \in Stack /\ epoch = [db |-> 0, sessions |-> 0] /\ changes = 0
      /\ seen = [f \in DOMAIN stack |-> {stack[f]}]
  BY DEF StackInit
<1>2. Witnessed
  BY <1>1, StackFields DEF Witnessed
<1>3. QED
  BY <1>1, <1>2 DEF StackInv

LEMMA BecomesFacts ==
  ASSUME StackInv, NEW new \in Stack, Becomes(new)
  PROVE  /\ stack' \in Stack
         /\ DOMAIN seen' = Fields
         /\ \A f \in Fields : stack'[f] \in seen'[f] /\ seen[f] \subseteq seen'[f]
<1>1. stack' = new /\ seen' = [f \in Fields |-> seen[f] \cup {new[f]}]
  BY StackFields DEF StackInv, Becomes
<1>2. QED
  BY <1>1

LEMMA NewStacks ==
  ASSUME StackInv
  PROVE  /\ [stack EXCEPT !.db = ~@] \in Stack
         /\ \A w \in {"down", "ok", "error"} : [stack EXCEPT !.superset = w] \in Stack
         /\ \A d \in Dashboards, w \in {"absent", "ok", "broken"} :
              [stack EXCEPT !.dashboards[d] = w] \in Stack
         /\ stack.rows < MaxRows => [stack EXCEPT !.rows = @ + 1] \in Stack
         /\ Truncated(stack) \in Stack
         /\ [stack EXCEPT !.schema = IF @ = "none" THEN "full" ELSE @, !.meta = "internal"] \in Stack
<1>1. stack \in Stack /\ MaxRows \in Nat
  BY StackAssumption DEF StackInv
<1>2. [stack EXCEPT !.db = ~@] \in Stack
  BY <1>1 DEF Stack
<1>3. \A w \in {"down", "ok", "error"} : [stack EXCEPT !.superset = w] \in Stack
  BY <1>1 DEF Stack
<1>4. \A d \in Dashboards, w \in {"absent", "ok", "broken"} :
        [stack EXCEPT !.dashboards[d] = w] \in Stack
  BY <1>1 DEF Stack
<1>5. stack.rows < MaxRows => [stack EXCEPT !.rows = @ + 1] \in Stack
  BY <1>1 DEF Stack
<1>6. Truncated(stack) \in Stack
  <2>1. 0 \in 0..MaxRows
    BY <1>1
  <2>2. [stack EXCEPT !.rows = 0, !.nulls = FALSE] \in Stack
    BY <1>1, <2>1 DEF Stack
  <2>3. QED
    BY <2>2 DEF Truncated
<1>7. [stack EXCEPT !.schema = IF @ = "none" THEN "full" ELSE @, !.meta = "internal"] \in Stack
  BY <1>1 DEF Stack
<1>8. QED
  BY <1>2, <1>3, <1>4, <1>5, <1>6, <1>7

LEMMA StackMoves ==
  ASSUME StackInv, NEW reading, StackStep(reading)
  PROVE  StackInv' /\ Onward /\ changes' > 0
<1>1. epoch \in [db : Nat, sessions : Nat] /\ changes \in Nat /\ stack \in Stack
  BY DEF StackInv
<1>2. ASSUME NEW new \in Stack, Change(new), UNCHANGED epoch
      PROVE  StackInv' /\ Onward /\ changes' > 0
  <2>1. changes' = changes + 1 /\ Becomes(new)
    BY <1>2 DEF Change
  <2>2. /\ stack' \in Stack
        /\ DOMAIN seen' = Fields
        /\ \A f \in Fields : stack'[f] \in seen'[f] /\ seen[f] \subseteq seen'[f]
    BY <2>1, BecomesFacts
  <2>3. Witnessed'
    BY <1>2, <2>2 DEF Witnessed, StackInv, Fields
  <2>4. QED
    BY <1>1, <1>2, <2>1, <2>2, <2>3 DEF StackInv, Onward
<1>3. CASE DatabaseTurns
  <2> DEFINE new == [stack EXCEPT !.db = ~@]
  <2>1. new \in Stack /\ new.db = ~stack.db /\ stack.db \in BOOLEAN
    <3>1. new \in Stack
      BY NewStacks
    <3>2. "db" \in DOMAIN stack /\ stack.db \in BOOLEAN
      BY <1>1, StackFields DEF Fields
    <3>3. QED
      BY <3>1, <3>2
  <2>2. changes' = changes + 1 /\ Becomes(new)
    BY <1>3 DEF DatabaseTurns, Change
  <2>3. stack' = new
    BY <2>2 DEF Becomes
  <2> HIDE DEF new
  <2>4. /\ stack' \in Stack
        /\ DOMAIN seen' = Fields
        /\ \A f \in Fields : stack'[f] \in seen'[f] /\ seen[f] \subseteq seen'[f]
    BY <2>1, <2>2, BecomesFacts
  <2>5. epoch' = IF stack.db THEN [epoch EXCEPT !.db = @ + 1] ELSE epoch
    BY <1>3 DEF DatabaseTurns
  <2>6. /\ epoch' \in [db : Nat, sessions : Nat]
        /\ epoch.db <= epoch'.db /\ epoch.sessions <= epoch'.sessions
    BY <1>1, <2>5
  <2>7. epoch'.db > 0 => FALSE \in seen'.db
    <3>1. CASE stack.db
      <4>1. stack'.db = FALSE /\ stack'.db \in seen'.db
        BY <2>1, <2>3, <2>4, <3>1 DEF Fields
      <4>2. QED
        BY <4>1
    <3>2. CASE ~stack.db
      BY <2>4, <2>5, <3>2 DEF StackInv, Witnessed, Fields
    <3>3. QED
      BY <3>1, <3>2
  <2>8. Witnessed' /\ Onward
    BY <2>4, <2>6, <2>7 DEF Witnessed, Onward
  <2>9. changes' \in Nat /\ changes' > 0
    BY <1>1, <2>2
  <2>10. QED
    BY <2>4, <2>6, <2>8, <2>9 DEF StackInv
<1>4. CASE SessionsExpire
  <2>1. changes' = changes + 1 /\ Becomes(stack) /\ epoch' = [epoch EXCEPT !.sessions = @ + 1]
    BY <1>4 DEF SessionsExpire, Change
  <2>2. /\ stack' \in Stack
        /\ DOMAIN seen' = Fields
        /\ \A f \in Fields : stack'[f] \in seen'[f] /\ seen[f] \subseteq seen'[f]
    BY <1>1, <2>1, BecomesFacts
  <2>3. /\ epoch' \in [db : Nat, sessions : Nat] /\ epoch'.db = epoch.db
        /\ epoch.sessions <= epoch'.sessions
    BY <1>1, <2>1
  <2>4. Witnessed'
    BY <2>2, <2>3 DEF Witnessed, StackInv, Fields
  <2>5. QED
    BY <1>1, <2>1, <2>2, <2>3, <2>4 DEF StackInv, Onward
<1>5. ASSUME NEW w \in {"down", "ok", "error"}, SupersetTurns(w)
      PROVE  StackInv' /\ Onward /\ changes' > 0
  BY <1>2, <1>5, NewStacks DEF SupersetTurns
<1>6. ASSUME NEW d \in Dashboards, NEW w \in {"absent", "ok", "broken"}, DashboardTurns(d, w)
      PROVE  StackInv' /\ Onward /\ changes' > 0
  BY <1>2, <1>6, NewStacks DEF DashboardTurns
<1>7. CASE RowArrives
  BY <1>2, <1>7, NewStacks DEF RowArrives
<1>8. CASE SomebodySanitizes(reading)
  BY <1>2, <1>8, NewStacks DEF SomebodySanitizes
<1>9. CASE BootstrapRuns
  BY <1>2, <1>9, NewStacks DEF BootstrapRuns
<1>10. QED
  BY <1>3, <1>4, <1>5, <1>6, <1>7, <1>8, <1>9 DEF StackStep

LEMMA StackStands ==
  ASSUME StackInv, UNCHANGED stackVars
  PROVE  StackInv' /\ Onward
<1>1. StackInv'
  BY DEF StackInv, Witnessed, stackVars
<1>2. Onward
  BY DEF StackInv, Onward, stackVars
<1>3. QED
  BY <1>1, <1>2

-----------------------------------------------------------------------------
(* Diagnose.                                                                *)

Probes == {"environment", "dbPort", "supersetPort", "connect", "inspect", "count", "nulls", "skip",
           "metadata", "superset", "done"}

DiagnoseType ==
  /\ url \in {"none", "full", "noPort", "noUser"}
  /\ probe \in Probes
  /\ fails \in BOOLEAN

Kept == stack.db /\ stack.schema = "full" /\ ~stack.nulls
Registered == stack.meta \notin {"norow", "localhost"}

\* On a stack that stands still, what each probe knows of the chain, and that
\* the failures so far are its broken links.
Standing ==
  changes = 0 /\ url = "full" =>
    /\ epoch.db = 0
    /\ probe \in {"inspect", "count", "nulls"} => session = 0 /\ stack.db /\ ~fails
    /\ probe \in {"environment", "dbPort"} => ~fails
    /\ probe \in {"supersetPort", "connect"} => (fails <=> ~stack.db)
    /\ probe \in {"count", "nulls"} => stack.schema = "full"
    /\ probe = "skip" => fails /\ ~Kept
    /\ probe = "metadata" => ~fails /\ Kept
    /\ probe = "superset" => (fails <=> ~(Kept /\ Registered))
    /\ probe = "done" => (fails <=> ~(Kept /\ Registered /\ stack.superset = "ok"))

\* What a run without a failure has seen so far.
Passed ==
  /\ probe = "skip" => fails
  /\ ~fails =>
       /\ probe # "environment" => url # "none"
       /\ probe \in {"inspect", "count", "nulls", "metadata", "superset", "done"} => TRUE \in seen.db
       /\ probe \in {"count", "nulls", "metadata", "superset", "done"} => "full" \in seen.schema
       /\ probe \in {"metadata", "superset", "done"} => FALSE \in seen.nulls
       /\ probe = "done" => "ok" \in seen.superset

DiagnoseInv == StackInv /\ DiagnoseType /\ Standing /\ Passed

LEMMA DiagnoseBegins ==
  ASSUME StackInit(Stack), DiagnoseInit
  PROVE  DiagnoseInv
<1>1. StackInv /\ changes = 0 /\ epoch.db = 0
  BY StackBegins
<1>2. DiagnoseType
  BY DEF DiagnoseInit, DiagnoseType, Probes
<1>3. Standing /\ Passed
  BY <1>1 DEF DiagnoseInit, Standing, Passed
<1>4. QED
  BY <1>1, <1>2, <1>3 DEF DiagnoseInv

\* The stack may move under the run: the failures stay, and what was seen.
LEMMA DiagnoseWaits ==
  ASSUME DiagnoseInv, NEW reading, StackStep(reading), UNCHANGED diagnoseVars
  PROVE  DiagnoseInv'
<1>1. StackInv' /\ Onward /\ changes' > 0
  BY StackMoves DEF DiagnoseInv
<1>2. DiagnoseType'
  BY DEF DiagnoseInv, DiagnoseType, diagnoseVars
<1>3. Standing'
  BY <1>1 DEF Standing, diagnoseVars
<1>4. /\ seen.db \subseteq seen'.db /\ seen.schema \subseteq seen'.schema
      /\ seen.nulls \subseteq seen'.nulls /\ seen.superset \subseteq seen'.superset
  BY <1>1 DEF Onward, Fields
<1>5. Passed'
  BY <1>4 DEF DiagnoseInv, Passed, diagnoseVars
<1>6. QED
  BY <1>1, <1>2, <1>3, <1>5 DEF DiagnoseInv

\* What is so now has been seen.
LEMMA SeenNow ==
  ASSUME StackInv
  PROVE  /\ stack.db \in seen.db /\ stack.schema \in seen.schema /\ stack.rows \in seen.rows
         /\ stack.nulls \in seen.nulls /\ stack.superset \in seen.superset
         /\ stack.dashboards \in seen.dashboards
         /\ stack.db \in BOOLEAN /\ stack.nulls \in BOOLEAN /\ stack.rows \in Nat
BY StackFields, StackAssumption DEF StackInv, Witnessed, Fields

LEMMA DiagnoseSteps ==
  ASSUME DiagnoseInv, DiagnoseStep
  PROVE  DiagnoseInv'
<1>1. /\ UNCHANGED <<url, elsewhere, stackVars>>
      /\ probe' \in Probes /\ fails' \in BOOLEAN
  BY DEF DiagnoseStep, CheckEnvironment, CheckDbPort, CheckSupersetPort, Connect, Inspect, CountRows,
         CountNulls, Lost, SkipMetadata, CheckMetadata, CheckSuperset, Probe, Probes, DiagnoseInv,
         DiagnoseType
<1>2. StackInv' /\ DiagnoseType'
  BY <1>1, StackStands DEF DiagnoseInv, DiagnoseType
<1>3. UNCHANGED <<stack, epoch, seen, changes, url>>
  BY <1>1 DEF stackVars
<1>4. /\ stack.db \in seen.db /\ stack.schema \in seen.schema
      /\ stack.nulls \in seen.nulls /\ stack.superset \in seen.superset
      /\ stack.db \in BOOLEAN /\ stack.nulls \in BOOLEAN /\ fails \in BOOLEAN
  BY SeenNow DEF DiagnoseInv, DiagnoseType
<1>5. Standing /\ Passed
  BY DEF DiagnoseInv
<1>6. SUFFICES Standing' /\ Passed'
  BY <1>2 DEF DiagnoseInv
<1>7. CASE CheckEnvironment
  BY <1>3, <1>4, <1>5, <1>7 DEF CheckEnvironment, Probe, Standing, Passed
<1>8. CASE CheckDbPort
  BY <1>3, <1>4, <1>5, <1>8 DEF CheckDbPort, Listening, Probe, Standing, Passed
<1>9. CASE CheckSupersetPort
  BY <1>3, <1>4, <1>5, <1>9 DEF CheckSupersetPort, Probe, Standing, Passed
<1>10. CASE Connect
  BY <1>3, <1>4, <1>5, <1>10 DEF Connect, Probe, Standing, Passed
<1>11. CASE Inspect
  BY <1>3, <1>4, <1>5, <1>11 DEF Inspect, SchemaComplete, Alive, Probe, Standing, Passed, Kept
<1>12. CASE CountRows
  BY <1>3, <1>4, <1>5, <1>12 DEF CountRows, Probe, Standing, Passed
<1>13. CASE CountNulls
  BY <1>3, <1>4, <1>5, <1>13 DEF CountNulls, Probe, Standing, Passed, Kept
<1>14. ASSUME NEW this \in {"connect", "inspect", "count", "nulls"}, Lost(this)
       PROVE  Standing' /\ Passed'
  BY <1>3, <1>4, <1>5, <1>14 DEF Lost, Alive, Probe, Standing, Passed, Kept
<1>15. CASE SkipMetadata
  BY <1>3, <1>4, <1>5, <1>15 DEF SkipMetadata, Probe, Standing, Passed, Kept
<1>16. CASE CheckMetadata
  BY <1>3, <1>4, <1>5, <1>16 DEF CheckMetadata, Probe, Standing, Passed, Kept, Registered
<1>17. CASE CheckSuperset
  BY <1>3, <1>4, <1>5, <1>17 DEF CheckSuperset, Responds, Probe, Standing, Passed, Kept, Registered
<1>18. QED
  BY <1>7, <1>8, <1>9, <1>10, <1>11, <1>12, <1>13, <1>14, <1>15, <1>16, <1>17 DEF DiagnoseStep

LEMMA DiagnoseInvariant == DiagnoseSpec => []DiagnoseInv
<1>1. StackInit(Stack) /\ DiagnoseInit => DiagnoseInv
  BY DiagnoseBegins
<1>2. DiagnoseInv /\ [DiagnoseNext]_<<stackVars, diagnoseVars>> => DiagnoseInv'
  <2>1. ASSUME DiagnoseInv, UNCHANGED <<stackVars, diagnoseVars>> PROVE DiagnoseInv'
    <3>1. StackInv'
      BY <2>1, StackStands DEF DiagnoseInv
    <3>2. UNCHANGED <<stack, epoch, seen, changes, url, probe, session, fails>>
      BY <2>1 DEF stackVars, diagnoseVars
    <3>3. DiagnoseType' /\ Standing' /\ Passed'
      BY <2>1, <3>2 DEF DiagnoseInv, DiagnoseType, Standing, Passed, Kept, Registered
    <3>4. QED
      BY <3>1, <3>3 DEF DiagnoseInv
  <2>2. QED
    BY <2>1, DiagnoseSteps, DiagnoseWaits DEF DiagnoseNext
<1>3. QED
  BY <1>1, <1>2, PTL DEF DiagnoseSpec

\* On a stack that stands still, and for a complete URL, the exit code is 0
\* exactly when every link of the chain is in order.
THEOREM VerdictIsExact == DiagnoseSpec => []VerdictExact
<1>1. DiagnoseInv => VerdictExact
  <2> SUFFICES ASSUME DiagnoseInv, probe = "done", changes = 0, url = "full"
               PROVE  Ok <=> /\ stack.db /\ stack.schema = "full" /\ ~stack.nulls
                             /\ stack.meta \notin {"norow", "localhost"} /\ stack.superset = "ok"
    BY DEF VerdictExact
  <2>1. fails <=> ~(Kept /\ Registered /\ stack.superset = "ok")
    BY DEF DiagnoseInv, Standing
  <2>2. QED
    BY <2>1 DEF Ok, Kept, Registered
<1>2. QED
  BY <1>1, DiagnoseInvariant, PTL

\* On a stack that moves, exit code 0 means that each link was in order at
\* some moment of the run.
THEOREM GoodVerdictWasTrue == DiagnoseSpec => []OkWasTrue
<1>1. DiagnoseInv => OkWasTrue
  BY DEF DiagnoseInv, Passed, OkWasTrue, Ok
<1>2. QED
  BY <1>1, DiagnoseInvariant, PTL

-----------------------------------------------------------------------------
(* Sanitize.                                                                *)

SanitizeType ==
  /\ point \in {"count", "ask", "truncate", "commit", "done"}
  /\ confirmed \in BOOLEAN
  /\ pooled \in Nat
  /\ counted \in Nat
  /\ late \in Nat
  /\ gone \in Nat

\* What the script knows at each point.
Counting ==
  /\ pooled <= epoch.db
  /\ point \in {"ask", "truncate", "commit"} => counted > 0
  /\ point \in {"ask", "truncate"} => stack.rows <= counted + late

Telling ==
  /\ point \in {"count", "ask", "truncate"} => gone = 0
  /\ point \in {"truncate", "commit"} => confirmed
  /\ point = "commit" => 0 \in seen.rows
  /\ SanitizeTells

SanitizeInv == StackInv /\ SanitizeType /\ Counting /\ Telling

\* A connection that is dead was outlived by an outage.
LEMMA DeadConnection ==
  ASSUME StackInv, NEW c \in Nat, c <= epoch.db, ~Alive(c)
  PROVE  FALSE \in seen.db
<1>1. stack.db \in seen.db /\ stack.db \in BOOLEAN
  BY SeenNow
<1>2. epoch.db \in Nat /\ (epoch.db > 0 => FALSE \in seen.db)
  BY DEF StackInv, Witnessed
<1>3. CASE ~stack.db
  BY <1>1, <1>3
<1>4. CASE c # epoch.db
  <2>1. epoch.db > 0
    BY <1>2, <1>4
  <2>2. QED
    BY <1>2, <2>1
<1>5. QED
  BY <1>3, <1>4 DEF Alive

LEMMA LooserBound ==
  ASSUME NEW n \in Nat, NEW c \in Nat, NEW a \in Nat, NEW b \in Nat, a <= b,
         n > 0 => n <= c + a
  PROVE  n > 0 => n <= c + b
OBVIOUS

LEMMA SanitizeBegins ==
  ASSUME StackInit(Stack), SanitizeInit
  PROVE  SanitizeInv
<1>1. StackInv /\ epoch.db = 0
  BY StackBegins
<1>2. SanitizeType
  BY DEF SanitizeInit, SanitizeType
<1>3. Counting
  BY <1>1 DEF SanitizeInit, Counting
<1>4. Telling
  BY DEF SanitizeInit, Telling, SanitizeTells
<1>5. QED
  BY <1>1, <1>2, <1>3, <1>4 DEF SanitizeInv

LEMMA SanitizeWaits ==
  ASSUME SanitizeInv, Meanwhile
  PROVE  SanitizeInv'
<1>1. StackInv' /\ Onward
  BY StackMoves DEF Meanwhile, SanitizeInv
<1>2. /\ seen.db \subseteq seen'.db /\ seen.rows \subseteq seen'.rows
      /\ epoch.db <= epoch'.db /\ epoch.db \in Nat /\ epoch'.db \in Nat
  BY <1>1 DEF Onward, Fields, StackInv, SanitizeInv
<1>3. UNCHANGED <<point, confirmed, pooled, counted, gone, exit>>
  BY DEF Meanwhile
<1>4. stack.rows \in Nat /\ stack'.rows \in Nat
  <2>1. stack \in Stack /\ stack' \in Stack
    BY <1>1 DEF SanitizeInv, StackInv
  <2>2. stack.rows \in 0..MaxRows /\ stack'.rows \in 0..MaxRows
    BY <2>1, StackFields
  <2>3. QED
    BY <2>2, StackAssumption
<1>5. SanitizeType /\ Counting /\ Telling
  BY DEF SanitizeInv
<1>6. /\ late' \in Nat /\ late <= late'
      /\ point \in {"ask", "truncate"} => stack'.rows <= counted + late'
  <2>1. late \in Nat /\ counted \in Nat
    BY <1>5 DEF SanitizeType
  <2>2. point \in {"ask", "truncate"} => stack.rows <= counted + late
    BY <1>5 DEF Counting
  <2>3. late' = IF point \in {"ask", "truncate"} /\ stack'.rows > stack.rows
                THEN late + stack'.rows - stack.rows ELSE late
    BY DEF Meanwhile
  <2>4. CASE point \in {"ask", "truncate"} /\ stack'.rows > stack.rows
    BY <1>4, <2>1, <2>2, <2>3, <2>4
  <2>5. CASE ~(point \in {"ask", "truncate"} /\ stack'.rows > stack.rows)
    <3>1. late' = late
      BY <2>3, <2>5
    <3>2. point \in {"ask", "truncate"} => stack'.rows <= stack.rows
      BY <1>4, <2>5
    <3>3. QED
      BY <1>4, <2>1, <2>2, <3>1, <3>2
  <2>6. QED
    BY <2>4, <2>5
<1>7. SanitizeType' /\ Counting'
  BY <1>2, <1>3, <1>5, <1>6 DEF SanitizeType, Counting
<1>8. Telling'
  <2>1. FALSE \in seen.db => FALSE \in seen'.db
    BY <1>2
  <2>2. 0 \in seen.rows => 0 \in seen'.rows
    BY <1>2
  <2>3. gone > 0 => gone <= counted + late'
    <3>1. gone \in Nat /\ counted \in Nat /\ late \in Nat
      BY <1>5 DEF SanitizeType
    <3>2. gone > 0 => gone <= counted + late
      BY <1>5 DEF Telling, SanitizeTells
    <3>3. late' \in Nat /\ late <= late'
      BY <1>6
    <3>4. QED
      BY <3>1, <3>2, <3>3, LooserBound
  <2>4. QED
    BY <1>3, <1>5, <2>1, <2>2, <2>3 DEF Telling, SanitizeTells
<1>9. QED
  BY <1>1, <1>7, <1>8 DEF SanitizeInv

LEMMA SanitizeSteps ==
  ASSUME SanitizeInv, SanitizeStep
  PROVE  SanitizeInv'
<1>1. /\ stack.db \in seen.db /\ stack.db \in BOOLEAN
      /\ stack.rows \in seen.rows /\ stack.rows \in Nat
      /\ epoch.db \in Nat /\ SanitizeType /\ Counting /\ Telling
  BY SeenNow DEF SanitizeInv, StackInv
<1>2. ASSUME UNCHANGED stackVars PROVE StackInv' /\ UNCHANGED <<stack, epoch, seen, changes>>
  BY <1>2, StackStands DEF SanitizeInv, stackVars
<1>3. CASE Count
  <2>1. StackInv' /\ UNCHANGED <<stack, epoch, seen, changes>>
    BY <1>2, <1>3 DEF Count
  <2>2. SanitizeType' /\ Counting'
    BY <1>1, <1>3, <2>1 DEF Count, Exit, SanitizeType, Counting
  <2>3. Telling'
    <3>1. gone = 0 /\ gone' = 0 /\ point' \in {"done", "truncate", "ask"}
      BY <1>1, <1>3 DEF Count, Exit, Telling
    <3>2. point' = "done" => exit' = 0 /\ 0 \in seen'.rows
      BY <1>1, <1>3, <2>1 DEF Count, Exit
    <3>3. point' = "truncate" => confirmed'
      BY <1>3 DEF Count, Exit
    <3>4. QED
      BY <3>1, <3>2, <3>3 DEF Telling, SanitizeTells
  <2>4. QED
    BY <2>1, <2>2, <2>3 DEF SanitizeInv
<1>4. ASSUME NEW answer \in {"yes", "no"}, Ask(answer) PROVE SanitizeInv'
  <2>1. StackInv' /\ UNCHANGED <<stack, epoch, seen, changes>>
    BY <1>2, <1>4 DEF Ask
  <2>2. SanitizeType' /\ Counting'
    BY <1>1, <1>4, <2>1 DEF Ask, Agrees, Exit, SanitizeType, Counting
  <2>3. Telling'
    <3>1. gone = 0 /\ gone' = 0 /\ point' # "commit"
      BY <1>1, <1>4 DEF Ask, Agrees, Exit, Telling
    <3>2. point' = "done" => exit' # 0
      BY <1>4 DEF Ask, Agrees, Exit
    <3>3. point' = "truncate" => confirmed'
      BY <1>4 DEF Ask, Agrees, Exit
    <3>4. QED
      BY <3>1, <3>2, <3>3 DEF Telling, SanitizeTells
  <2>4. QED
    BY <2>1, <2>2, <2>3 DEF SanitizeInv
<1>5. CASE Truncate
  <2>1. Truncated(stack) \in Stack /\ Becomes(Truncated(stack))
    BY <1>5, NewStacks DEF Truncate, SanitizeInv
  <2>2. /\ stack' \in Stack /\ DOMAIN seen' = Fields
        /\ \A f \in Fields : stack'[f] \in seen'[f] /\ seen[f] \subseteq seen'[f]
    BY <2>1, BecomesFacts DEF SanitizeInv
  <2>3. stack'.rows = 0
    <3>1. stack' = Truncated(stack) /\ "rows" \in DOMAIN stack
      BY <2>1, StackFields DEF Becomes, SanitizeInv, StackInv, Fields
    <3>2. QED
      BY <3>1 DEF Truncated
  <2>4. 0 \in seen'.rows /\ seen.db \subseteq seen'.db /\ epoch' = epoch /\ changes' = changes
    BY <1>5, <2>2, <2>3 DEF Truncate, Fields
  <2>5. StackInv'
    BY <2>2, <2>4 DEF SanitizeInv, StackInv, Witnessed
  <2>6. SanitizeType' /\ Counting' /\ counted' > 0
    BY <1>1, <1>5, <2>4 DEF Truncate, SanitizeType, Counting
  <2>7. confirmed' /\ point' = "commit" /\ gone' <= counted' + late'
    BY <1>1, <1>5 DEF Truncate, Telling, Counting
  <2>8. Telling'
    BY <2>4, <2>6, <2>7 DEF Telling, SanitizeTells
  <2>9. QED
    BY <2>5, <2>6, <2>8 DEF SanitizeInv
<1>6. CASE Answered
  <2>1. StackInv' /\ UNCHANGED <<stack, epoch, seen, changes>>
    BY <1>2, <1>6 DEF Answered
  <2>2. SanitizeType' /\ Counting'
    BY <1>1, <1>6, <2>1 DEF Answered, Exit, SanitizeType, Counting
  <2>3. Telling'
    BY <1>1, <1>6, <2>1 DEF Answered, Exit, Telling, SanitizeTells
  <2>4. QED
    BY <2>1, <2>2, <2>3 DEF SanitizeInv
<1>7. CASE SanitizeFails
  <2>1. StackInv' /\ UNCHANGED <<stack, epoch, seen, changes>>
    BY <1>2, <1>7 DEF SanitizeFails
  <2>2. point = "commit" => FALSE \in seen.db
    BY <1>7, DeadConnection DEF SanitizeFails, SanitizeInv, SanitizeType, Counting
  <2>3. SanitizeType' /\ Counting'
    BY <1>1, <1>7, <2>1 DEF SanitizeFails, Exit, SanitizeType, Counting
  <2>4. Telling'
    <3>1. /\ point' = "done" /\ exit' = 1 /\ confirmed' = confirmed /\ counted' = counted
          /\ gone' = gone /\ late' = late /\ point \in {"count", "truncate", "commit"}
      BY <1>7 DEF SanitizeFails, Exit
    <3>2. gone = 0 \/ FALSE \in seen'.db
      BY <1>1, <2>1, <2>2, <3>1 DEF Telling
    <3>3. gone > 0 => confirmed /\ counted > 0 /\ gone <= counted + late
      BY <1>1 DEF Telling, SanitizeTells
    <3>4. exit' # 0 /\ point' # "commit" /\ point' \notin {"count", "ask", "truncate"}
      BY <3>1
    <3>5. QED
      BY <3>1, <3>2, <3>3, <3>4 DEF Telling, SanitizeTells
  <2>5. QED
    BY <2>1, <2>3, <2>4 DEF SanitizeInv
<1>8. QED
  BY <1>3, <1>4, <1>5, <1>6, <1>7 DEF SanitizeStep

LEMMA SanitizeInvariant == SanitizeSpec => []SanitizeInv
<1>1. StackInit(Stack) /\ SanitizeInit => SanitizeInv
  BY SanitizeBegins
<1>2. SanitizeInv /\ [SanitizeNext]_<<stackVars, sanitizeVars>> => SanitizeInv'
  <2>1. ASSUME SanitizeInv, UNCHANGED <<stackVars, sanitizeVars>> PROVE SanitizeInv'
    <3>1. StackInv'
      BY <2>1, StackStands DEF SanitizeInv
    <3>2. SanitizeType' /\ Counting' /\ Telling'
      BY <2>1 DEF SanitizeInv, SanitizeType, Counting, Telling, SanitizeTells, stackVars,
                  sanitizeVars
    <3>3. QED
      BY <3>1, <3>2 DEF SanitizeInv
  <2>2. QED
    BY <2>1, SanitizeSteps, SanitizeWaits DEF SanitizeNext
<1>3. QED
  BY <1>1, <1>2, PTL DEF SanitizeSpec

\* The exit code tells what happened, and nothing goes without an agreement but
\* rows that arrived after the count it was about.
THEOREM SanitizeIsHonest == SanitizeSpec => []SanitizeTells
<1>1. SanitizeInv => SanitizeTells
  BY DEF SanitizeInv, Telling
<1>2. QED
  BY <1>1, SanitizeInvariant, PTL

-----------------------------------------------------------------------------
(* The smoke suites.                                                        *)

Results == {"none", "pass", "fail", "skip"}

SmokeType ==
  /\ configured \in BOOLEAN
  /\ credentials \in BOOLEAN
  /\ ids \in SUBSET Dashboards
  /\ verdict \in [Tests -> Results]

\* The parts of PassWasTrue.
Stayed == {d \in Dashboards : "absent" \notin Lives(d)}
Unrendered == {d \in Stayed : "ok" \notin Lives(d)}
Ever == {d \in Dashboards : Lives(d) # {"absent"}}
AllButAPage == Unrendered # {} => Cardinality(Unrendered) <= Cardinality(Ever) - Page

\* What a pass, and what a failure, of a test says of the stack.
Worth(t) ==
  /\ t = "alive" => TRUE \in seen.db
  /\ t = "countable" => seen.schema # {"none"}
  /\ t = "render" => credentials /\ "ok" \in seen.superset /\ AllButAPage

Api == ~credentials \/ seen.superset # {"ok"} \/ epoch.sessions > 0

Cause(t) ==
  /\ t = "alive" => ~configured \/ FALSE \in seen.db
  /\ t = "countable" => ~configured \/ FALSE \in seen.db \/ "none" \in seen.schema
  /\ t = "health" => seen.superset # {"ok"}
  /\ t = "discoverable" => Api
  /\ t = "render" => Api \/ \E d \in Dashboards : Lives(d) # {"ok"}

Verdicts ==
  \A t \in Tests : /\ verdict[t] = "pass" => Worth(t)
                   /\ verdict[t] = "fail" => Cause(t)

\* The connection and the token are of an epoch that is not yet to come.
Opened ==
  /\ pool # None => pool \in Nat /\ pool <= epoch.db
  /\ token # None => token \in Nat /\ token <= epoch.sessions

LoggedIn ==
  /\ token # None => credentials /\ "ok" \in seen.superset
  /\ at = "render" => token # None /\ verdict["discoverable"] # "none"

\* The page P that is being rendered: what of it is no longer to be rendered
\* was, and a dashboard that stayed is in it unless it is full.
PageOf(P) ==
  /\ ids \subseteq P
  /\ P \subseteq Ever
  /\ \A d \in P \ ids : "ok" \in Lives(d)
  /\ Stayed \subseteq P \/ Cardinality(P) = Page

Rendering == at = "render" => \E P \in SUBSET Dashboards : PageOf(P)

SmokeInv == StackInv /\ SmokeType /\ Opened /\ LoggedIn /\ Rendering /\ Verdicts

\* On a stack that moves, pages and verdicts keep their meaning.
LEMMA LivesGrow ==
  ASSUME StackInv, Onward, NEW d \in Dashboards
  PROVE  /\ Lives(d) \subseteq Lives(d)'
         /\ stack.dashboards[d] \in Lives(d)
<1>1. seen.dashboards \subseteq seen'.dashboards
  BY DEF Onward, Fields
<1>2. stack.dashboards \in seen.dashboards
  BY SeenNow
<1>3. QED
  BY <1>1, <1>2 DEF Lives

LEMMA DashboardsGrow ==
  ASSUME StackInv, Onward
  PROVE  /\ Stayed' \subseteq Stayed
         /\ Unrendered' \subseteq Unrendered
         /\ Ever \subseteq Ever'
         /\ Stayed \subseteq Ever
<1>1. \A d \in Dashboards : Lives(d) \subseteq Lives(d)' /\ stack.dashboards[d] \in Lives(d)
  BY LivesGrow
<1>2. Stayed' \subseteq Stayed
  BY <1>1 DEF Stayed
<1>3. Unrendered' \subseteq Unrendered
  BY <1>1, <1>2 DEF Unrendered, Stayed
<1>4. Ever \subseteq Ever'
  <2> SUFFICES ASSUME NEW d \in Dashboards, Lives(d) # {"absent"} PROVE Lives(d)' # {"absent"}
    BY DEF Ever
  <2>1. PICK x \in Lives(d) : x # "absent"
    BY <1>1
  <2>2. QED
    BY <1>1, <2>1
<1>5. Stayed \subseteq Ever
  BY <1>1 DEF Stayed, Ever
<1>6. QED
  BY <1>2, <1>3, <1>4, <1>5

LEMMA PageStays ==
  ASSUME StackInv, Onward, UNCHANGED ids, NEW P \in SUBSET Dashboards, PageOf(P)
  PROVE  PageOf(P)'
<1>1. \A d \in Dashboards : Lives(d) \subseteq Lives(d)'
  BY LivesGrow
<1>2. Stayed' \subseteq Stayed /\ Ever \subseteq Ever'
  BY DashboardsGrow
<1>3. QED
  BY <1>1, <1>2 DEF PageOf

\* Sets of dashboards can be counted.
LEMMA Countable ==
  ASSUME NEW S \in SUBSET Dashboards
  PROVE  IsFiniteSet(S) /\ Cardinality(S) \in Nat
BY DashboardsAssumption, FS_Subset, FS_CardinalityType

LEMMA AllButAPageStays ==
  ASSUME StackInv, Onward, AllButAPage
  PROVE  AllButAPage'
<1>1. /\ Unrendered' \subseteq Unrendered /\ Ever \subseteq Ever'
      /\ Unrendered \in SUBSET Dashboards /\ Ever' \in SUBSET Dashboards
  BY DashboardsGrow DEF Unrendered, Stayed, Ever
<1>2. ASSUME NEW S, NEW T \in SUBSET Dashboards, S \subseteq T
      PROVE  Cardinality(S) \in Nat /\ Cardinality(T) \in Nat /\ Cardinality(S) <= Cardinality(T)
  BY <1>2, Countable, FS_Subset
<1>3. /\ Cardinality(Unrendered') \in Nat /\ Cardinality(Unrendered) \in Nat
      /\ Cardinality(Unrendered') <= Cardinality(Unrendered)
  BY <1>1, <1>2
<1>4. /\ Cardinality(Ever) \in Nat /\ Cardinality(Ever') \in Nat
      /\ Cardinality(Ever) <= Cardinality(Ever')
  BY <1>1, <1>2
<1>5. Unrendered' # {} => Unrendered # {}
  BY <1>1
<1>6. QED
  BY <1>3, <1>4, <1>5, PageAssumption DEF AllButAPage

LEMMA ClaimsStay ==
  ASSUME StackInv, StackInv', Onward, UNCHANGED <<configured, credentials>>, NEW t \in Tests
  PROVE  (Worth(t) => Worth(t)') /\ (Cause(t) => Cause(t)')
<1>1. /\ seen.db \subseteq seen'.db /\ seen.schema \subseteq seen'.schema
      /\ seen.superset \subseteq seen'.superset
  BY DEF Onward, Fields
<1>2. stack.schema \in seen.schema /\ stack.superset \in seen.superset
  BY SeenNow
<1>3. \A x : seen.superset # {x} => seen'.superset # {x}
  BY <1>1, <1>2
<1>4. \A x : seen.schema # {x} => seen'.schema # {x}
  BY <1>1, <1>2
<1>5. epoch.sessions > 0 => epoch'.sessions > 0
  BY DEF StackInv, Onward
<1>6. \A d \in Dashboards : Lives(d) # {"ok"} => Lives(d)' # {"ok"}
  <2> SUFFICES ASSUME NEW d \in Dashboards, Lives(d) # {"ok"} PROVE Lives(d)' # {"ok"}
    OBVIOUS
  <2>1. Lives(d) \subseteq Lives(d)' /\ stack.dashboards[d] \in Lives(d)
    BY LivesGrow
  <2>2. QED
    BY <2>1
<1>7. Api => Api'
  BY <1>3, <1>5 DEF Api
<1>8. Worth(t) => Worth(t)'
  BY <1>1, <1>4, AllButAPageStays DEF Worth
<1>9. Cause(t) => Cause(t)'
  BY <1>1, <1>3, <1>6, <1>7 DEF Cause
<1>10. QED
  BY <1>8, <1>9

LEMMA SmokeBegins ==
  ASSUME StackInit(Stack), SmokeInit
  PROVE  SmokeInv
<1>1. StackInv
  BY StackBegins
<1>2. SmokeType
  BY DEF SmokeInit, SmokeType, Results
<1>3. Opened /\ LoggedIn /\ Rendering
  BY DEF SmokeInit, Opened, LoggedIn, Rendering
<1>4. Verdicts
  BY DEF SmokeInit, Verdicts
<1>5. QED
  BY <1>1, <1>2, <1>3, <1>4 DEF SmokeInv

LEMMA SmokeWaits ==
  ASSUME SmokeInv, StackInv', Onward, UNCHANGED smokeVars
  PROVE  SmokeInv'
<1>1. UNCHANGED <<configured, credentials, at, pool, token, ids, verdict>>
  BY DEF smokeVars
<1>2. SmokeType'
  BY <1>1 DEF SmokeInv, SmokeType
<1>3. Opened'
  BY <1>1 DEF SmokeInv, StackInv, Opened, Onward
<1>4. LoggedIn'
  <2>1. "ok" \in seen.superset => "ok" \in seen'.superset
    BY DEF Onward, Fields
  <2>2. QED
    BY <1>1, <2>1 DEF SmokeInv, LoggedIn
<1>5. Rendering'
  <2> SUFFICES ASSUME at = "render" PROVE \E P \in SUBSET Dashboards : PageOf(P)'
    BY <1>1 DEF Rendering
  <2>1. PICK P \in SUBSET Dashboards : PageOf(P)
    BY DEF SmokeInv, Rendering
  <2>2. PageOf(P)'
    BY <1>1, <2>1, PageStays DEF SmokeInv
  <2>3. QED
    BY <2>2
<1>6. Verdicts'
  <2> SUFFICES ASSUME NEW t \in Tests
               PROVE  (verdict[t] = "pass" => Worth(t)') /\ (verdict[t] = "fail" => Cause(t)')
    BY <1>1 DEF Verdicts
  <2>1. (verdict[t] = "pass" => Worth(t)) /\ (verdict[t] = "fail" => Cause(t))
    BY DEF SmokeInv, Verdicts
  <2>2. (Worth(t) => Worth(t)') /\ (Cause(t) => Cause(t)')
    BY <1>1, ClaimsStay DEF SmokeInv
  <2>3. QED
    BY <2>1, <2>2
<1>7. QED
  BY <1>2, <1>3, <1>4, <1>5, <1>6 DEF SmokeInv

\* A test ends with a result that says what it should; its library may have
\* opened a connection or not.
LEMMA TestEnds ==
  ASSUME SmokeInv, NEW t \in Tests, NEW r \in {"pass", "fail", "skip"}, NEW then,
         End(t, r, then), then # "render",
         r = "pass" => Worth(t), r = "fail" => Cause(t),
         UNCHANGED <<stackVars, configured, credentials, token>>,
         ids' \in SUBSET Dashboards, pool' \in {pool, None, epoch.db}
  PROVE  SmokeInv'
<1>1. StackInv /\ StackInv' /\ Onward
  BY StackStands DEF SmokeInv
<1>2. UNCHANGED <<stack, epoch, seen, changes>>
  BY DEF stackVars
<1>3. /\ verdict \in [Tests -> Results] /\ verdict' = [verdict EXCEPT ![t] = r]
      /\ at' # "render"
  BY DEF SmokeInv, SmokeType, End
<1>4. SmokeType'
  BY <1>3 DEF SmokeInv, SmokeType, Results
<1>5. Opened'
  BY <1>1, <1>2 DEF SmokeInv, Opened, StackInv
<1>6. LoggedIn' /\ Rendering'
  BY <1>2, <1>3 DEF SmokeInv, LoggedIn, Rendering
<1>7. Verdicts'
  <2> SUFFICES ASSUME NEW u \in Tests
               PROVE  (verdict'[u] = "pass" => Worth(u)') /\ (verdict'[u] = "fail" => Cause(u)')
    BY DEF Verdicts
  <2>1. (Worth(u) => Worth(u)') /\ (Cause(u) => Cause(u)')
    BY <1>1, ClaimsStay
  <2>2. (verdict[u] = "pass" => Worth(u)) /\ (verdict[u] = "fail" => Cause(u))
    BY DEF SmokeInv, Verdicts
  <2>3. verdict'[u] = IF u = t THEN r ELSE verdict[u]
    BY <1>3
  <2>4. QED
    BY <2>1, <2>2, <2>3
<1>8. QED
  BY <1>1, <1>4, <1>5, <1>6, <1>7 DEF SmokeInv

\* ... in dashboards.robot, the test whose requests are being made.
LEMMA CurrentEnds ==
  ASSUME SmokeInv, NEW r \in {"pass", "fail", "skip"}, EndCurrent(r),
         r = "pass" => Worth(Current), r = "fail" => Cause(Current),
         UNCHANGED <<stackVars, configured, credentials, pool, token>>, ids' \in SUBSET Dashboards
  PROVE  SmokeInv'
<1>1. Current \in Tests
  BY DEF Current, Tests
<1>2. PICK then \in {"list", "done"} : End(Current, r, then)
  BY DEF EndCurrent
<1>3. QED
  BY <1>1, <1>2, TestEnds

\* A request of the API that is not answered with 200 has a cause.
LEMMA NotAccepted ==
  ASSUME SmokeInv, stack.superset # "ok" \/ (~MustLogIn /\ ~Accepted)
  PROVE  Api
<1>1. CASE stack.superset # "ok"
  BY <1>1, SeenNow DEF SmokeInv, Api
<1>2. CASE ~MustLogIn /\ ~Accepted
  <2>1. /\ token \in Nat /\ token <= epoch.sessions /\ token # epoch.sessions
        /\ epoch.sessions \in Nat
    BY <1>2 DEF MustLogIn, Accepted, SmokeInv, Opened, StackInv
  <2>2. epoch.sessions > 0
    BY <2>1
  <2>3. QED
    BY <2>2 DEF Api
<1>3. QED
  BY <1>1, <1>2

\* The last dashboard of the page is rendered.
LEMMA PageDone ==
  ASSUME SmokeInv, at = "render", NEW d \in ids, ids \ {d} = {}, Loads(d)
  PROVE  AllButAPage
<1>1. PICK P \in SUBSET Dashboards : PageOf(P)
  BY DEF SmokeInv, Rendering
<1>2. d \in Dashboards /\ "ok" \in Lives(d)
  <2>1. d \in Dashboards /\ stack.dashboards \in seen.dashboards /\ stack.dashboards[d] = "ok"
    BY SeenNow DEF SmokeInv, SmokeType, Loads
  <2>2. QED
    BY <2>1 DEF Lives
<1>3. \A e \in P : "ok" \in Lives(e)
  BY <1>1, <1>2 DEF PageOf
<1>4. CASE Stayed \subseteq P
  <2>1. Unrendered = {}
    BY <1>3, <1>4 DEF Unrendered
  <2>2. QED
    BY <2>1 DEF AllButAPage
<1>5. CASE Cardinality(P) = Page
  <2>1. P \subseteq Ever /\ Ever \in SUBSET Dashboards
    BY <1>1 DEF PageOf, Ever
  <2>2. Stayed \subseteq Ever
    <3>1. \A e \in Dashboards : stack.dashboards[e] \in Lives(e)
      BY SeenNow DEF SmokeInv, Lives
    <3>2. QED
      BY <3>1 DEF Stayed, Ever
  <2>3. Unrendered \subseteq Ever \ P
    BY <1>3, <2>2 DEF Unrendered
  <2>4. IsFiniteSet(Ever) /\ Ever \ P \in SUBSET Dashboards
    BY <2>1, Countable
  <2>5. /\ Cardinality(Unrendered) \in Nat /\ Cardinality(Ever \ P) \in Nat
        /\ Cardinality(Unrendered) <= Cardinality(Ever \ P)
    BY <2>3, <2>4, Countable, FS_Subset
  <2>6. Cardinality(Ever \ P) = Cardinality(Ever) - Cardinality(Ever \cap P)
    BY <2>4, <1>1, Countable, FS_Difference
  <2>7. Ever \cap P = P
    BY <2>1
  <2>8. Cardinality(Unrendered) <= Cardinality(Ever) - Page
    BY <1>5, <2>5, <2>6, <2>7
  <2>9. QED
    BY <2>8 DEF AllButAPage
<1>6. QED
  BY <1>1, <1>4, <1>5 DEF PageOf

LEMMA SmokeSteps ==
  ASSUME SmokeInv, SmokeStep
  PROVE  SmokeInv'
<1>1. /\ stack.db \in seen.db /\ stack.db \in BOOLEAN /\ stack.schema \in seen.schema
      /\ stack.superset \in seen.superset /\ configured \in BOOLEAN
      /\ credentials \in BOOLEAN /\ ids \in SUBSET Dashboards
      /\ StackInv /\ Opened /\ LoggedIn
  BY SeenNow DEF SmokeInv, SmokeType
<1>2. \A c : PassIf(c) \in {"pass", "fail", "skip"} /\ (PassIf(c) = "pass" <=> c)
             /\ (PassIf(c) = "fail" <=> ~c)
  BY DEF PassIf
<1>3. CASE UrlIsConfigured
  <2>1. Worth("url") /\ Cause("url") /\ "url" \in Tests
    BY DEF Worth, Cause, Tests
  <2>2. End("url", PassIf(configured), "alive")
    BY <1>3 DEF UrlIsConfigured
  <2>3. QED
    BY <1>1, <1>2, <1>3, <2>1, <2>2, TestEnds DEF UrlIsConfigured
<1>4. CASE ConnectionIsAlive
  <2> DEFINE r == PassIf(configured /\ stack.db)
  <2>1. /\ r \in {"pass", "fail", "skip"}
        /\ r = "pass" => configured /\ stack.db
        /\ r = "fail" => ~configured \/ ~stack.db
    BY DEF PassIf
  <2>2. r = "pass" => Worth("alive")
    BY <1>1, <2>1 DEF Worth
  <2>3. r = "fail" => Cause("alive")
    BY <1>1, <2>1 DEF Cause
  <2>4. /\ End("alive", r, "countable") /\ pool' \in {pool, None, epoch.db}
        /\ UNCHANGED <<stackVars, configured, credentials, token, ids>>
    BY <1>4 DEF ConnectionIsAlive
  <2>5. "alive" \in Tests /\ "countable" # "render"
    BY DEF Tests
  <2> HIDE DEF r
  <2>6. QED
    BY <1>1, <2>1, <2>2, <2>3, <2>4, <2>5, TestEnds
<1>5. CASE TableIsCountable
  <2> DEFINE r == PassIf(configured /\ Usable(pool) /\ stack.schema # "none")
  <2>1. /\ r \in {"pass", "fail", "skip"}
        /\ r = "pass" => stack.schema # "none"
        /\ r = "fail" => ~configured \/ ~Usable(pool) \/ stack.schema = "none"
    BY DEF PassIf
  <2>2. ~Usable(pool) => FALSE \in seen.db
    BY <1>1, DeadConnection DEF Usable, Opened
  <2>3. r = "pass" => Worth("countable")
    BY <1>1, <2>1 DEF Worth
  <2>4. r = "fail" => Cause("countable")
    BY <1>1, <2>1, <2>2 DEF Cause
  <2>5. /\ End("countable", r, "setup") /\ pool' = pool
        /\ UNCHANGED <<stackVars, configured, credentials, token, ids>>
    BY <1>5 DEF TableIsCountable
  <2>6. "countable" \in Tests /\ "setup" # "render"
    BY DEF Tests
  <2> HIDE DEF r
  <2>7. QED
    BY <1>1, <2>1, <2>3, <2>4, <2>5, <2>6, TestEnds
<1>6. CASE Setup
  <2>1. StackInv' /\ Onward
    BY <1>6, StackStands DEF Setup, SmokeInv
  <2>2. /\ UNCHANGED <<stack, epoch, seen, changes, configured, credentials, pool, token, ids>>
        /\ at' \in {"health", "done"}
    BY <1>6 DEF Setup, stackVars
  <2>3. /\ verdict \in [Tests -> Results] /\ verdict' \in [Tests -> Results]
        /\ \A t \in Tests : verdict'[t] \in {verdict[t], "skip"}
    BY <1>6 DEF Setup, SmokeInv, SmokeType, Results
  <2>4. SmokeType' /\ Opened' /\ LoggedIn' /\ Rendering'
    BY <2>2, <2>3 DEF SmokeInv, SmokeType, Opened, LoggedIn, Rendering
  <2>5. Verdicts'
    <3> SUFFICES ASSUME NEW t \in Tests
                 PROVE  (verdict'[t] = "pass" => Worth(t)') /\ (verdict'[t] = "fail" => Cause(t)')
      BY DEF Verdicts
    <3>1. (Worth(t) => Worth(t)') /\ (Cause(t) => Cause(t)')
      BY <2>1, <2>2, ClaimsStay DEF SmokeInv
    <3>2. (verdict[t] = "pass" => Worth(t)) /\ (verdict[t] = "fail" => Cause(t))
      BY DEF SmokeInv, Verdicts
    <3>3. QED
      BY <2>3, <3>1, <3>2
  <2>6. QED
    BY <2>1, <2>4, <2>5 DEF SmokeInv
<1>7. CASE HealthEndpointResponds
  <2> DEFINE r == PassIf(stack.superset = "ok")
  <2>1. r \in {"pass", "fail", "skip"} /\ (r = "fail" => stack.superset # "ok")
    BY DEF PassIf
  <2>2. Worth("health") /\ (r = "fail" => Cause("health"))
    BY <1>1, <2>1 DEF Worth, Cause
  <2>3. /\ End("health", r, "list") /\ pool' = pool
        /\ UNCHANGED <<stackVars, configured, credentials, token, ids>>
    BY <1>7 DEF HealthEndpointResponds
  <2>4. "health" \in Tests /\ "list" # "render"
    BY DEF Tests
  <2> HIDE DEF r
  <2>5. QED
    BY <1>1, <2>1, <2>2, <2>3, <2>4, TestEnds
<1>8. CASE LogIn
  <2>1. UNCHANGED <<stackVars, configured, credentials, pool, ids>>
    BY <1>8 DEF LogIn
  <2>2. CASE stack.superset = "ok" /\ credentials
    <3>1. UNCHANGED <<at, verdict>> /\ token' = epoch.sessions /\ at # "render"
      BY <1>8, <2>2 DEF LogIn
    <3>2. StackInv' /\ Onward /\ UNCHANGED <<stack, epoch, seen, changes>>
      BY <2>1, StackStands DEF SmokeInv, stackVars
    <3>3. SmokeType' /\ Rendering'
      BY <2>1, <3>1 DEF SmokeInv, SmokeType, Rendering
    <3>4. Opened'
      BY <1>1, <2>1, <3>1, <3>2 DEF Opened, StackInv
    <3>5. LoggedIn'
      BY <1>1, <2>1, <2>2, <3>1, <3>2 DEF LoggedIn
    <3>6. Verdicts'
      <4> SUFFICES ASSUME NEW t \in Tests
                   PROVE  (verdict[t] = "pass" => Worth(t)') /\ (verdict[t] = "fail" => Cause(t)')
        BY <3>1 DEF Verdicts
      <4>1. (Worth(t) => Worth(t)') /\ (Cause(t) => Cause(t)')
        BY <2>1, <3>2, ClaimsStay DEF SmokeInv
      <4>2. (verdict[t] = "pass" => Worth(t)) /\ (verdict[t] = "fail" => Cause(t))
        BY DEF SmokeInv, Verdicts
      <4>3. QED
        BY <4>1, <4>2
    <3>7. QED
      BY <3>2, <3>3, <3>4, <3>5, <3>6 DEF SmokeInv
  <2>3. CASE ~(stack.superset = "ok" /\ credentials)
    <3>1. EndCurrent("fail") /\ token' = token
      BY <1>8, <2>3 DEF LogIn
    <3>2. Api
      BY <1>1, <2>3 DEF Api
    <3>3. Cause(Current)
      BY <3>2 DEF Cause, Current
    <3>4. QED
      BY <1>1, <2>1, <3>1, <3>3, CurrentEnds
  <2>4. QED
    BY <2>2, <2>3
<1>9. CASE ListDashboards
  <2>1. UNCHANGED <<stackVars, configured, credentials, pool, token>> /\ at = "list" /\ ~MustLogIn
    BY <1>9 DEF ListDashboards
  <2>2. CASE stack.superset # "ok" \/ ~Accepted
    <3>1. EndCurrent("fail") /\ ids' = ids
      BY <1>9, <2>2 DEF ListDashboards
    <3>2. Cause(Current)
      BY <2>1, <2>2, NotAccepted DEF Cause, Current
    <3>3. QED
      BY <1>1, <2>1, <3>1, <3>2, CurrentEnds
  <2>3. CASE ~(stack.superset # "ok" \/ ~Accepted) /\ Current = "discoverable"
    <3>1. EndCurrent("pass") /\ ids' = ids
      BY <1>9, <2>3 DEF ListDashboards
    <3>2. Worth(Current)
      BY <2>3 DEF Worth
    <3>3. QED
      BY <1>1, <2>1, <3>1, <3>2, CurrentEnds
  <2>4. CASE ~(stack.superset # "ok" \/ ~Accepted) /\ Current # "discoverable" /\ Present = {}
    <3>1. EndCurrent("skip") /\ ids' = ids
      BY <1>9, <2>4 DEF ListDashboards
    <3>2. QED
      BY <1>1, <2>1, <3>1, CurrentEnds
  <2>5. CASE ~(stack.superset # "ok" \/ ~Accepted) /\ Current # "discoverable" /\ Present # {}
    <3>1. at' = "render" /\ ids' \in Pages /\ verdict' = verdict
      BY <1>9, <2>5 DEF ListDashboards
    <3>2. StackInv' /\ Onward /\ UNCHANGED <<stack, epoch, seen, changes>>
      BY <2>1, StackStands DEF SmokeInv, stackVars
    <3>3. /\ ids' \in SUBSET Dashboards /\ ids' \subseteq Present
          /\ ids' = Present \/ Cardinality(ids') = Page
      BY <3>1 DEF Pages, Present
    <3>4. SmokeType'
      BY <2>1, <3>1, <3>3 DEF SmokeInv, SmokeType
    <3>5. Opened'
      BY <1>1, <2>1, <3>2 DEF Opened
    <3>6. LoggedIn'
      <4>1. token # None /\ verdict["discoverable"] # "none"
        BY <2>1, <2>5 DEF MustLogIn, Current
      <4>2. QED
        BY <1>1, <2>1, <3>1, <3>2, <4>1 DEF LoggedIn
    <3>7. Rendering'
      <4>1. \A d \in Dashboards : stack.dashboards[d] \in Lives(d)
        BY SeenNow DEF SmokeInv, Lives
      <4>2. Stayed \subseteq Present /\ Present \subseteq Ever
        BY <4>1 DEF Stayed, Present, Ever
      <4>3. Stayed' = Stayed /\ Ever' = Ever
        BY <3>2 DEF Stayed, Ever, Lives
      <4>4. PICK P \in SUBSET Dashboards : P = ids'
        BY <3>3
      <4>5. PageOf(P)'
        BY <3>3, <4>2, <4>3, <4>4 DEF PageOf
      <4>6. QED
        BY <4>5 DEF Rendering
    <3>8. Verdicts'
      <4> SUFFICES ASSUME NEW t \in Tests
                   PROVE  (verdict[t] = "pass" => Worth(t)') /\ (verdict[t] = "fail" => Cause(t)')
        BY <3>1 DEF Verdicts
      <4>1. (Worth(t) => Worth(t)') /\ (Cause(t) => Cause(t)')
        BY <2>1, <3>2, ClaimsStay DEF SmokeInv
      <4>2. (verdict[t] = "pass" => Worth(t)) /\ (verdict[t] = "fail" => Cause(t))
        BY DEF SmokeInv, Verdicts
      <4>3. QED
        BY <4>1, <4>2
    <3>9. QED
      BY <3>2, <3>4, <3>5, <3>6, <3>7, <3>8 DEF SmokeInv
  <2>6. QED
    BY <2>2, <2>3, <2>4, <2>5
<1>10. ASSUME NEW d \in Dashboards, Render(d) PROVE SmokeInv'
  <2>1. /\ UNCHANGED <<stackVars, configured, credentials, pool, token>>
        /\ at = "render" /\ d \in ids /\ ids' = ids \ {d} /\ ids' \in SUBSET Dashboards
    BY <1>1, <1>10 DEF Render
  <2>2. Current = "render" /\ token # None /\ credentials /\ "ok" \in seen.superset
    BY <1>1, <2>1 DEF Current, LoggedIn
  <2>3. CASE ~Loads(d)
    <3>1. EndCurrent("fail")
      BY <1>10, <2>3 DEF Render, PassIf
    <3>2. Cause(Current)
      <4>1. CASE stack.superset # "ok" \/ ~Accepted
        BY <2>2, <4>1, NotAccepted DEF MustLogIn, Cause
      <4>2. CASE stack.dashboards[d] # "ok"
        <5>1. stack.dashboards[d] \in Lives(d)
          BY SeenNow DEF SmokeInv, Lives
        <5>2. QED
          BY <2>2, <4>2, <5>1 DEF Cause
      <4>3. QED
        BY <2>3, <4>1, <4>2 DEF Loads
    <3>3. QED
      BY <2>1, <3>1, <3>2, CurrentEnds
  <2>4. CASE Loads(d) /\ ids' = {}
    <3>1. EndCurrent("pass")
      BY <1>10, <2>4 DEF Render, PassIf
    <3>2. Worth(Current)
      BY <2>1, <2>2, <2>4, PageDone DEF Worth
    <3>3. QED
      BY <2>1, <3>1, <3>2, CurrentEnds
  <2>5. CASE Loads(d) /\ ids' # {}
    <3>1. UNCHANGED <<at, verdict>>
      BY <1>10, <2>5 DEF Render
    <3>2. StackInv' /\ Onward /\ UNCHANGED <<stack, epoch, seen, changes>>
      BY <2>1, StackStands DEF SmokeInv, stackVars
    <3>3. SmokeType' /\ Opened' /\ LoggedIn'
      BY <1>1, <2>1, <3>1, <3>2 DEF SmokeInv, SmokeType, Opened, LoggedIn
    <3>4. Rendering'
      <4>1. PICK P \in SUBSET Dashboards : PageOf(P)
        BY <2>1 DEF SmokeInv, Rendering
      <4>2. "ok" \in Lives(d)
        BY <2>5, SeenNow DEF SmokeInv, Lives, Loads
      <4>3. Stayed' = Stayed /\ Ever' = Ever /\ \A e : Lives(e)' = Lives(e)
        BY <3>2 DEF Stayed, Ever, Lives
      <4>4. PageOf(P)'
        BY <2>1, <4>1, <4>2, <4>3 DEF PageOf
      <4>5. QED
        BY <4>4 DEF Rendering
    <3>5. Verdicts'
      <4> SUFFICES ASSUME NEW t \in Tests
                   PROVE  (verdict[t] = "pass" => Worth(t)') /\ (verdict[t] = "fail" => Cause(t)')
        BY <3>1 DEF Verdicts
      <4>1. (Worth(t) => Worth(t)') /\ (Cause(t) => Cause(t)')
        BY <2>1, <3>2, ClaimsStay DEF SmokeInv
      <4>2. (verdict[t] = "pass" => Worth(t)) /\ (verdict[t] = "fail" => Cause(t))
        BY DEF SmokeInv, Verdicts
      <4>3. QED
        BY <4>1, <4>2
    <3>6. QED
      BY <3>2, <3>3, <3>4, <3>5 DEF SmokeInv
  <2>6. QED
    BY <2>3, <2>4, <2>5
<1>11. QED
  BY <1>3, <1>4, <1>5, <1>6, <1>7, <1>8, <1>9, <1>10 DEF SmokeStep

LEMMA SmokeInvariant == SmokeSpec => []SmokeInv
<1>1. StackInit(Stack) /\ SmokeInit => SmokeInv
  BY SmokeBegins
<1>2. SmokeInv /\ [SmokeNext]_<<stackVars, smokeVars>> => SmokeInv'
  <2>1. ASSUME SmokeInv, UNCHANGED <<stackVars, smokeVars>> PROVE SmokeInv'
    BY <2>1, StackStands, SmokeWaits DEF SmokeInv
  <2>2. ASSUME SmokeInv, StackStep(FALSE), UNCHANGED smokeVars PROVE SmokeInv'
    BY <2>2, StackMoves, SmokeWaits DEF SmokeInv
  <2>3. QED
    BY <2>1, <2>2, SmokeSteps DEF SmokeNext
<1>3. QED
  BY <1>1, <1>2, PTL DEF SmokeSpec

\* A test that passed found in order what it is about; and no more of the
\* dashboards that stayed can be unrendered than do not fit on a page.
THEOREM PassesAreTrue == SmokeSpec => []PassWasTrue
<1>1. SmokeInv => PassWasTrue
  <2> SUFFICES ASSUME SmokeInv PROVE PassWasTrue
    OBVIOUS
  <2>1. /\ verdict["alive"] = "pass" => Worth("alive")
        /\ verdict["countable"] = "pass" => Worth("countable")
        /\ verdict["render"] = "pass" => Worth("render")
    BY DEF SmokeInv, Verdicts, Tests
  <2>2. QED
    BY <2>1 DEF PassWasTrue, Worth, AllButAPage, Unrendered, Stayed, Ever
<1>2. QED
  BY <1>1, SmokeInvariant, PTL

\* A test that failed found something that was wrong, at some moment of the run.
THEOREM FailuresHaveCauses == SmokeSpec => []FailureHasCause
<1>1. SmokeInv => FailureHasCause
  <2> SUFFICES ASSUME SmokeInv PROVE FailureHasCause
    OBVIOUS
  <2>1. \A t \in {"alive", "countable", "health", "discoverable", "render"} :
          verdict[t] = "fail" => Cause(t)
    BY DEF SmokeInv, Verdicts, Tests
  <2>2. QED
    BY <2>1 DEF FailureHasCause, Cause, Api
<1>2. QED
  BY <1>1, SmokeInvariant, PTL
=============================================================================
