----------------------------- MODULE SmokeSuites -----------------------------
(***************************************************************************)
(* One run of robot/connection.robot and robot/dashboards.robot with the   *)
(* two keyword libraries of keywords.py, against a stack in use.  Each     *)
(* request is a step.  The libraries live as long as their suite: one      *)
(* keeps an engine with a pooled connection, the other a login token, and  *)
(* neither is renewed when the other side has dropped it.                  *)
(***************************************************************************)
EXTENDS Stack

CONSTANTS Page, \* dashboards on one page of the API's answer
          None

ASSUME PageAssumption == Page \in Nat \ {0}

VARIABLES configured,  \* DATABASE_URL is set
          credentials, \* the user and the password are right
          at,          \* the next test, or the request of a test
          pool,        \* the pooled connection of SupersetKeywords._engine
          token,       \* SupersetDashboardKeywords._token: the epoch of its session
          ids,         \* the dashboards that are still to be rendered
          verdict      \* the result of each test

smokeVars == <<configured, credentials, at, pool, token, ids, verdict>>

Tests == {"url", "alive", "countable", "health", "discoverable", "render"}

SmokeInit ==
  /\ configured \in BOOLEAN
  /\ credentials \in BOOLEAN
  /\ at = "url"
  /\ pool = None
  /\ token = None
  /\ ids = {}
  /\ verdict = [t \in Tests |-> "none"]

\* A test ends, and what follows it begins.
End(test, result, then) ==
  /\ verdict' = [verdict EXCEPT ![test] = result]
  /\ at' = then

PassIf(condition) == IF condition THEN "pass" ELSE "fail"

-----------------------------------------------------------------------------
(* connection.robot                                                         *)

UrlIsConfigured ==
  /\ at = "url"
  /\ End("url", PassIf(configured), "alive")
  /\ UNCHANGED <<stackVars, configured, credentials, pool, token, ids>>

\* Connect To Database: the first connection of the engine.
ConnectionIsAlive ==
  /\ at = "alive"
  /\ End("alive", PassIf(configured /\ stack.db), "countable")
  /\ pool' = IF configured /\ stack.db THEN epoch.db ELSE None
  /\ UNCHANGED <<stackVars, configured, credentials, token, ids>>

\* A pooled connection is used as it is, a new one is opened when there is none.
Usable(connection) == IF connection = None THEN stack.db ELSE Alive(connection)

\* Get Table Row Counts: every failure of the query is the count -1.
TableIsCountable ==
  /\ at = "countable"
  /\ End("countable", PassIf(configured /\ Usable(pool) /\ stack.schema # "none"), "setup")
  /\ UNCHANGED <<stackVars, configured, credentials, pool, token, ids>>

-----------------------------------------------------------------------------
(* dashboards.robot                                                         *)

\* Skip Unless Superset Reachable
Setup ==
  /\ at = "setup"
  /\ IF stack.superset = "ok"
     THEN at' = "health" /\ UNCHANGED verdict
     ELSE /\ at' = "done"
          /\ verdict' = [t \in Tests |->
               IF t \in {"health", "discoverable", "render"} THEN "skip" ELSE verdict[t]]
  /\ UNCHANGED <<stackVars, configured, credentials, pool, token, ids>>

HealthEndpointResponds ==
  /\ at = "health"
  /\ End("health", PassIf(stack.superset = "ok"), "list")
  /\ UNCHANGED <<stackVars, configured, credentials, pool, token, ids>>

\* The test whose requests are being made.
Current == IF verdict["discoverable"] = "none" THEN "discoverable" ELSE "render"

EndCurrent(result) ==
  End(Current, result, IF Current = "discoverable" THEN "list" ELSE "done")

\* Mutant: the empty token counts as one.
MustNotLogIn == FALSE

\* _login returns the token it has, whatever became of it.
MustLogIn == token = None

LogIn ==
  /\ at = "list"
  /\ MustLogIn
  /\ IF stack.superset = "ok" /\ credentials
     THEN token' = epoch.sessions /\ UNCHANGED <<at, verdict>>
     ELSE EndCurrent("fail") /\ UNCHANGED token
  /\ UNCHANGED <<stackVars, configured, credentials, pool, ids>>

Accepted == token = epoch.sessions

Present == {d \in Dashboards : stack.dashboards[d] # "absent"}

\* The API answers with one page, all that is there if it fits.
Pages == {S \in SUBSET Present : IF Cardinality(Present) <= Page THEN S = Present
                                                              ELSE Cardinality(S) = Page}

ListDashboards ==
  /\ at = "list"
  /\ ~MustLogIn
  /\ IF stack.superset # "ok" \/ ~Accepted
     THEN EndCurrent("fail") /\ UNCHANGED ids
     ELSE IF Current = "discoverable" THEN EndCurrent("pass") /\ UNCHANGED ids
     ELSE IF Present = {} THEN EndCurrent("skip") /\ UNCHANGED ids
     ELSE at' = "render" /\ ids' \in Pages /\ UNCHANGED verdict
  /\ UNCHANGED <<stackVars, configured, credentials, pool, token>>

\* Mutant: any answer counts as a rendered dashboard.
LoadsAnyhow(d) == stack.superset # "down"

\* HTTP 200
Loads(d) == stack.superset = "ok" /\ Accepted /\ stack.dashboards[d] = "ok"

Render(d) ==
  /\ at = "render"
  /\ d \in ids
  /\ ids' = ids \ {d}
  /\ IF Loads(d) /\ ids' # {} THEN UNCHANGED <<at, verdict>> ELSE EndCurrent(PassIf(Loads(d)))
  /\ UNCHANGED <<stackVars, configured, credentials, pool, token>>

SmokeStep ==
  \/ UrlIsConfigured \/ ConnectionIsAlive \/ TableIsCountable
  \/ Setup \/ HealthEndpointResponds
  \/ LogIn \/ ListDashboards
  \/ \E d \in Dashboards : Render(d)

\* The run, and the stack that goes on meanwhile.
SmokeNext ==
  \/ SmokeStep
  \/ StackStep(FALSE) /\ UNCHANGED smokeVars

SmokeSpec ==
  StackInit(Stack) /\ SmokeInit /\ [][SmokeNext]_<<stackVars, smokeVars>>

-----------------------------------------------------------------------------
(* Properties.                                                              *)

\* The values a dashboard has had during the run.
Lives(d) == {m[d] : m \in seen.dashboards}

\* A pass is worth what it says, on a stack that moves: the database was up,
\* the table was there, Superset answered; and of the dashboards that were
\* there all the time no more can be unrendered than do not fit on a page.
PassWasTrue ==
  /\ verdict["alive"] = "pass" => TRUE \in seen.db
  /\ verdict["countable"] = "pass" => seen.schema # {"none"}
  /\ verdict["render"] = "pass" =>
       LET stayed == {d \in Dashboards : "absent" \notin Lives(d)}
           unrendered == {d \in stayed : "ok" \notin Lives(d)}
           ever == {d \in Dashboards : Lives(d) # {"absent"}} IN
       /\ credentials /\ "ok" \in seen.superset
       /\ unrendered # {} => Cardinality(unrendered) <= Cardinality(ever) - Page

\* No false alarm without a cause: a test that fails found something wrong
\* that was wrong at some moment of the run.  Among the causes are a database
\* that went down and is back (the pooled connection is dead) and sessions
\* that expired (the cached token is).
FailureHasCause ==
  LET api == ~credentials \/ seen.superset # {"ok"} \/ epoch.sessions > 0 IN
  /\ verdict["alive"] = "fail" => ~configured \/ FALSE \in seen.db
  /\ verdict["countable"] = "fail" => ~configured \/ FALSE \in seen.db \/ "none" \in seen.schema
  /\ verdict["health"] = "fail" => seen.superset # {"ok"}
  /\ verdict["discoverable"] = "fail" => api
  /\ verdict["render"] = "fail" => api \/ \E d \in Dashboards : Lives(d) # {"ok"}
=============================================================================
