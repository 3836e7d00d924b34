------------------------------ MODULE Sanitize -------------------------------
(***************************************************************************)
(* infra/scripts/sanitize_superset_db.py: one run of `make sanitize`.  It  *)
(* counts the rows, asks the operator, and truncates the table, while the  *)
(* stack goes on.  The connection goes back to the pool between the steps  *)
(* and is not tried out before it is used again.                           *)
(***************************************************************************)
EXTENDS Stack

VARIABLES point,     \* the next step
          confirmed, \* --yes, or the operator's answer
          pooled,    \* the connection in the engine's pool
          counted,   \* sanitize's local count
          late,      \* history: rows that arrived between count and truncate
          gone,      \* history: rows that the truncate deleted
          exit       \* exit code

sanitizeVars == <<point, confirmed, pooled, counted, late, gone, exit>>

SanitizeInit ==
  /\ point = "count"
  /\ confirmed \in BOOLEAN
  /\ pooled = 0
  /\ counted = 0
  /\ late = 0
  /\ gone = 0
  /\ exit = 0

Exit(code) == point' = "done" /\ exit' = code

\* SELECT COUNT(*): an empty table is left alone.
Count ==
  /\ point = "count"
  /\ stack.db
  /\ stack.schema # "none"
  /\ counted' = stack.rows
  /\ pooled' = epoch.db
  /\ IF stack.rows = 0
     THEN Exit(0)
     ELSE point' = (IF confirmed THEN "truncate" ELSE "ask") /\ UNCHANGED exit
  /\ UNCHANGED <<stackVars, confirmed, late, gone>>

\* Mutant: an answer is enough, whatever it is.
Agreed(answer) == TRUE

Agrees(answer) == answer = "yes"

Ask(answer) ==
  /\ point = "ask"
  /\ confirmed' = (answer = "yes")
  /\ IF Agrees(answer) THEN point' = "truncate" /\ UNCHANGED exit ELSE Exit(1)
  /\ UNCHANGED <<stackVars, pooled, counted, late, gone>>

\* TRUNCATE takes effect in the database, on whatever rows are there by now;
\* the answer is still to come.
Truncate ==
  /\ point = "truncate"
  /\ Alive(pooled)
  /\ Becomes(Truncated(stack))
  /\ gone' = stack.rows
  /\ point' = "commit"
  /\ UNCHANGED <<epoch, changes, confirmed, pooled, counted, late, exit>>

Answered ==
  /\ point = "commit"
  /\ Alive(pooled)
  /\ Exit(0)
  /\ UNCHANGED <<stackVars, confirmed, pooled, counted, late, gone>>

\* No database, no table, or a connection that died since it was opened.
SanitizeFails ==
  /\ \/ point = "count" /\ (~stack.db \/ stack.schema = "none")
     \/ point \in {"truncate", "commit"} /\ ~Alive(pooled)
  /\ Exit(1)
  /\ UNCHANGED <<stackVars, confirmed, pooled, counted, late, gone>>

SanitizeStep ==
  \/ Count
  \/ \E answer \in {"yes", "no"} : Ask(answer)
  \/ Truncate
  \/ Answered
  \/ SanitizeFails

\* The stack goes on meanwhile, and sinks may write.
Meanwhile ==
  /\ StackStep(FALSE)
  /\ late' = IF point \in {"ask", "truncate"} /\ stack'.rows > stack.rows
             THEN late + stack'.rows - stack.rows
             ELSE late
  /\ UNCHANGED <<point, confirmed, pooled, counted, gone, exit>>

SanitizeNext == SanitizeStep \/ Meanwhile

SanitizeSpec ==
  StackInit(Stack) /\ SanitizeInit /\ [][SanitizeNext]_<<stackVars, sanitizeVars>>

-----------------------------------------------------------------------------
(* Properties.                                                              *)

\* Exit code 0 means that the table was empty at some moment of the run, 1
\* that nothing was deleted, or that the database went away under a truncate
\* that had been agreed to.  Nothing is deleted without an agreement, nor
\* where the count was zero; the count that the operator agreed to is a floor
\* only: rows that arrive before the truncate go too, uncounted (28, 36-37),
\* and nothing beyond them does.
SanitizeTells ==
  /\ point = "done" /\ exit = 0 => 0 \in seen.rows
  /\ point = "done" /\ exit = 1 => gone = 0 \/ FALSE \in seen.db
  /\ gone > 0 => confirmed /\ counted > 0 /\ gone <= counted + late
=============================================================================
