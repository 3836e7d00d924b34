------------------------------ MODULE EventLog ------------------------------
(***************************************************************************)
(* What a buffering sink promises about the events it takes: an            *)
(* at-least-once log.  An accepted event is owed until it is in the log;   *)
(* a batch may be written again (its acknowledgement can be lost) but a    *)
(* write never mixes in anything that is not owed.  Only closing the log   *)
(* forgives what is still owed.                                            *)
(***************************************************************************)
EXTENDS Naturals, Sequences

CONSTANT Event

VARIABLES log,   \* rows that are durable, in the order they were written
          owed,  \* events accepted and not yet known to be durable
          open   \* the log still takes events

logVars == <<log, owed, open>>

Written == {log[i] : i \in DOMAIN log}

Init == log = <<>> /\ owed = {} /\ open = TRUE

Accept ==
  /\ open
  /\ \E e \in Event : owed' = owed \cup {e}
  /\ UNCHANGED <<log, open>>

\* One batch of owed events becomes durable behind what is already there.
Persist ==
  /\ Len(log') >= Len(log)
  /\ \A i \in 1..Len(log) : log'[i] = log[i]
  /\ \A i \in (Len(log) + 1)..Len(log') : log'[i] \in owed
  /\ UNCHANGED <<owed, open>>

\* A batch is known to be durable: nothing unwritten is forgotten.
Acknowledge ==
  /\ owed' \subseteq owed
  /\ owed \ owed' \subseteq Written
  /\ UNCHANGED <<log, open>>

Close ==
  /\ open
  /\ open' = FALSE
  /\ owed' = {}
  /\ UNCHANGED log

\* The process dies: it takes no more events, but a batch it had already
\* sent may still land.
Crash ==
  /\ open' = FALSE
  /\ UNCHANGED <<log, owed>>

Next == Accept \/ Persist \/ Acknowledge \/ Close \/ Crash

Spec == Init /\ [][Next]_logVars
=============================================================================
