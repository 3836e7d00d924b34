------------------------------ MODULE LossyLog ------------------------------
(***************************************************************************)
(* What a sink promises that never keeps an event for a second try: an     *)
(* at-most-once log.  The events it holds leave from the front; those that *)
(* leave are read in the log once and in the order in which they were      *)
(* taken, or never.                                                        *)
(***************************************************************************)
EXTENDS Naturals, Sequences

VARIABLES log,  \* events that can be read, in file order
          held, \* events taken and not yet gone, in the order taken
          taken \* how many events were taken; the n-th is n

logVars == <<log, held, taken>>

Init == log = <<>> /\ held = <<>> /\ taken = 0

Take ==
  /\ taken' = taken + 1
  /\ held' = Append(held, taken')
  /\ UNCHANGED log

\* The first n events leave; what the log gains are some of them, in order.
Leave(n) ==
  /\ held' = SubSeq(held, n + 1, Len(held))
  /\ Len(log') >= Len(log)
  /\ \A i \in 1..Len(log) : log'[i] = log[i]
  /\ \A i \in (Len(log) + 1)..Len(log') :
       /\ \E j \in 1..n : log'[i] = held[j]
       /\ i > 1 => log'[i - 1] < log'[i]
  /\ UNCHANGED taken

Next == Take \/ \E n \in DOMAIN held : Leave(n)

Spec == Init /\ [][Next]_logVars
=============================================================================
