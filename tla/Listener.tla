------------------------------ MODULE Listener ------------------------------
(***************************************************************************)
(* listeners/base.py and listeners/robot_listener.py: the Robot Framework  *)
(* listener.  Robot calls start_* and end_* in the nesting order of the    *)
(* run; the listener counts open suites to tell the run from a suite, and  *)
(* pairs each end with the start stamp it keeps under the identity of the  *)
(* data object.  A failing sink is skipped inside _emit and changes        *)
(* nothing here; a hook may raise at any point, which cuts its callback    *)
(* short, and Robot carries on.                                            *)
(***************************************************************************)
EXTENDS Integers, FiniteSets, Sequences

CONSTANTS Ids,       \* identities of data objects (_identity)
          MaxRaises, \* bound: hooks that raise
          MaxCalls,  \* bound: callbacks
          None       \* no stamp

ASSUME RaisesAssumption == MaxRaises \in Nat
ASSUME CallsAssumption == MaxCalls \in Nat
ASSUME NoneAssumption == None \notin Nat

Kind == {"suite", "test", "keyword"}
Status == {"PASS", "FAIL", "SKIP"}

\* What one of a hook's body and its raising leaves behind: everything; the
\* stamp written or popped, and no event; or all of it, and then it raises.
Outcome == {"returns", "early", "midway", "late"}

VARIABLES open,     \* what Robot is executing, outermost first
          results,  \* Robot's tree: the tests finished in this run
          calls,    \* bound: callbacks so far; also the monotonic clock
          raises,   \* bound: hooks that raised so far
          keyword_events,  \* the listener's option
          _suite_depth,
          _run_started_ns,
          started,  \* _suite_/_test_/_keyword_started_ns, by kind
          last,     \* the events of the latest callback
          runs,     \* history: top-level suites Robot has started
          runStarts, \* history: calls of on_run_start
          runEnds,  \* history: calls of on_run_end
          slips     \* history: what may confuse the stamps.  "stamp": a start
                    \* hook left none; "pop": an end hook did not take one away;
                    \* "depth": on_suite_end raised; "id": in this run a keyword
                    \* began under the id of one it is nested in

run == <<_suite_depth, _run_started_ns, runStarts, runEnds>>
vars == <<open, results, calls, raises, keyword_events, run, started, last, runs, slips>>

Init ==
  /\ open = <<>>
  /\ results = <<>>
  /\ calls = 0
  /\ raises = 0
  /\ keyword_events \in BOOLEAN
  /\ _suite_depth = 0
  /\ _run_started_ns = None
  /\ started = [k \in Kind |-> [i \in Ids |-> None]]
  /\ last = <<>>
  /\ runs = 0
  /\ runStarts = 0
  /\ runEnds = 0
  /\ slips = {}

-----------------------------------------------------------------------------
(* Two clock reads fall in the callbacks that also mark the run: on_run_    *)
(* start reads before on_suite_start, on_run_end after on_suite_end.        *)

Now == 2 * calls
Later == Now + 1

Top == open[Len(open)]
Inside(kinds) == open # <<>> /\ Top.kind \in kinds

\* stamped: what the start hooks left a stamp of, this item and "run".
Push(kind, id, stamped) ==
  open' = Append(open, [kind |-> kind, id |-> id, began |-> Now,
                        before |-> Len(results), stamped |-> stamped])
Pop == open' = SubSeq(open, 1, Len(open) - 1)

\* A callback, in which at most one hook raises.
Callback(how) ==
  /\ calls < MaxCalls /\ calls' = calls + 1
  /\ raises' = IF how = "returns" THEN raises ELSE raises + 1
  /\ raises' <= MaxRaises

Acted(how) == how # "early"
Told(how) == how \in {"returns", "late"}
Emitted(how, events) == IF Told(how) THEN events ELSE <<>>
OnlyIf(name, happened) == IF happened THEN {name} ELSE {}

\* Robot's identities: two open suites, or tests, never share one.  Keywords
\* may: those of a user keyword's body are numbered from that body alone.
Free(kind, id) == \A i \in DOMAIN open : open[i].kind = kind => open[i].id # id

Event(kind, phase, duration, actual) ==
  [type |-> <<kind, phase>>, duration |-> duration, actual |-> actual]

Started(kind, id) == <<Event(kind, "start", -1, -1)>>

\* Mutant: one dictionary for suites, tests and keywords.
StampShared(kind, id, ns) ==
  started' = [k \in Kind |-> [started[k] EXCEPT ![id] = ns]]

Stamp(kind, id, ns) == started' = [started EXCEPT ![kind][id] = ns]

\* The start hook of (kind, id).
OnStart(kind, id, how) ==
  IF Acted(how) THEN Stamp(kind, id, Now) ELSE UNCHANGED started

\* Mutant: the stamp is read and not removed.
UnstampNothing(kind, id) == UNCHANGED started

Unstamp(kind, id) == Stamp(kind, id, None)

\* The end hook of (kind, id): self._..._started_ns.pop(identity, None).
OnEnd(kind, id, how) ==
  IF Acted(how) THEN Unstamp(kind, id) ELSE UNCHANGED started

\* duration_since(popped stamp, now), or -1 when there is no stamp.
Since(stamp, ns) == IF stamp = None THEN -1 ELSE ns - stamp

\* The end event of the innermost item; "actual" is what its duration should
\* be, -1 when the start hook left no stamp to reckon it from.
Popped(kind, id, ns) ==
  <<Event(kind, "end", Since(started[kind][id], ns),
          IF kind \in Top.stamped THEN ns - Top.began ELSE -1)>>

-----------------------------------------------------------------------------
(* Robot's result tree.                                                     *)

\* A suite teardown that fails or skips rewrites the statuses of the suite's
\* tests, after their end_test and before the suite's end_suite.
Override(status, teardown) ==
  IF teardown = "skipped" THEN "SKIP"
  ELSE IF teardown = "failed" /\ status # "SKIP" THEN "FAIL"
  ELSE status

Rewritten(teardown) ==
  [i \in DOMAIN results |->
     IF i <= Top.before THEN results[i]
     ELSE [results[i] EXCEPT !.now = Override(results[i].now, teardown)]]

Teardown == {"passed", "failed", "skipped"}

Counted(tree, statuses) == Cardinality({i \in DOMAIN tree : tree[i].now \in statuses})

\* Mutant: a skipped test counts as failed.
RunTotalsNoSkip(tree) ==
  [passed |-> Counted(tree, {"PASS"}), skipped |-> 0,
   failed |-> Counted(tree, Status \ {"PASS"})]

\* _run_totals over the result tree: whatever is neither PASS nor SKIP failed.
RunTotals(tree) ==
  [passed |-> Counted(tree, {"PASS"}), skipped |-> Counted(tree, {"SKIP"}),
   failed |-> Counted(tree, Status \ {"PASS", "SKIP"})]

RunEnd(tree) ==
  [type |-> <<"run", "end">>, duration |-> Since(_run_started_ns, Later),
   actual |-> IF "run" \in open[1].stamped THEN Later - open[1].began ELSE -1,
   failed |-> RunTotals(tree).failed]

-----------------------------------------------------------------------------
(* The callbacks.                                                           *)

\* start_suite: the depth goes up first.  Robot's run is new when nothing was
\* open.
OpenSuite(id, stamped) ==
  /\ open = <<>> \/ Inside({"suite"})
  /\ Free("suite", id)
  /\ Push("suite", id, stamped)
  /\ runs' = IF open = <<>> THEN runs + 1 ELSE runs
  /\ results' = IF open = <<>> THEN <<>> ELSE results
  /\ _suite_depth' = _suite_depth + 1
  /\ UNCHANGED <<keyword_events, runEnds>>

Carried == IF open = <<>> THEN slips \ {"id"} ELSE slips

\* ... above 1: a suite inside the run.
StartSuite(id, how) ==
  /\ Callback(how)
  /\ OpenSuite(id, OnlyIf("suite", Acted(how)))
  /\ _suite_depth' # 1
  /\ OnStart("suite", id, how)
  /\ last' = Emitted(how, Started("suite", id))
  /\ slips' = Carried \cup OnlyIf("stamp", ~Acted(how))
  /\ UNCHANGED <<_run_started_ns, runStarts>>

\* ... at 1: on_run_start, which returns, then on_suite_start.
StartRun(id, how) ==
  /\ Callback(how)
  /\ OpenSuite(id, {"run"} \cup OnlyIf("suite", Acted(how)))
  /\ _suite_depth' = 1
  /\ _run_started_ns' = Now
  /\ runStarts' = runStarts + 1
  /\ OnStart("suite", id, how)
  /\ last' = <<Event("run", "start", -1, -1)>> \o Emitted(how, Started("suite", id))
  /\ slips' = Carried \cup OnlyIf("stamp", ~Acted(how))

\* ... at 1, when on_run_start raises: on_suite_start is not called.
StartRunRaises(id, how) ==
  /\ how # "returns"
  /\ Callback(how)
  /\ OpenSuite(id, OnlyIf("run", Acted(how)))
  /\ _suite_depth' = 1
  /\ _run_started_ns' = IF Acted(how) THEN Now ELSE _run_started_ns
  /\ runStarts' = runStarts + 1
  /\ last' = Emitted(how, <<Event("run", "start", -1, -1)>>)
  /\ slips' = Carried \cup {"stamp"}
  /\ UNCHANGED started

\* Robot ends the innermost suite, its teardown having run.
CloseSuite(teardown) ==
  /\ Inside({"suite"})
  /\ Pop
  /\ results' = Rewritten(teardown)
  /\ UNCHANGED <<keyword_events, runs, runStarts>>

\* Mutant: the depth is tested before it goes down.
RunOverEarly == _suite_depth = 0

RunOver == _suite_depth' = 0

\* end_suite: on_suite_end, then the depth goes down, not to 0.
EndSuite(teardown) ==
  /\ Callback("returns")
  /\ CloseSuite(teardown)
  /\ OnEnd("suite", Top.id, "returns")
  /\ _suite_depth' = _suite_depth - 1
  /\ ~RunOver
  /\ last' = Popped("suite", Top.id, Now)
  /\ UNCHANGED <<_run_started_ns, runEnds, slips>>

\* ... to 0: on_run_end, which drops the run's stamp after its event.
EndRun(teardown, how) ==
  /\ Callback(how)
  /\ CloseSuite(teardown)
  /\ OnEnd("suite", Top.id, "returns")
  /\ _suite_depth' = _suite_depth - 1
  /\ RunOver
  /\ last' = Popped("suite", Top.id, Now) \o Emitted(how, <<RunEnd(Rewritten(teardown))>>)
  /\ _run_started_ns' = IF Told(how) THEN None ELSE _run_started_ns
  /\ runEnds' = runEnds + 1
  /\ slips' = slips \cup OnlyIf("pop", ~Told(how))

\* end_suite when on_suite_end raises: the depth stays where it was and
\* on_run_end is not called.
EndSuiteRaises(teardown, how) ==
  /\ how # "returns"
  /\ Callback(how)
  /\ CloseSuite(teardown)
  /\ OnEnd("suite", Top.id, how)
  /\ last' = Emitted(how, Popped("suite", Top.id, Now))
  /\ slips' = slips \cup {"depth"} \cup OnlyIf("pop", ~Acted(how))
  /\ UNCHANGED <<_suite_depth, _run_started_ns, runEnds>>

StartTest(id, how) ==
  /\ Callback(how)
  /\ Inside({"suite"})
  /\ Free("test", id)
  /\ Push("test", id, OnlyIf("test", Acted(how)))
  /\ OnStart("test", id, how)
  /\ last' = Emitted(how, Started("test", id))
  /\ slips' = slips \cup OnlyIf("stamp", ~Acted(how))
  /\ UNCHANGED <<results, keyword_events, run, runs>>

EndTest(status, how) ==
  /\ Callback(how)
  /\ Inside({"test"})
  /\ Pop
  /\ results' = Append(results, [ended |-> status, told |-> Told(how), now |-> status])
  /\ OnEnd("test", Top.id, how)
  /\ last' = Emitted(how, Popped("test", Top.id, Now))
  /\ slips' = slips \cup OnlyIf("pop", ~Acted(how))
  /\ UNCHANGED <<keyword_events, run, runs>>

StartKeyword(id, how) ==
  /\ keyword_events
  /\ Callback(how)
  /\ Inside(Kind)
  /\ Push("keyword", id, OnlyIf("keyword", Acted(how)))
  /\ OnStart("keyword", id, how)
  /\ last' = Emitted(how, Started("keyword", id))
  /\ slips' = slips \cup OnlyIf("id", ~Free("keyword", id)) \cup OnlyIf("stamp", ~Acted(how))
  /\ UNCHANGED <<results, keyword_events, run, runs>>

EndKeyword(how) ==
  /\ keyword_events
  /\ Callback(how)
  /\ Inside({"keyword"})
  /\ Pop
  /\ OnEnd("keyword", Top.id, how)
  /\ last' = Emitted(how, Popped("keyword", Top.id, Now))
  /\ slips' = slips \cup OnlyIf("pop", ~Acted(how))
  /\ UNCHANGED <<results, keyword_events, run, runs>>

\* With keyword_events off the keyword hooks return at once.
SkipKeyword(id) ==
  /\ ~keyword_events
  /\ Callback("returns")
  /\ \/ Inside(Kind) /\ Push("keyword", id, {})
     \/ Inside({"keyword"}) /\ Pop
  /\ last' = <<>>
  /\ UNCHANGED <<results, keyword_events, run, started, runs, slips>>

\* Robot stops calling: the run is over, or the bound is reached.
Quiet ==
  /\ open = <<>> \/ calls = MaxCalls
  /\ UNCHANGED vars

Next ==
  \/ \E id \in Ids, how \in Outcome :
       \/ StartSuite(id, how) \/ StartRun(id, how) \/ StartRunRaises(id, how)
       \/ StartTest(id, how) \/ StartKeyword(id, how)
  \/ \E teardown \in Teardown, how \in Outcome :
       EndRun(teardown, how) \/ EndSuiteRaises(teardown, how)
  \/ \E teardown \in Teardown : EndSuite(teardown)
  \/ \E status \in Status, how \in Outcome : EndTest(status, how)
  \/ \E how \in Outcome : EndKeyword(how)
  \/ \E id \in Ids : SkipKeyword(id)
  \/ Quiet

Spec == Init /\ [][Next]_vars
-----------------------------------------------------------------------------
(* Properties.                                                              *)

Ends == {e \in {last[i] : i \in DOMAIN last} : e.type[2] = "end"}

\* Of what confuses the stamps, one kind at most has happened.
OneSlip == \A x, y \in slips \ {"depth"} : x = y

\* A reported duration is the time since the matching start, never since the
\* start of something else: nesting undoes stamps in the order they were made.
\* This survives start hooks that leave no stamp, end hooks that pop none and
\* nested keywords of one id; it takes two of these together to break it.
DurationsExact == OneSlip => \A e \in Ends : e.duration \in {-1, e.actual}

\* robot_listener.py:6-7 and TIMESTAMPS.md:81: durations are computed from
\* paired monotonic reads; so every end event carries one.
EndsArePaired == \A e \in Ends : e.duration # -1

\* ... which they do in every run whose nested keywords have ids of their own,
\* whatever ids the runs before it used, unless the start hook of what ended
\* itself raised, or was not reached, before its stamp.
DistinctEndsArePaired ==
  "id" \notin slips => \A e \in Ends : e.actual # -1 => e.duration # -1

\* on_run_start and on_run_end are called once for each run, at its outermost
\* suite, on an instance that serves several runs.  Once on_suite_end raised
\* the depth is too high for good: neither is called again, for later runs
\* not at all, but neither is called twice.
RunEventsOnce ==
  /\ runEnds <= runStarts /\ runStarts <= runs
  /\ "depth" \notin slips => /\ runStarts = runs
                             /\ runEnds = IF open = <<>> THEN runs ELSE runs - 1

\* Tests of the run whose robot.test.end came at ERROR.
Errors == Cardinality({i \in DOMAIN results : results[i].told /\ results[i].ended = "FAIL"})

\* run.end closes its callback, and the failures it counts in Robot's tree
\* cover those the tests reported, unless a suite teardown skipped a test that
\* had failed; they are the same when no teardown rewrote a status and every
\* robot.test.end came out.
RunEndAgrees ==
  \A i \in DOMAIN last : last[i].type = <<"run", "end">> =>
    /\ i = Len(last)
    /\ (\A t \in DOMAIN results : results[t].now = "SKIP" => results[t].ended = "SKIP")
         => Errors <= last[i].failed
    /\ (\A t \in DOMAIN results : results[t].told /\ results[t].now = results[t].ended)
         => Errors = last[i].failed

\* Stamps neither leak into the next run nor outlive what they belong to,
\* unless an end hook raised before it took its stamp away.
NoStampLeft ==
  /\ "pop" \notin slips =>
       \A k \in Kind, i \in Ids : started[k][i] # None =>
         \E j \in DOMAIN open : open[j].kind = k /\ open[j].id = i
  /\ slips \cap {"pop", "depth"} = {} /\ _run_started_ns # None => open # <<>>
=============================================================================
