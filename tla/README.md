# TLA+ models of robotframework-superset

robotframework-superset turns Robot Framework runs, and applications that use
its feeds, into *events*, ships them to a PostgreSQL table, to Graylog or to a
file, and gives the table a Superset dashboard. This directory holds
specifications of the parts of it that keep state or decide something, the TLC
configurations that check them on small instances, and TLAPS proofs, for every
size of the instances, of all their properties but liveness.

Paths below are relative to the repository; `sinks/db.py` and the like stand
for `src/robotframework_superset/sinks/db.py`.

    tlc -workers 2 -config MCDatabaseSink.cfg MCDatabaseSink
    tlapm DatabaseSinkProofs.tla

## 1. Inventory

Events are produced by the **run listener** (called by Robot Framework on its
thread) and by **feeds** (called by application code on any thread). A producer
holds one sink, often a **MultiSink** that fans out to a **DatabaseSink** and a
**GelfSink**; the **JSONL sink** is the repository's example of one more. Nothing
is asynchronous: a sink does its I/O on the thread of the call that happens to
trigger it. Next to this path stand operational jobs that share the events
table and Superset's metadata with it: **bootstrap**, **diagnose**, **sanitize**
and the **smoke suites** with their keyword libraries.

| Component | State | Operations | Interacts with | What is hard |
|---|---|---|---|---|
| DatabaseSink (`sinks/db.py`) | `_buffer`, `_closed`, `_lock`, engine | `emit`, `flush`, `close` | PostgreSQL; all producers | threads, a lock held across a transaction, failed or half-acknowledged batches, rows that can never be stored, process death |
| GelfTcpTransport (`sinks/gelf.py`) | `_sock` | `send`, `close` | Graylog, over TCP | no lock; connection loss, timeouts, half-written frames |
| GelfSink (`sinks/gelf.py`) | none of its own | `emit`, `flush`, `close` | transport | payload keys and event fields share one name space |
| MultiSink (`sinks/multi.py`) | tuple of children | `emit`, `flush`, `close` | its children | children that raise or do not answer |
| BaseFeed (`feeds/base.py`) | sink, defaults | `emit`, `record` | a sink; the application's own code | telemetry that runs in the application's `finally` |
| Run listener (`listeners/base.py`, `listeners/robot_listener.py`) | suite depth, start stamps by identity | `start_*`, `end_*`, `log_message`, `close` | Robot Framework; a sink | nesting, ids that repeat, hooks that raise, teardowns that rewrite results, several runs of one instance |
| Event, clocks (`event.py`) | none | `validate`, `to_dict`, `duration_since` | everyone | fields assigned after construction |
| JSONL sink example (`examples/jsonl_sink_plugin/`) | a buffer, a file that outlives it | `emit`, `flush`, `close` | a file | torn lines, failed batches, several runs on one file, no hook at exit |
| Bootstrap job (`infra/superset/bootstrap_dashboards.py`) | Superset's metadata | one upsert per object | PostgreSQL, Superset | dying half way, reruns, upgrades, two jobs at once |
| Dashboard layout (same file) | a grid | `dashboard_layout` | bootstrap | partial sets of charts, odd numbers |
| Diagnose script (`infra/scripts/diagnose_superset_db.py`) | `_counts` | a sequence of probes | every service | the stack moves while it is probed |
| Sanitize script (`infra/scripts/sanitize_superset_db.py`) | the events table, a pooled connection | count, confirm, truncate | sinks that keep writing; an operator | time passes at the prompt; an answer that is lost |
| Keyword libraries (`keywords.py`) and suites (`robot/`) | pooled connection, cached login token | six smoke tests | PostgreSQL, Superset's API | tokens and connections that die while they are kept; paged answers |
| Sink protocol, Null/Memory sinks (`sink.py`, `sinks/null.py`) | a list | `emit`, `emit_many` | producers | `emit_many` stops half way |
| Arguments, registry (`listeners/base.py`, `registry.py`) | none | parsing, entry-point lookup | listener | |
| Console listener, OpenAI and Ollama feeds | - | raise NotImplementedError | | scaffolds |
| Compose stack (`infra/docker-compose.yml`) | containers | start-up order | all services | restart order |

What makes each of them correct:

- *DatabaseSink*: an event whose `emit` returned is stored, still buffered, or
  reported as dropped; nothing is stored twice without a reason; the order of
  acceptance survives retries; `close` is final; a crash costs less than a
  batch once the latest flush succeeded; no call hangs.
- *GelfTcpTransport*: Graylog reads whole frames; a broken connection is
  let go of and replaced with the next frame, even where closing it fails.
- *GelfSink*: a frame says what the event said, and has its whole payload.
- *JSONL sink*: no event twice or out of order; every loss is accounted for;
  memory is bounded; a run that closes its sink loses nothing it emitted before.
- *MultiSink, BaseFeed*: every child gets every call once; a failing sink never
  shows in the application.
- *Run listener*: run hooks once per run, right durations, and a run level that
  covers every failure the tests reported.
- *Bootstrap*: rerunning converges, duplicates nothing, keeps ids; a dashboard
  is never half there.
- *Layout*: every chart once, no row wider than the grid.
- *Diagnose, Sanitize, smoke suites*: an exit code or a test result means what
  it says, also when the stack moves, and a failure has a cause; nothing is
  deleted but what was counted and agreed to, or came after the count.

`PROJECT.json` lists the hazards line by line, each with the properties that
would catch it, or the reason why none does.

## 2. Modules

| Module | What it is |
|---|---|
| `EventLog` | abstract specification: an at-least-once log |
| `DatabaseSink` | `sinks/db.py`, any number of threads; refines `EventLog` |
| `LossyLog` | abstract specification: an at-most-once log |
| `JsonlSink` | the example sink over several runs on one file; refines `LossyLog` |
| `GelfTransport` | `GelfTcpTransport`, statement by statement |
| `GelfFrame` | `GelfSink.emit`: contract and frame of one event |
| `Listener` | both listener classes, driven by Robot's callbacks |
| `Pipeline` | composes producer (`BaseFeed`, the listener's `_emit`) and `MultiSink` |
| `Bootstrap` | the bootstrap job, any number of them over one metadata store |
| `Layout` | `dashboard_layout` |
| `Stack` | the services and what they may do while a tool looks at them |
| `Diagnose`, `Sanitize`, `SmokeSuites` | the tools, over `Stack` |
| `DatabaseSinkProofs`, `JsonlSinkProofs`, `GelfTransportProofs`, `ListenerProofs`, `PipelineProofs`, `BootstrapProofs` | theorems about the module each is named after |
| `DataProofs` | theorems about `GelfFrame` and `Layout` |
| `ToolProofs` | theorems about `Diagnose`, `Sanitize` and `SmokeSuites`, and what they share about `Stack` |
| `MC*` | instances for TLC; `MCData` joins the two data conversions, `MCTools` the tools |

Mutants. An operator that follows the comment `Mutant:` is the definition below
it with a plausible mistake. No specification uses it; substituted for the real
one it must make a property fail, which shows that the property has teeth.

### DatabaseSink

State: `buffer`, `closed`, `lock` are the object's fields; `table` is the events
table in id order; `pc`, `op`, `row`, `pending` are each thread's position and
locals (`pending` is `_flush_locked`'s copy of the buffer). The rest is bounds
and history; `failing` says that the latest transaction raised.

| Code | Actions |
|---|---|
| `emit` up to the lock: validate, build the row | `CallEmit`, `Row` |
| `with self._lock` | `Acquire`, `LockFree`, `Release` |
| `emit`'s body | `RefuseEmit` (closed), `AppendRow` (and the start of a flush when the batch is full) |
| `flush`, `close` | `CallFlush`, `CallClose`, `FlushBody`, `CloseBody`, `FinishClose` |
| `_flush_locked` | `StartFlush`, `Commit`, `FlushFails`, `AckLost`, `Acknowledge` with `Trim`, `Return` |
| the process is killed | `Crash` |

An event that `Event.validate` refuses raises before the lock and leaves no
trace, so it is not among the calls. A transaction is two steps: `Commit` in the
database, `Acknowledge` in the client. Between them the answer can be lost
(`AckLost`), and the process can be dead by then: a batch it had sent still
lands. A row carries whether the database can store it at all: `validate`
accepts strings with a NUL character and integers beyond 64 bits, which
PostgreSQL does not.

`EventLog` says what is promised without threads, lock or transactions: an
accepted event is *owed* until it is in the log; a write adds only what is
owed; what is written may be forgotten from the debt; only closing forgives. The
mapping is `log <- table`, `owed <- the elements of buffer`,
`open <- alive and not closed`. It is the weakest log that is of use: stronger
facts (order, the cause of duplicates) are properties of the sink itself.

### JsonlSink

The n-th event emitted is the number n. `buffer` is `self._buffer`; `lines` are
the events whose line in the file is whole, `torn` says that the file does not
end with a newline. `emit`, `flush` and `close` hold one lock for all they do, so
a call is one step, up to the write if there is one. `WriteFails` and `Dies`
leave any prefix of the batch in the file, cut anywhere in a line (`ReachSome`);
what is appended next continues a cut line, which makes one more line unreadable
(`Reach`). `Exit` ends a run that has closed its sink; `Restart` is the next run
on the same file. Three history variables say where lost events went: `reported`
(a message said that a batch was dropped), `spoilt` (written behind a cut line),
`gone` (in the memory of a process that ended).

`LossyLog` is the promise of a sink that never keeps an event for a second try:
events leave from the front of what is held, and are read once and in order, or
never. The mapping is `log <- lines`, `held <- buffer`, `taken <- emitted`. Set
beside `EventLog` it says what the two sinks differ in: one may duplicate and
forgets only in `close`, the other never duplicates and forgets at any write.

### GelfTransport

`sock` is `self._sock`, an index into `conns`, the connections made so far; each
of these records whether it still reaches Graylog, whether the client holds it
open, and what Graylog has read. There is no lock in the code, so each read or
write of `self._sock` is a step: `Send` (first check), `ConnectOk`,
`ConnectFails`, `Unreachable`/`Connected` (second check),
`BeginSendall`, which reads the attribute a third time, or `SendallOnNone` when
it is gone by then. `CloseFailed` and `CloseNone` are the handler, `Forget` and
`Unwind` its `finally`: the close in the handler may raise an OSError, which
then leaves `send`. A frame leaves in two writes (`WriteChunk`, from `FirstPart` to
`LastPart`), the least number that can be interleaved. The history variable
`serial` says that no two calls have overlapped yet; the properties that hold
only for a transport used by one thread at a time begin with `serial`, and are
checked with two threads whose calls may or may not overlap.

### GelfFrame

One event: what its constructor accepts, with at most one field assigned since
(a dataclass that is not frozen), and a payload of distinct keys in the order in
which a dict keeps them. `Invalid` is the event that emit drops, `OwnFields` the
frame before the loop, `AddEntry` one turn of the loop over the payload (`With`
is an assignment to the dict). An
additional field is the place its value came from, which is all that can go
wrong: two entries with one name. Values are not modelled.

### Listener

`open` and `results` are Robot's: the nesting of what it executes, and its result
tree. A finished test has the status it `ended` with, whether its end event was
`told`, and its status `now`: a suite teardown that fails or skips changes the
statuses of the suite's tests (`Rewritten`) after their `end_test` and before
its `end_suite`, and `on_run_end` reads the tree as it is then (`RunTotals`).
`_suite_depth`, `_run_started_ns` and `started` are the listener's; `started`
joins its three dictionaries. `last` holds the events of the latest callback,
each with the duration it reports and the true one. The clock is the number of
callbacks, doubled because a callback that also marks the run reads it twice.

At most one hook raises in a callback, and Robot goes on with the next one. The
parameter `how` says when: *early* is before the hook touched its stamp, *midway*
before its event, *late* after it. What a raising hook skips is in the action:
`on_suite_start` after `on_run_start` (`StartRunRaises`), the depth and
`on_run_end` after `on_suite_end` (`EndSuiteRaises`). `StartRun` and `EndRun` are
the callbacks of an outermost suite whose first hook returned; their `how` is
that of the second one. `SkipKeyword` is a keyword while `keyword_events` is
off. Robot numbers the keywords in a user keyword's body from that body alone,
so `StartKeyword` may use any id. `slips` remembers which kinds of things that
confuse the bookkeeping have happened; the properties say which of these each
of them survives. A sink failure is caught in `_emit` and leaves no trace here;
`Pipeline` models that side.

### Pipeline

One caller per thread. `CallSink` is a call of the sink by the listener or a
feed; `EnterBlock`, `LeaveBlock`, `LeaveBlockInvalid` are `BaseFeed.record`,
whose `finally` clause emits with whatever the block left in the dict.
`ChildReturns` and `ChildRaises` are one turn of MultiSink's loop; that they do
the same to the loop is the isolation it promises. `told` is what the
application sees, `app` what its own code did.

### Bootstrap

`rows` is Superset's metadata: one record per database, dataset, chart and
dashboard, its index being its id. A job walks through `Plan`; each object is a
`Query` (which keeps the first of its `Hits`) and then an `Update` or an
`Insert`, which commit. Datasets are followed by `RefreshColumns` (`Refreshes`),
which may fail and be skipped; `lagged` are the datasets whose latest refresh
did, the only ones that may have older columns than a finished job. `Fail` is an exit with an error or a kill,
anywhere. The content of an object is the number of the release whose
definitions were written, which is what convergence is about. Chart names are
not unique in Superset's schema; the other keys are, and an `Insert` that would
break one is disabled and ends in `Fail`. The assumption `PlanAssumption` says
that the objects have distinct names, as the job's dictionaries of ids by name
require.

### Layout

One step is a turn of a loop: over `DASHBOARD_ROWS`, which adds a whole row
(`PlaceCurated`), over the charts these do not name, sorted (`PlaceLeftover`), or
over the dict (`PlaceColumn`). The initial states are all subsets of the charts.
`todo` are the charts not yet placed, which is what `placed` is subtracted for;
the next one is its least, by name or by place in the dict. `row_number` and
`index` are the code's locals, which survive from one loop into the next; they
and the rows' ids come to nothing else than which row a chart is appended to
(`AddChart`). A *place* is a row and a position in it, and a row takes the
columns of all its charts (`Taken`). Heights, ids and decoration are left out.
`RowsAssumption` says what is true of the constant `DASHBOARD_ROWS` in the code:
its charts are defined, none stands twice, no row is empty or too wide.

### Stack and the tools

`stack` is what the tools can tell apart: the database and its events table,
Superset's metadata, Superset, its dashboards. While a tool runs, services stop
and come back, rows arrive, somebody else sanitizes or bootstraps, sessions
expire, dashboards come, go and break; each is a `Change`, of which there are at
most `MaxChanges`. `epoch` counts how often the database went down and how often
Superset's sessions ended: a connection or a token is the epoch it was made in,
and void in a later one (`Alive`, `Accepted`). `seen` keeps, per field, the
values it has had, which is what a verdict can rightly be about.

- `Diagnose`: one action per probe, in the order of `main`; `session` is
  check_database's connection, over which three queries run. Somebody's TRUNCATE
  waits while that transaction has read the table (`DiagnoseReads`).
- `Sanitize`: count, prompt, truncate, and the answer to the truncate. The
  connection goes back to the pool between the statements and is used again
  without a check, so it can have died at the prompt. Rows that arrive after the
  count go with the others (`late`, `gone`): the number agreed to is a floor.
- `SmokeSuites`: one action per request of `connection.robot` and
  `dashboards.robot`. The engine's pooled connection and the login token live as
  long as the suite and are not renewed. The API answers with one page
  (`Pages`).

## 3. Runs

| Run | Instance | Shows |
|---|---|---|
| `db_sink` | two threads, batches of 2, 2 emits and 1 flush each, both may close, 1 lost answer, crash anywhere, fair | all properties of the sink, `CallsReturn` and `AcceptedSettles` among them, and the refinement of `EventLog` |
| `jsonl` | buffer of 3, 7 events, 2 failed writes, 2 runs on one file, death anywhere | every loss accounted for, bounded memory, what `close` saves, and the refinement of `LossyLog` |
| `gelf` | two threads, 2 frames each, 1 outage, 1 close | what holds as long as calls do not overlap |
| `gelf_frames` | two threads, 1 frame each, no failure | **violation** of `FramesIntact` |
| `data` | all subsets of 8 charts, 3 of them curated; all events with payloads of up to 2 of 6 keys | each chart once, rows fit; what a frame says of its event and payload |
| `gelf_fields` | the same events | **violation** of `OwnFieldsPreserved` |
| `listener` | 2 ids, up to 9 callbacks, up to 2 hooks that raise at any point, teardowns that rewrite statuses | durations, pairing, run events, run level |
| `listener_unpaired` | 2 ids, 6 callbacks, no hook raises | **violation** of `EndsArePaired` |
| `pipeline` | two callers, two children, 2 calls each, fair | each child once; the application is not disturbed; calls end |
| `pipeline_app` | one feed | **violation** of `NeverBreaksApp` |
| `bootstrap` | up to 3 jobs, 2 at a time, 2 releases, 2 datasets, 2 charts | all-or-nothing dashboard, also under overlap; convergence without duplicates and with stable ids where jobs do not overlap |
| `tools` | every stack and environment, 3 dashboards on pages of 2, up to 2 changes during one tool | what exit codes and test results mean |

Why the bounds are enough to show something:

- *db_sink*: four rows and batches of two give a full batch, a partial one,
  a batch that grew beyond its size because an earlier flush failed, and a
  batch sent twice; with one more flush per thread an explicit flush meets every
  state of the other thread, the wait for the lock included. Transactions may
  fail any number of times. The theorems below remove the bounds for what they
  cover.
- *jsonl*: seven events fill two batches and leave one over, so a torn line can
  be continued by a full batch, a partial one, and the next run; two failures
  let a torn line follow a torn line. The theorems remove the bounds.
- *gelf*: two frames per thread let a failed frame be followed by another on
  the same thread, and by a reconnect; the outage can hit before, between and
  after the two writes of a frame. Symmetry between the threads is sound: no
  property names one, and none is a liveness property.
- *data*: five charts outside the curated rows give every parity and both
  empty and non-empty remainders; a curated row of two charts shows widths that
  differ. Two entries are the least that can collide with each other and the
  keys are those that collide with something, and one that does not.
- *listener*: nine callbacks suffice for two whole runs with a test each, or for
  a run with three open keywords under two ids; two hooks that raise, because one
  slip alone does not make a duration wrong. Symmetry between the ids is sound:
  no property names one, and none is a liveness property.
- *pipeline*: two calls each are enough for a call to find the locals of the one
  before it, two children for a first and a last one.
- *bootstrap*: the third job is the rerun after a failed upgrade of a
  finished installation; two datasets and two charts distinguish "some" from
  "all".
- *tools*: one change makes a verdict stale, the second can undo it (a database
  that went and came back, sessions that expired twice); the third dashboard is
  the one that does not fit on the page.

Deadlock is checked in every run but `jsonl`, where a process may stop after its
last run; the steps called `Stopped`, `AllSent`, `Quiet`, `AllMade`, `AllDown`,
`Done` and `Ended` say where a system may rightly come to rest.

### Fairness

`DatabaseSink!FairSpec`: weak fairness of each thread's steps inside a call
(threads are scheduled; a transaction commits, fails, or times out), and of the
listener's call of `close` (Robot closes its listeners at the end of a run). No
thread must emit or flush. Acquiring the lock needs no strong fairness in these
instances: calls are finite, so a waiting thread is not overtaken for ever.

`Pipeline!FairSpec`: strong fairness of a caller's turn. A thread waiting in a
child continues when that child answers; the child may fall silent again later,
for another call, but an answer given is not taken back. That every silence
ends is not assumed of the specification; it is the premise of `CallsReturn`.

## 4. Findings

- `gelf_frames`: two threads inside `sendall` interleave their frames on one
  socket, and Graylog, which cuts at NUL bytes, reads neither. The sink beside
  it takes a lock.
- `gelf_fields`: a payload key `source`, `wall_clock` or `monotonic_ns`
  overwrites the event's own field in the frame. The listener's start events of
  runs, suites and tests carry the path of their file under `source`, so their
  frames have lost the event's source. The run `data` shows that nothing else is
  lost, but one of `id` and `payload_id` when a payload has both.
- `listener_unpaired`: a nested keyword with the id of an open one takes its
  stamp away; the outer end event carries no duration. The run `listener` shows
  that a *wrong* duration takes such a keyword and a raising hook, or two hooks
  that raise at different points.
- `pipeline_app`: an extra that is not JSON, or whose key is a parameter of
  `emit`, raises out of `record` into the application.

Smaller disagreements and observations, which no run is spent on:

- The docstring of `GelfTcpTransport.send` promises a reconnect for the failed
  frame (gelf.py:106), which is lost instead, as the class docstring says. When
  threads overlap `send` can also raise AttributeError (`SendallOnNone`,
  `CloseNone`), which GelfSink catches. "Never raises for network errors"
  (gelf.py:109) has an exception even on one thread: the handler's own
  `self._sock.close()` has no `except` around it, unlike the one in `close`
  (127-131), so an OSError from it leaves `send` (`Unwind`). GelfSink catches it
  as well, and the `finally` still clears the socket.
- A hook of a listener subclass that raises out of `on_suite_end` leaves the depth
  too high (base.py:141): that run and all later ones of the instance have no
  run end, the later ones no run start either. `RunEventsOnce` says what is left.
- After a suite teardown that fails, `run.end` can be at ERROR though no
  `robot.test.end` was, and after one that skips, the other way round.
- sanitize asks about, and reports, the rows it counted; rows that arrive before
  the truncate are deleted too, so the number it prints can be too small
  (sanitize_superset_db.py:29, 37).
- Two overlapping bootstrap jobs can both insert a chart (`Query` of both before
  the `Insert` of either; bootstrap_dashboards.py:731), so a rerun is idempotent,
  as the header says (5-6), only after the job before it has ended. The
  dashboard is complete whatever they do.
- `docs/ARCHITECTURE.md` calls sinks independent, yet a child that is silent
  holds those after it (`Stall`).
- diagnose reports the metadata check as "skipped because the database is
  unreachable" also when only the schema is incomplete (line 296); a URL without
  port or user is probed at another port than the driver's (`Listening`).
- The keyword libraries fail tests of a healthy stack after a restart of the
  database (the pooled connection is dead, and the row count reports -1) or once
  the token has expired, and render only the first page of dashboards. These are
  the causes and the exception in `FailureHasCause` and `PassWasTrue`.

## 5. Proofs

Each theorem holds for every value of the constants that the named ASSUMEs of its
module admit: bounds on calls, failures or runs stay in the models but may be any
number, and so may threads, charts, dashboards, payload keys. Every invariant and
every action property that a run checks is a theorem, and so are the two
refinements.

| Module | Theorem | Statement |
|---|---|---|
| `DatabaseSinkProofs` | `TypeCorrect` | `Spec => []TypeOK` |
| | `DeleteIsExact` | `Spec => []PendingMatchesBuffer` |
| | `NothingLost` | `Spec => []NoLoss` |
| | `DropsNeedFailure` | `Spec => []DropsOnlyAfterFailure` |
| | `CrashLossIsBounded` | `Spec => []CrashLossBound` |
| | `CloseIsFinal` | `Spec => TableFinalAfterClose` |
| | `TableInOrder` | `Spec => []OrderedPersistence` |
| | `CopiesNeedLostAck` | `Spec => []DuplicatesNeedLostAck` |
| | `Refinement` | `Spec => ImplementsLog` |
| `JsonlSinkProofs` | `MemoryIsBounded` | `Spec => []MemoryBounded` |
| | `CloseSaves` | `Spec => ExitLosesOnlyLate` |
| | `LossyRefinement` | `Spec => ImplementsLossyLog` |
| | `LossesAreAccounted` | `Spec => []LossesAccounted` |
| `GelfTransportProofs` | `TypeCorrect` | `Spec => []TypeOK` |
| | `SerialFrames` | `Spec => []SerialFramesIntact` |
| | `SerialHandedOver` | `Spec => []SerialLossNeedsOutage` |
| | `SerialTransportReconnects` | `Spec => []SerialReconnects` |
| `ListenerProofs` | `OneRunEventEach` | `Spec => []RunEventsOnce` |
| | `StampsDoNotLeak` | `Spec => []NoStampLeft` |
| | `DurationsAreExact` | `Spec => []DurationsExact` |
| | `DistinctPaired` | `Spec => []DistinctEndsArePaired` |
| | `RunEndIsRight` | `Spec => []RunEndAgrees` |
| `PipelineProofs` | `ChildrenAreIsolated` | `Spec => []EveryChildOnce` |
| | `OutcomeIsTheApps` | `Spec => []AppOutcomeKept` |
| `BootstrapProofs` | `DashboardIsWhole` | `Spec => []DashboardComplete` |
| | `RerunsDoNotDuplicate` | `Spec => []SerialNoDuplicates` |
| | `IdsAreStable` | `Spec => SerialStableIds` |
| | `ChartsWaitForDatasets` | `Spec => []SerialChartsNotAhead` |
| | `RerunsConverge` | `Spec => []SerialConverges` |
| `DataProofs` | `FramesTellTheEvent` | `FrameSpec => []FrameTellsTheEvent` |
| | `FramesKeepThePayload` | `FrameSpec => []FrameKeepsThePayload` |
| | `ChartsAreShown` | `Spec => []EveryChartOnce` |
| | `NoRowIsTooWide` | `Spec => []RowsFit` |
| `ToolProofs` | `VerdictIsExact` | `DiagnoseSpec => []VerdictExact` |
| | `GoodVerdictWasTrue` | `DiagnoseSpec => []OkWasTrue` |
| | `SanitizeIsHonest` | `SanitizeSpec => []SanitizeTells` |
| | `PassesAreTrue` | `SmokeSpec => []PassWasTrue` |
| | `FailuresHaveCauses` | `SmokeSpec => []FailureHasCause` |

**DatabaseSink.** Assumptions: `Owner` is a thread, the batch size is positive,
the bounds are naturals, `None` is no thread. `Inv` is type correctness, mutual
exclusion (`LockOK`: a thread is in a body exactly when it holds the lock), and
`RowOK` (a thread in `emit` has a row, so what it appends is an event). Mutual
exclusion carries everything else. `DataInv` adds what is true of the data at
each point of the body: `PendingMatchesBuffer` while a transaction is in flight,
`CommittedIsStored` (after a commit all copied rows are in the table),
`FlushedIsEmpty` (after a flush that did not fail nothing is buffered),
`ClosedIsQuiet` (no thread is inside a transaction of a closed sink) and
`ClosedSinkIsEmpty`. None of the properties is inductive alone: `NoLoss`, for
example, survives `del self._buffer[:len(pending)]` only because the buffer is
still the copy and the copy is stored. `StepDataInv` treats each action once;
`FrameDataInv` and `StartDataInv` serve the actions that share a shape. For the
refinement, `LogStep` maps every step: `AppendRow` to `Accept`, `Commit` to
`Persist`, `Acknowledge` to `Acknowledge`, `FinishClose` to `Close`, `Crash` to
`Crash`, the others to stuttering.

Order and duplicates need to know where rows stand. `OrderInv` says that the
buffer is the tail of what was accepted (`BufferIsTail`), that no row is accepted
twice, because a thread numbers its rows and appends each before it makes the
next (`AcceptedOnce`, `AcceptedInTurn`, `RowIsNext`), and that in an open sink
all before that tail is stored (`SettledIsStored`). A batch that is committed is
then a segment of `accepted` that begins where the stored rows end, or repeats
rows of which all predecessors are stored. `CopiesInv` is a cardinality argument:
a row has at most one copy more than answers were lost, and while it is buffered
and no commit is being answered none more; that is what the next commit adds.

**JsonlSink.** Assumptions: a positive buffer size, bounds that are naturals.
`Inv` is `TypeOK`, `Ordered` (the buffer is increasing, none of its events is
beyond `emitted`, and all that are readable come before it), `ClosedIsLate` (between calls of a
closed sink the buffer holds only late events), `MemoryBounded`, and an empty
buffer once a process has ended. The four steps that empty the buffer share
`EmptyStep`; `ReachGrows` says what a write does to the file. `LogStep` maps
`Emit` to `Take` and the emptying of a buffer that held n events to `Leave(n)`.
`LossesAccounted` compares the size of a set with counters: `LostInWrite` says
which events a write can lose (all of the batch, or when it succeeded at most its
first, behind a torn line) and `LosingMore` that the count grows by no more.

**GelfTransport.** Assumptions: the bounds are naturals. `TypeOK` is inductive for
any interleaving, since whatever a thread finds in `self._sock` when it looks
again is a connection or none. The other theorems are about a transport whose
calls have not overlapped (`serial`, which once lost stays lost). `SerialBody`
has one call (`OneCall`), so that what it checked is still there (`HasSocket`,
`WritesToSocket`), and `AtBoundary`: a socket that can still be used has an even
number of chunks behind it, or an odd one of which the last is the first half of
the frame under way. A write that fails ends this, and `Usable` excludes the
time until the handler has closed the socket; that the code closes it before
anyone can send again is why no frame continues another's half.
`TrueWasRead` adds that a frame was read when its call returns True. That a
socket found between calls is an open one is part of the same invariant: `Unwind`
keeps it because the `finally` clears the socket on this way out, too.

**Listener.** Assumptions: the bounds are naturals, `None` is no clock value. The
bookkeeping of depth needs `SuitesFirst` (open suites are below everything else),
`DepthCounts` (the depth is their number, and after `on_suite_end` raised it is
more than that, so no later end can look like the run's) and `RunStamped`. For
the stamps, `StampsMatch` says that a stamp which is there is that of the
*innermost* open item of its kind and identity: a shared id destroys the outer
stamp but does not lend it to another. It holds while at most one kind of slip has
happened (`OneSlip`): a stamp that was not popped can pass for a new item's only
if that item left none of its own. `StampsOpen` says that without such a stamp
there is none of anything closed. `Distinct` and `Stamped` say that where nested
keywords differ in id, what left a stamp still has it, whatever else raised.
Reports about durations follow from `PoppedIsSound` and `RunEndIsSound`, which
look at the state before the callback. For the run's level, `FailuresStay` says
that no teardown turns a failed test into a passed one; `Agreement` then compares
the tests that reported an error with those that the tree counts as failed: a
subset where none of them was skipped since, the same set where nothing changed.

**Pipeline.** Assumption: there is at least one child. `UnderWay` is the loop
invariant of `for sink in self._sinks`, with any number of callers in it: a
call has reached exactly the children before the one whose turn it is.
`OffersArePast` (no child saw a call that has not been made) makes a new call
different from all before, hence `NoneTwice`; `ReturnedReached` is the loop's
end. `Forwarded` covers a call that enters the loop, `Served` one turn of it,
whether the child returned or raised.

**Bootstrap.** Assumptions: names are sequences and distinct, releases are
naturals, `None` is none. `PlanFacts` places the dashboard last in the plan.
`FoundMatches` says that what a job found is still an object of that name when
it commits, `Collected` that it has an id for every object behind it, so that
when it reaches the dashboard `SlicesComplete` holds of what it writes; nothing
there depends on other jobs, which only add rows or rewrite them in place. The
serial theorems add `SerialInv`: while jobs have not overlapped there is one
running (`Alone`), names are unique (`Distinct`), and what a query did not find
is still missing at the commit (`MissingIsMissing`). `CommitOf` is what an
`Update` and an `Insert` have in common.
`SerialRelease` is what convergence over upgrades needs: the running job is of
the newest release (`Newest`), everything it has passed has that release
(`AtRelease`), what a finished job brought to its release is of that one or a
later (`Converged`), and no chart is ahead of a dataset (`ChartsBehind`), since a
plan has the datasets first. `ReleaseInv` bounds the releases in the store by
those that jobs have carried, overlap or not.

**GelfFrame.** Assumption: the bound on entries is a natural. `FrameRight` is the
loop invariant: both properties, said of the entries gone through so far
(`Going`). The name `payload_id` is why it needs the order of the payload: an
entry keeps its field unless a later one of the pair takes it.

**Layout.** Assumptions: charts have distinct names, and what `RowsAssumption`
says of `DASHBOARD_ROWS`. `Shown` says that a chart is in the grid exactly when it
is no longer to do, and in one place. `Numbered` relates the locals to the grid:
after an odd number of charts the last row has one chart of half its width
(`HalfFull`), which is why the next one fits, and in the curated loop the grid is
a prefix of the constant, so that what is added next is new. `RowAdded` and
`RowFilled` are the two ways in which the grid grows, shared by the three actions.

**Diagnose, Sanitize, SmokeSuites.** Assumptions: finitely many dashboards, a page
holds at least one. `StackInv` is shared: what the stack is now is among what has
been seen, and epochs count what went down. `Standing` follows the probes on a
stack that stands still: the failures so far are the broken links so far.
`Passed` does it on one that moves, for a run without a failure: each link has
been seen whole. `Telling` says what sanitize knows at each of its points; the
interesting one is that a table emptied by the truncate is a table seen empty.
For the suites, `Verdicts` gives a meaning to each test's result at once and
survives because what was seen stays seen. `PageOf` is the loop invariant of the
render test: of the page that was listed, what is no longer in `ids` was
rendered, and a dashboard that stayed is on it unless the page is full; counting
the rest of the dashboards then bounds those that were never looked at.

Only model-checked: liveness, that is `CallsReturn` of both modules and
`AcceptedSettles` (fairness speaks of ENABLED, which the prover does not have),
and the absence of deadlock, which is a matter of ENABLED as well. The runs
`data` and `tools` join specifications that are proved about one by one: `FrameSpec`
and `Layout`'s, and those of the three tools.

## 6. Not modelled

- Sink protocol, NullSink and MemorySink (nothing is kept, or a list append);
  `emit_many` is a loop over `emit` that nothing in the package calls.
- Listener arguments, sink resolution, `.env` parsing and the masking of URLs:
  run once, before anything else, without state.
- `log_message` (an event without state), `Event.to_dict` (it renders the
  fields), the mapping of an event to a row, SQL text, chart and dataset
  parameters, the grid's decoration.
- Console listener, OpenAI and Ollama feeds: scaffolds that raise
  NotImplementedError.
- The Compose stack and Superset's configuration are declarations. Superset,
  PostgreSQL, Graylog and Robot Framework appear as what they may do to the code.
- `create_all` in the constructor of DatabaseSink: two processes that start
  together can both find the table missing; what happens then is PostgreSQL's
  answer, before the sink has any state.

## 7. Plan

Built so far, in this order: `EventLog` and `DatabaseSink` with their proofs,
`GelfTransport`, `Listener`, `Bootstrap`, `Pipeline`, `Layout`, `Diagnose`; then
`Stack` under `Diagnose`, `Sanitize` and `SmokeSuites`, `GelfFrame`, `JsonlSink`
with `LossyLog`; then the proofs about `JsonlSink`, `Listener`, `Pipeline` and
`Bootstrap`; then those about `GelfTransport`, the two conversions and the tools,
and order, duplicates, convergence and the run's level. The code's state is
modelled and the safety properties are proved. What is left:

1. An abstract specification of what a bootstrap promises (one atomic, idempotent
   upgrade) and of `GelfTransport` (frames that arrive whole or not at all), with
   serial runs shown to implement them.
2. What remains true of `GelfTransport` when calls do overlap, beyond its types.
3. The cost of an outage (rows sent per row stored while the buffer grows), once
   the code sets a limit that a property could state.
