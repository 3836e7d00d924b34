---------------------------- MODULE DatabaseSink ----------------------------
(***************************************************************************)
(* sinks/db.py: the DatabaseSink that the Robot Framework listener and any *)
(* number of application feeds share.  Every thread of the process may     *)
(* call emit, flush or close; the three run their body under one lock.     *)
(* A flush inserts the whole buffer in one transaction.  The database may  *)
(* refuse it, or commit it and lose the answer; a row it can never store   *)
(* (a NUL character, an integer out of range) passes Event.validate and    *)
(* fails every batch it is part of.  The process may die at any step.      *)
(***************************************************************************)
EXTENDS Integers, Sequences, FiniteSets

CONSTANTS Threads,     \* threads that share the sink
          Owner,       \* the thread that is sure to close it: the listener's
          BatchSize,   \* rows buffered before emit flushes
          MaxEmits,    \* bound: emits of one thread
          MaxFlushes,  \* bound: explicit flush calls of one thread
          MaxLostAcks, \* bound: commits whose answer is lost
          None         \* no thread, no row

ASSUME OwnerAssumption == Owner \in Threads
ASSUME BatchAssumption == BatchSize \in Nat \ {0}
ASSUME BoundAssumption == MaxEmits \in Nat /\ MaxFlushes \in Nat /\ MaxLostAcks \in Nat
ASSUME NoneAssumption == None \notin Threads

\* The row of an event: who emitted it, its place among that thread's events,
\* and whether the database can store it at all.
Event == [by : Threads, n : 1..MaxEmits, storable : BOOLEAN]

VARIABLES pc,        \* where each thread is
          op,        \* the method it is executing
          row,       \* emit's local: the row built before the lock is taken
          pending,   \* _flush_locked's local copy of the buffer
          lock,      \* the holder of self._lock
          buffer,    \* self._buffer
          closed,    \* self._closed
          table,     \* the events table, in id order
          alive,     \* the process runs
          \* bounds and history
          emits,     \* per thread: emit calls so far
          flushes,   \* per thread: flush calls so far
          closers,   \* threads that have called close
          accepted,  \* rows appended to the buffer, in that order
          dropped,   \* rows that close gave up
          lostAcks,  \* commits whose answer was lost
          failing    \* the latest transaction raised

locals == <<pc, op, row, pending>>
frame == <<alive, emits, flushes, closers>>
data == <<buffer, closed, table, accepted, dropped>>
answers == <<lostAcks, failing>>
vars == <<locals, lock, frame, data, answers>>

Elems(s) == {s[i] : i \in DOMAIN s}

Init ==
  /\ pc = [t \in Threads |-> "idle"]
  /\ op = [t \in Threads |-> "none"]
  /\ row = [t \in Threads |-> None]
  /\ pending = [t \in Threads |-> <<>>]
  /\ lock = None
  /\ buffer = <<>>
  /\ closed = FALSE
  /\ table = <<>>
  /\ alive = TRUE
  /\ emits = [t \in Threads |-> 0]
  /\ flushes = [t \in Threads |-> 0]
  /\ closers = {}
  /\ accepted = <<>>
  /\ dropped = {}
  /\ lostAcks = 0
  /\ failing = FALSE

-----------------------------------------------------------------------------
(* Calls.  The row is built before the lock is requested: what is stored is *)
(* what the event said when emit was called.  An event that Event.validate  *)
(* refuses raises here and leaves no trace; it is not among the calls.      *)

Idle(t) == alive /\ pc[t] = "idle"

Enter(t, method) ==
  /\ pc' = [pc EXCEPT ![t] = "wait"]
  /\ op' = [op EXCEPT ![t] = method]
  /\ UNCHANGED <<pending, lock, alive, data, answers>>

\* Mutant: emit enters without its row.
RowMissing(t, storable) == None

Row(t, storable) == [by |-> t, n |-> emits[t] + 1, storable |-> storable]

CallEmit(t, storable) ==
  /\ Idle(t)
  /\ emits[t] < MaxEmits
  /\ emits' = [emits EXCEPT ![t] = @ + 1]
  /\ row' = [row EXCEPT ![t] = Row(t, storable)]
  /\ Enter(t, "emit")
  /\ UNCHANGED <<flushes, closers>>

CallFlush(t) ==
  /\ Idle(t)
  /\ flushes[t] < MaxFlushes
  /\ flushes' = [flushes EXCEPT ![t] = @ + 1]
  /\ Enter(t, "flush")
  /\ UNCHANGED <<row, emits, closers>>

CallClose(t) ==
  /\ Idle(t)
  /\ t \notin closers
  /\ closers' = closers \cup {t}
  /\ Enter(t, "close")
  /\ UNCHANGED <<row, emits, flushes>>

\* Mutant: the lock lets everybody in.
LockTaken == TRUE

LockFree == lock = None

Acquire(t) ==
  /\ alive
  /\ pc[t] = "wait"
  /\ LockFree
  /\ lock' = t
  /\ pc' = [pc EXCEPT ![t] = "locked"]
  /\ UNCHANGED <<op, row, pending, frame, data, answers>>

-----------------------------------------------------------------------------
(* The bodies that run while the lock is held.                              *)

Holds(t, method, point) == alive /\ pc[t] = point /\ op[t] = method

\* Mutant: the lock is kept on the way out.
ReleaseKeeping(t) ==
  /\ lock' = lock
  /\ pc' = [pc EXCEPT ![t] = "idle"]
  /\ op' = [op EXCEPT ![t] = "none"]
  /\ row' = [row EXCEPT ![t] = None]
  /\ pending' = [pending EXCEPT ![t] = <<>>]

\* The call returns: the lock is free and the locals are gone.
Release(t) ==
  /\ lock' = None
  /\ pc' = [pc EXCEPT ![t] = "idle"]
  /\ op' = [op EXCEPT ![t] = "none"]
  /\ row' = [row EXCEPT ![t] = None]
  /\ pending' = [pending EXCEPT ![t] = <<>>]

\* _flush_locked up to the transaction: an empty buffer returns at once.
StartFlush(t, rows) ==
  /\ pc' = [pc EXCEPT ![t] = IF rows = <<>> THEN "flushed" ELSE "execute"]
  /\ pending' = [pending EXCEPT ![t] = rows]
  /\ UNCHANGED <<op, row, lock>>

\* Mutant: emit does not look at _closed.
AcceptingAlways == TRUE

Accepting == ~closed

\* emit on a closed sink raises RuntimeError.
RefuseEmit(t) ==
  /\ Holds(t, "emit", "locked")
  /\ ~Accepting
  /\ Release(t)
  /\ UNCHANGED <<frame, data, answers>>

\* Mutant: off by one.
BatchOverFull(rows) == Len(rows) > BatchSize

BatchFull(rows) == Len(rows) >= BatchSize

AppendRow(t) ==
  /\ Holds(t, "emit", "locked")
  /\ Accepting
  /\ buffer' = Append(buffer, row[t])
  /\ accepted' = Append(accepted, row[t])
  /\ IF BatchFull(buffer') THEN StartFlush(t, buffer') ELSE Release(t)
  /\ UNCHANGED <<closed, table, dropped, frame, answers>>

FlushBody(t) ==
  /\ Holds(t, "flush", "locked")
  /\ StartFlush(t, buffer)
  /\ UNCHANGED <<frame, data, answers>>

CloseBody(t) ==
  /\ Holds(t, "close", "locked")
  /\ IF closed THEN Release(t) ELSE StartFlush(t, buffer)
  /\ UNCHANGED <<frame, data, answers>>

\* Mutant: each row is its own transaction and the bad ones are skipped.
CommitRowByRow(t) ==
  /\ pc[t] = "execute"
  /\ table' = table \o SelectSeq(pending[t], LAMBDA r : r.storable)
  /\ pc' = [pc EXCEPT ![t] = "committed"]
  /\ UNCHANGED <<op, row, pending, lock, buffer, closed, accepted, dropped, frame, answers>>

\* The transaction commits in the database; the answer is still on its way.
\* The process need not be alive to see it happen.
Commit(t) ==
  /\ pc[t] = "execute"
  /\ \A i \in DOMAIN pending[t] : pending[t][i].storable
  /\ table' = table \o pending[t]
  /\ pc' = [pc EXCEPT ![t] = "committed"]
  /\ UNCHANGED <<op, row, pending, lock, buffer, closed, accepted, dropped, frame, answers>>

\* Mutant: the list is not trimmed.
TrimNothing(rows, n) == rows

\* del rows[:n]
Trim(rows, n) == SubSeq(rows, n + 1, Len(rows))

\* The transaction's block is left, with or without an exception.
LeaveBlock(t, raises) ==
  /\ alive
  /\ pc' = [pc EXCEPT ![t] = "flushed"]
  /\ failing' = raises
  /\ UNCHANGED <<op, row, pending, lock, closed, table, accepted, dropped, frame>>

\* Mutant: the copied rows leave the buffer even when the block raises.
FlushFailsForgetting(t) ==
  /\ pc[t] = "execute"
  /\ LeaveBlock(t, TRUE)
  /\ buffer' = Trim(buffer, Len(pending[t]))
  /\ UNCHANGED lostAcks

\* The block raises without a commit: no connection, or a row is rejected.
FlushFails(t) ==
  /\ pc[t] = "execute"
  /\ LeaveBlock(t, TRUE)
  /\ UNCHANGED <<buffer, lostAcks>>

\* The block raises although the database committed.
AckLost(t) ==
  /\ pc[t] = "committed"
  /\ lostAcks < MaxLostAcks
  /\ lostAcks' = lostAcks + 1
  /\ LeaveBlock(t, TRUE)
  /\ UNCHANGED buffer

\* del self._buffer[:len(pending)]
Acknowledge(t) ==
  /\ pc[t] = "committed"
  /\ LeaveBlock(t, FALSE)
  /\ buffer' = Trim(buffer, Len(pending[t]))
  /\ UNCHANGED lostAcks

\* emit and flush return whatever became of the transaction.
Return(t) ==
  /\ alive
  /\ pc[t] = "flushed"
  /\ op[t] \in {"emit", "flush"}
  /\ Release(t)
  /\ UNCHANGED <<frame, data, answers>>

\* close gives up what its flush left behind.
FinishClose(t) ==
  /\ Holds(t, "close", "flushed")
  /\ dropped' = dropped \cup Elems(buffer)
  /\ buffer' = <<>>
  /\ closed' = TRUE
  /\ Release(t)
  /\ UNCHANGED <<table, accepted, frame, answers>>

\* The process is killed.  What the buffer held stays here as a record of
\* what was lost; no thread of it takes another step.
Crash ==
  /\ alive
  /\ alive' = FALSE
  /\ UNCHANGED <<locals, lock, emits, flushes, closers, data, answers>>

\* The process is dead, or its threads have made all their calls.
Stopped ==
  /\ ~alive \/ \A t \in Threads : pc[t] = "idle"
  /\ UNCHANGED vars

Call(t) ==
  \/ \E storable \in BOOLEAN : CallEmit(t, storable)
  \/ CallFlush(t)
  \/ CallClose(t)

\* What a thread does once it is inside a call.
Step(t) ==
  \/ Acquire(t)
  \/ RefuseEmit(t)
  \/ AppendRow(t)
  \/ FlushBody(t)
  \/ CloseBody(t)
  \/ Commit(t)
  \/ FlushFails(t)
  \/ AckLost(t)
  \/ Acknowledge(t)
  \/ Return(t)
  \/ FinishClose(t)

Next ==
  \/ \E t \in Threads : Call(t) \/ Step(t)
  \/ Crash
  \/ Stopped

\* A thread inside a call keeps running and the database answers or times
\* out; the listener is closed when the run ends.  No thread is obliged to
\* emit or to flush, and nothing obliges the process to die.
Fairness ==
  /\ \A t \in Threads : WF_vars(Step(t))
  /\ WF_vars(CallClose(Owner))

Spec == Init /\ [][Next]_vars
FairSpec == Spec /\ Fairness
-----------------------------------------------------------------------------
(* Properties.                                                              *)

\* Every variable of the sink and of its callers keeps its type.
TypeOK ==
  /\ pc \in [Threads -> {"idle", "wait", "locked", "execute", "committed", "flushed"}]
  /\ op \in [Threads -> {"none", "emit", "flush", "close"}]
  /\ row \in [Threads -> Event \cup {None}]
  /\ pending \in [Threads -> Seq(Event)]
  /\ lock \in Threads \cup {None}
  /\ buffer \in Seq(Event)
  /\ closed \in BOOLEAN
  /\ table \in Seq(Event)
  /\ alive \in BOOLEAN
  /\ emits \in [Threads -> 0..MaxEmits]
  /\ flushes \in [Threads -> 0..MaxFlushes]
  /\ closers \subseteq Threads
  /\ accepted \in Seq(Event)
  /\ dropped \subseteq Event
  /\ lostAcks \in 0..MaxLostAcks
  /\ failing \in BOOLEAN

InSection(t) == pc[t] \in {"locked", "execute", "committed", "flushed"}

\* self._lock excludes: a thread is inside a body exactly while it holds it.
LockOK == \A t \in Threads : InSection(t) <=> lock = t

\* `del self._buffer[:len(pending)]` (db.py:174) deletes by count rows that
\* were copied before the transaction: for as long as the transaction is in
\* flight the buffer must still be the copy, whatever other threads do.
PendingMatchesBuffer ==
  \A t \in Threads : pc[t] \in {"execute", "committed"} => pending[t] = buffer

\* An event whose emit returned without raising is in the table, or still in
\* the buffer, or among those close reported as dropped.
NoLoss == Elems(accepted) \subseteq Elems(table) \cup Elems(buffer) \cup dropped

\* close gives up rows only when its own flush failed: a database that is
\* back by then, however long it was away, costs nothing.
DropsOnlyAfterFailure == dropped # {} => closed /\ failing

Copies(e) == Cardinality({i \in DOMAIN table : table[i] = e})

\* A row is stored twice only when the answer to a commit was lost: at most
\* one extra copy for each such answer.
DuplicatesNeedLostAck == \A e \in Elems(table) : Copies(e) <= 1 + lostAcks

\* A row becomes visible only after every row accepted before it, by whatever
\* thread: retried and concurrent batches never overtake each other, and a
\* row that the database can never store blocks all that follow it, for good.
OrderedPersistence ==
  \A j \in DOMAIN accepted, q \in DOMAIN table :
    table[q] = accepted[j] =>
      \A i \in 1..(j - 1) : \E p \in 1..(q - 1) : table[p] = accepted[i]

\* Unless the latest flush failed, a crash outside a call loses fewer than
\* BatchSize accepted rows: whatever an outage piled up is gone from memory
\* with the first flush that succeeds.
CrashLossBound == lock = None /\ ~failing => Len(buffer) < BatchSize

\* After close nothing is buffered, so nothing is left that a late flush
\* would send through the disposed engine.
ClosedSinkIsEmpty == closed => buffer = <<>>

\* What close left in the table is final: a call that arrives late, or was
\* waiting for the lock while close ran, adds nothing.
TableFinalAfterClose == [][closed => table' = table /\ accepted' = accepted]_vars

\* Every call returns, whatever the database answers.
CallsReturn == \A t \in Threads : pc[t] # "idle" ~> pc[t] = "idle" \/ ~alive

\* Every accepted row is eventually stored or reported as dropped, unless the
\* process dies: the final flush of close covers rows below the batch size.
AcceptedSettles ==
  \A t \in Threads, k \in 1..MaxEmits, s \in BOOLEAN :
    LET e == [by |-> t, n |-> k, storable |-> s] IN
    e \in Elems(accepted) ~> e \in Elems(table) \cup dropped \/ ~alive

\* The sink implements the at-least-once log: what it owes is its buffer.
Log == INSTANCE EventLog WITH log <- table,
                              owed <- Elems(buffer),
                              open <- alive /\ ~closed

ImplementsLog == Log!Spec
=============================================================================
