------------------------------ MODULE JsonlSink -----------------------------
(***************************************************************************)
(* examples/jsonl_sink_plugin/rfs_jsonl_sink.py: the example of a sink, in *)
(* runs that append to one file.  emit, flush and close have one lock each *)
(* for all they do, so a call is one step unless it writes; then the call  *)
(* has the lock until the write has an outcome.  A write may fail, or the  *)
(* process die in it, with a prefix of the batch in the file, cut anywhere *)
(* in a line; what is appended next continues the line.                    *)
(***************************************************************************)
EXTENDS Naturals, Sequences, FiniteSets

CONSTANTS BufferSize, \* max(1, buffer_size)
          MaxEvents,  \* bound: events emitted
          MaxFailures,\* bound: writes that fail
          MaxRuns     \* bound: runs of the process

ASSUME SizeAssumption == BufferSize \in Nat \ {0}
ASSUME RunAssumption == MaxEvents \in Nat /\ MaxFailures \in Nat /\ MaxRuns \in Nat

VARIABLES phase,  \* "idle", "writing" (the lock is held) or "ended"
          buffer, \* self._buffer; the n-th event emitted is n
          lines,  \* the events whose line in the file is whole, in order
          torn,   \* the file does not end with a newline
          \* bounds and history
          emitted,  \* events emitted
          failures, \* writes that failed
          runs,     \* runs of the process
          closing,  \* close has been called in this run
          late,     \* events emitted after close
          reported, \* events that a message said were dropped
          spoilt,   \* lines that were written behind a torn one
          gone      \* events in the buffer of a process that ended

file == <<lines, torn, spoilt>>
history == <<closing, late, reported, gone>>
vars == <<phase, buffer, file, emitted, failures, runs, history>>

Elems(s) == {s[i] : i \in DOMAIN s}

Init ==
  /\ phase = "idle"
  /\ buffer = <<>>
  /\ lines = <<>>
  /\ torn = FALSE
  /\ emitted = 0
  /\ failures = 0
  /\ runs = 1
  /\ closing = FALSE
  /\ late = {}
  /\ reported = 0
  /\ spoilt = 0
  /\ gone = 0

-----------------------------------------------------------------------------
(* Calls.                                                                   *)

Emit ==
  /\ phase = "idle"
  /\ emitted < MaxEvents
  /\ emitted' = emitted + 1
  /\ buffer' = Append(buffer, emitted')
  /\ phase' = IF Len(buffer') >= BufferSize THEN "writing" ELSE "idle"
  /\ late' = IF closing THEN late \cup {emitted'} ELSE late
  /\ UNCHANGED <<file, failures, runs, closing, reported, gone>>

\* _flush_locked: nothing is written when nothing is buffered.
Flushes == phase' = IF buffer = <<>> THEN "idle" ELSE "writing"

Flush ==
  /\ phase = "idle"
  /\ Flushes
  /\ UNCHANGED <<buffer, file, emitted, failures, runs, history>>

\* Mutant: close leaves the last batch to somebody else.
CloseOnly == phase' = "idle"

CloseFlushes == Flushes

Close ==
  /\ phase = "idle"
  /\ ~closing
  /\ closing' = TRUE
  /\ CloseFlushes
  /\ UNCHANGED <<buffer, file, emitted, failures, runs, late, reported, gone>>

-----------------------------------------------------------------------------
(* The write.                                                               *)

\* `whole` lines of the batch reach the file, and with cut a part of the next.
Reach(whole, cut) ==
  /\ lines' = lines \o SubSeq(buffer, IF torn THEN 2 ELSE 1, whole)
  /\ torn' = (cut \/ (torn /\ whole = 0))
  /\ spoilt' = IF torn /\ whole > 0 THEN spoilt + 1 ELSE spoilt

\* ... any part of the batch.
ReachSome ==
  \E whole \in 0..Len(buffer), cut \in BOOLEAN : (cut => whole < Len(buffer)) /\ Reach(whole, cut)

\* Mutant: a batch that failed is kept.
ClearedIfWritten(ok) == IF ok THEN <<>> ELSE buffer

\* The buffer is cleared whatever came of it.
Cleared(ok) == <<>>

WriteSucceeds ==
  /\ phase = "writing"
  /\ Reach(Len(buffer), FALSE)
  /\ buffer' = Cleared(TRUE)
  /\ phase' = "idle"
  /\ UNCHANGED <<emitted, failures, runs, history>>

\* Mutant: the events are counted when the buffer is cleared.
DroppedAfterwards == Len(Cleared(FALSE))

Dropped == Len(buffer)

WriteFails ==
  /\ phase = "writing"
  /\ failures < MaxFailures
  /\ failures' = failures + 1
  /\ ReachSome
  /\ reported' = reported + Dropped
  /\ buffer' = Cleared(FALSE)
  /\ phase' = "idle"
  /\ UNCHANGED <<emitted, runs, closing, late, gone>>

-----------------------------------------------------------------------------
(* The process.                                                             *)

Ends ==
  /\ phase' = "ended"
  /\ gone' = gone + Len(buffer)
  /\ buffer' = <<>>
  /\ UNCHANGED <<emitted, failures, runs, closing, late, reported>>

Dies ==
  \/ phase = "idle" /\ Ends /\ UNCHANGED file
  \/ phase = "writing" /\ Ends /\ ReachSome

\* The run is over; there is no hook that flushes once more.
Exit ==
  /\ phase = "idle"
  /\ closing
  /\ Ends
  /\ UNCHANGED file

\* The next run appends to what it finds.
Restart ==
  /\ phase = "ended"
  /\ runs < MaxRuns
  /\ runs' = runs + 1
  /\ phase' = "idle"
  /\ closing' = FALSE
  /\ UNCHANGED <<buffer, file, emitted, failures, late, reported, gone>>

Next == Emit \/ Flush \/ Close \/ WriteSucceeds \/ WriteFails \/ Dies \/ Exit \/ Restart

Spec == Init /\ [][Next]_vars
-----------------------------------------------------------------------------
(* Properties.                                                              *)

\* Failed writes, cut lines and restarts never duplicate, reorder or invent an
\* event, and never change one that is in the file.
Log == INSTANCE LossyLog WITH log <- lines, held <- buffer, taken <- emitted
ImplementsLossyLog == Log!Spec

\* The messages account for every loss: an event that is in neither the buffer
\* nor the file is among those reported, or was in the memory of a process that
\* ended, or is the one line that a torn line before it makes unreadable.
Lost == (1..emitted) \ (Elems(buffer) \cup Elems(lines))
LossesAccounted == Cardinality(Lost) <= reported + spoilt + gone

\* A disk that is full for as long as it likes costs no memory, and a crash
\* between two calls costs less than a batch.
MemoryBounded == Len(buffer) <= BufferSize /\ (phase = "idle" => Len(buffer) < BufferSize)

\* A run that closes its sink and exits takes nothing with it but what was
\* emitted after close.
ExitLosesOnlyLate == [][Exit => Elems(buffer) \subseteq late]_vars
=============================================================================
