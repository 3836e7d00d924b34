------------------------- MODULE DatabaseSinkProofs -------------------------
(* Theorems about DatabaseSink, for any number of threads, any batch size   *)
(* and any number of calls and of lost answers.                             *)
EXTENDS DatabaseSink, FiniteSetTheorems, TLAPS

\* The sets of elements of the sequences the code builds.
LEMMA ElemsAppend ==
  ASSUME NEW S, NEW s \in Seq(S), NEW e \in S
  PROVE  Elems(Append(s, e)) = Elems(s) \cup {e}
<1>1. Len(Append(s, e)) = Len(s) + 1 /\ Len(s) \in Nat
  OBVIOUS
<1>2. \A i \in 1..(Len(s) + 1) : Append(s, e)[i] = IF i <= Len(s) THEN s[i] ELSE e
  OBVIOUS
<1>3. DOMAIN Append(s, e) = 1..(Len(s) + 1) /\ DOMAIN s = 1..Len(s)
  OBVIOUS
<1>4. Elems(Append(s, e)) \subseteq Elems(s) \cup {e}
  BY <1>1, <1>2, <1>3 DEF Elems
<1>5. Elems(s) \subseteq Elems(Append(s, e))
  BY <1>1, <1>2, <1>3 DEF Elems
<1>6. e \in Elems(Append(s, e))
  <2>1. Append(s, e)[Len(s) + 1] = e
    BY <1>1, <1>2
  <2>2. QED
    BY <2>1, <1>1, <1>3 DEF Elems
<1>7. QED
  BY <1>4, <1>5, <1>6

\* The elements of a concatenation are those of its parts.
LEMMA ElemsConcat ==
  ASSUME NEW S, NEW s \in Seq(S), NEW r \in Seq(S)
  PROVE  Elems(s \o r) = Elems(s) \cup Elems(r)
<1>1. Len(s) \in Nat /\ Len(r) \in Nat /\ Len(s \o r) = Len(s) + Len(r)
  OBVIOUS
<1>2. DOMAIN (s \o r) = 1..(Len(s) + Len(r)) /\ DOMAIN s = 1..Len(s) /\ DOMAIN r = 1..Len(r)
  OBVIOUS
<1>3. \A i \in 1..(Len(s) + Len(r)) :
        (s \o r)[i] = IF i <= Len(s) THEN s[i] ELSE r[i - Len(s)]
  OBVIOUS
<1>4. Elems(s \o r) \subseteq Elems(s) \cup Elems(r)
  <2> SUFFICES ASSUME NEW i \in 1..(Len(s) + Len(r))
               PROVE  (s \o r)[i] \in Elems(s) \cup Elems(r)
    BY <1>2 DEF Elems
  <2>1. CASE i <= Len(s)
    BY <2>1, <1>1, <1>2, <1>3 DEF Elems
  <2>2. CASE i > Len(s)
    <3>1. i - Len(s) \in 1..Len(r)
      BY <2>2, <1>1
    <3>2. QED
      BY <2>2, <3>1, <1>1, <1>2, <1>3 DEF Elems
  <2>3. QED
    BY <2>1, <2>2, <1>1
<1>5. Elems(s) \subseteq Elems(s \o r)
  BY <1>1, <1>2, <1>3 DEF Elems
<1>6. Elems(r) \subseteq Elems(s \o r)
  <2> SUFFICES ASSUME NEW i \in 1..Len(r)
               PROVE  r[i] \in Elems(s \o r)
    BY <1>2 DEF Elems
  <2>1. i + Len(s) \in 1..(Len(s) + Len(r)) /\ (s \o r)[i + Len(s)] = r[i]
    BY <1>1, <1>3
  <2>2. QED
    BY <2>1, <1>2 DEF Elems
<1>7. QED
  BY <1>4, <1>5, <1>6

\* Deleting as many rows as there are leaves none.
LEMMA DeleteAll ==
  ASSUME NEW S, NEW s \in Seq(S)
  PROVE  SubSeq(s, Len(s) + 1, Len(s)) = <<>>
  OBVIOUS

-----------------------------------------------------------------------------
(* Types and the lock.                                                      *)

\* While emit runs, its row is the row of an event.
RowOK == \A t \in Threads : op[t] = "emit" => row[t] \in Event

Inv == TypeOK /\ LockOK /\ RowOK

\* A new sink is idle, unlocked, and holds no row.
LEMMA InitInv == Init => Inv
<1> SUFFICES ASSUME Init PROVE Inv
  OBVIOUS
<1>1. TypeOK
  <2>1. <<>> \in Seq(Event)
    OBVIOUS
  <2>2. 0 \in 0..MaxEmits /\ 0 \in 0..MaxFlushes /\ 0 \in 0..MaxLostAcks
    BY BoundAssumption
  <2>3. QED
    BY <2>1, <2>2 DEF Init, TypeOK
<1>2. LockOK
  BY NoneAssumption DEF Init, LockOK, InSection
<1>3. RowOK
  BY DEF Init, RowOK
<1>4. QED
  BY <1>1, <1>2, <1>3 DEF Inv

\* Every step keeps the types, and the lock with the thread inside.
LEMMA StepInv == Inv /\ [Next]_vars => Inv'
<1> SUFFICES ASSUME Inv, [Next]_vars PROVE Inv'
  OBVIOUS
<1> USE NoneAssumption, BoundAssumption DEF Inv, TypeOK, LockOK, RowOK, InSection,
         locals, frame, data, answers, Accepting
<1>1. ASSUME NEW t \in Threads, NEW storable \in BOOLEAN, CallEmit(t, storable)
      PROVE  Inv'
  <2>1. row'[t] \in Event /\ emits'[t] \in 0..MaxEmits
    BY <1>1 DEF CallEmit, Row, Idle, Event
  <2>2. QED
    BY <1>1, <2>1 DEF CallEmit, Idle, Enter
<1>3. ASSUME NEW t \in Threads, CallFlush(t)
      PROVE  Inv'
  BY <1>3 DEF CallFlush, Idle, Enter
<1>4. ASSUME NEW t \in Threads, CallClose(t)
      PROVE  Inv'
  BY <1>4 DEF CallClose, Idle, Enter
<1>5. ASSUME NEW t \in Threads, Acquire(t)
      PROVE  Inv'
  BY <1>5 DEF Acquire, LockFree
<1>6. ASSUME NEW t \in Threads, RefuseEmit(t)
      PROVE  Inv'
  BY <1>6 DEF RefuseEmit, Holds, Release
<1>7. ASSUME NEW t \in Threads, AppendRow(t)
      PROVE  Inv'
  <2>1. buffer' \in Seq(Event) /\ accepted' \in Seq(Event)
    BY <1>7 DEF AppendRow, Holds
  <2>2. CASE BatchFull(buffer')
    <3>1. StartFlush(t, buffer') /\ pc[t] = "locked" /\ op[t] = "emit"
      BY <1>7, <2>2 DEF AppendRow, Holds
    <3>2. pc'[t] \in {"flushed", "execute"} /\ \A s \in Threads \ {t} : pc'[s] = pc[s]
      BY <3>1 DEF StartFlush
    <3>3. /\ pc' \in [Threads -> {"idle", "wait", "locked", "execute", "committed", "flushed"}]
          /\ pending' \in [Threads -> Seq(Event)]
          /\ UNCHANGED <<op, row, lock>>
      BY <3>1, <2>1 DEF StartFlush
    <3>4. QED
      BY <1>7, <2>1, <3>1, <3>2, <3>3 DEF AppendRow
  <2>3. CASE ~BatchFull(buffer')
    <3>1. Release(t) /\ pc[t] = "locked"
      BY <1>7, <2>3 DEF AppendRow, Holds
    <3>2. pending' \in [Threads -> Seq(Event)]
      BY <3>1 DEF Release
    <3>3. QED
      BY <1>7, <2>1, <3>1, <3>2 DEF AppendRow, Release
  <2>4. QED
    BY <2>2, <2>3
<1>8. ASSUME NEW t \in Threads, FlushBody(t)
      PROVE  Inv'
  BY <1>8 DEF FlushBody, Holds, StartFlush
<1>9. ASSUME NEW t \in Threads, CloseBody(t)
      PROVE  Inv'
  <2>1. CASE closed
    <3>1. Release(t) /\ pc[t] = "locked"
      BY <1>9, <2>1 DEF CloseBody, Holds
    <3>2. pending' \in [Threads -> Seq(Event)]
      BY <3>1 DEF Release
    <3>3. QED
      BY <1>9, <3>1, <3>2 DEF CloseBody, Release
  <2>2. CASE ~closed
    <3>1. StartFlush(t, buffer) /\ pc[t] = "locked"
      BY <1>9, <2>2 DEF CloseBody, Holds
    <3>2. pc'[t] \in {"flushed", "execute"} /\ \A s \in Threads \ {t} : pc'[s] = pc[s]
      BY <3>1 DEF StartFlush
    <3>3. /\ pc' \in [Threads -> {"idle", "wait", "locked", "execute", "committed", "flushed"}]
          /\ pending' \in [Threads -> Seq(Event)]
          /\ UNCHANGED <<op, row, lock>>
      BY <3>1 DEF StartFlush
    <3>4. QED
      BY <1>9, <3>1, <3>2, <3>3 DEF CloseBody
  <2>3. QED
    BY <2>1, <2>2
<1>10. ASSUME NEW t \in Threads, Commit(t)
      PROVE  Inv'
  <2>1. table' \in Seq(Event)
    BY <1>10 DEF Commit
  <2>2. QED
    BY <1>10, <2>1 DEF Commit
<1>11. ASSUME NEW t \in Threads, FlushFails(t)
      PROVE  Inv'
  BY <1>11 DEF FlushFails, LeaveBlock
<1>12. ASSUME NEW t \in Threads, AckLost(t)
      PROVE  Inv'
  BY <1>12 DEF AckLost, LeaveBlock
<1>13. ASSUME NEW t \in Threads, Acknowledge(t)
      PROVE  Inv'
  <2>1. buffer' \in Seq(Event)
    BY <1>13 DEF Acknowledge, Trim, LeaveBlock
  <2>2. QED
    BY <1>13, <2>1 DEF Acknowledge, LeaveBlock
<1>14. ASSUME NEW t \in Threads, Return(t)
      PROVE  Inv'
  BY <1>14 DEF Return, Release
<1>15. ASSUME NEW t \in Threads, FinishClose(t)
      PROVE  Inv'
  <2>1. Elems(buffer) \subseteq Event
    BY DEF Elems
  <2>2. QED
    BY <1>15, <2>1 DEF FinishClose, Holds, Release
<1>16. CASE Crash
  BY <1>16 DEF Crash
<1>17. CASE UNCHANGED vars
  BY <1>17 DEF vars
<1>18. QED
  BY <1>1, <1>3, <1>4, <1>5, <1>6, <1>7, <1>8, <1>9, <1>10, <1>11, <1>12,
     <1>13, <1>14, <1>15, <1>16, <1>17 DEF Next, Call, Step, Stopped, vars

\* Every variable of the sink keeps its type, for any number of threads.
THEOREM TypeCorrect == Spec => []TypeOK
<1>1. Spec => []Inv
  BY InitInv, StepInv, PTL DEF Spec
<1>2. Inv => TypeOK
  BY DEF Inv
<1>3. QED
  BY <1>1, <1>2, PTL

-----------------------------------------------------------------------------
(* The data invariant.  What a thread copied is still the buffer while its  *)
(* transaction is in flight, because the lock is held; so the delete after  *)
(* a commit removes exactly the rows that the commit stored.                *)

CommittedIsStored ==
  \A t \in Threads : pc[t] = "committed" => Elems(pending[t]) \subseteq Elems(table)

\* Once a flush is over, and the latest transaction did not fail, the buffer is empty.
FlushedIsEmpty == \A t \in Threads : pc[t] = "flushed" /\ ~failing => buffer = <<>>

ClosedIsQuiet == closed => \A t \in Threads : pc[t] \notin {"execute", "committed"}

DataInv ==
  /\ PendingMatchesBuffer
  /\ CommittedIsStored
  /\ FlushedIsEmpty
  /\ ClosedIsQuiet
  /\ ClosedSinkIsEmpty
  /\ NoLoss
  /\ DropsOnlyAfterFailure
  /\ CrashLossBound

\* A new sink has nothing to lose.
LEMMA InitDataInv == Init => DataInv
<1> SUFFICES ASSUME Init PROVE DataInv
  OBVIOUS
<1>1. Elems(<<>>) = {}
  BY DEF Elems
<1>2. Len(<<>>) < BatchSize
  BY BatchAssumption
<1>3. QED
  BY <1>1, <1>2 DEF Init, DataInv, PendingMatchesBuffer, CommittedIsStored,
     FlushedIsEmpty, ClosedIsQuiet, ClosedSinkIsEmpty, NoLoss,
     DropsOnlyAfterFailure, CrashLossBound

\* A step that moves one thread between points outside a transaction, and
\* leaves the data alone, keeps the data invariant.
LEMMA FrameDataInv ==
  ASSUME Inv, DataInv, NEW t \in Threads,
         UNCHANGED <<buffer, closed, table, accepted, dropped, failing>>,
         \A s \in Threads \ {t} : pc'[s] = pc[s] /\ pending'[s] = pending[s],
         pc'[t] \notin {"execute", "committed", "flushed"},
         lock' = None => lock = None \/ pc[t] = "flushed" \/ closed
  PROVE  DataInv'
<1> USE DEF Inv, DataInv
<1>1. PendingMatchesBuffer' /\ CommittedIsStored' /\ FlushedIsEmpty' /\ ClosedIsQuiet'
  BY DEF PendingMatchesBuffer, CommittedIsStored, FlushedIsEmpty, ClosedIsQuiet
<1>2. ClosedSinkIsEmpty' /\ NoLoss' /\ DropsOnlyAfterFailure'
  BY DEF ClosedSinkIsEmpty, NoLoss, DropsOnlyAfterFailure
<1>3. CrashLossBound'
  <2>1. Len(<<>>) < BatchSize
    BY BatchAssumption
  <2>2. QED
    BY <2>1 DEF CrashLossBound, FlushedIsEmpty, ClosedSinkIsEmpty
<1>4. QED
  BY <1>1, <1>2, <1>3

\* The start of a flush keeps it too.
LEMMA StartDataInv ==
  ASSUME Inv, DataInv, NEW t \in Threads, lock = t, ~closed, pc[t] = "locked",
         NEW rows \in Seq(Event), StartFlush(t, rows), buffer' = rows,
         UNCHANGED <<closed, table, dropped, failing>>,
         Elems(accepted') \subseteq Elems(table) \cup Elems(rows) \cup dropped
  PROVE  DataInv'
<1> USE DEF Inv, DataInv
<1>1. pc'[t] = IF rows = <<>> THEN "flushed" ELSE "execute"
  BY DEF StartFlush, TypeOK
<1>2. pending'[t] = rows
  BY DEF StartFlush, TypeOK
<1>3. \A s \in Threads \ {t} : pc'[s] = pc[s] /\ pc[s] \notin {"locked", "execute", "committed", "flushed"}
  BY DEF StartFlush, TypeOK, LockOK, InSection
<1>4. PendingMatchesBuffer' /\ CommittedIsStored' /\ FlushedIsEmpty' /\ ClosedIsQuiet'
  BY <1>1, <1>2, <1>3 DEF PendingMatchesBuffer, CommittedIsStored, FlushedIsEmpty, ClosedIsQuiet
<1>5. ClosedSinkIsEmpty' /\ NoLoss' /\ DropsOnlyAfterFailure'
  BY DEF ClosedSinkIsEmpty, NoLoss, DropsOnlyAfterFailure
<1>6. CrashLossBound'
  BY NoneAssumption DEF CrashLossBound, StartFlush
<1>7. QED
  BY <1>4, <1>5, <1>6

\* Every step of emit, flush and close keeps the data invariant.
LEMMA StepDataInv == Inv /\ DataInv /\ [Next]_vars => DataInv'
<1> SUFFICES ASSUME Inv, DataInv, [Next]_vars PROVE DataInv'
  OBVIOUS
<1> USE NoneAssumption DEF locals, frame, data, answers, Accepting
<1>1. ASSUME NEW t \in Threads, Call(t)
      PROVE  DataInv'
  <2>1. /\ UNCHANGED <<pending, buffer, closed, table, accepted, dropped, failing, lock>>
        /\ \A s \in Threads \ {t} : pc'[s] = pc[s]
        /\ pc'[t] \notin {"execute", "committed", "flushed"}
    BY <1>1 DEF Inv, TypeOK, Call, CallEmit, CallFlush, CallClose, Enter, Idle
  <2>2. QED
    BY <2>1, FrameDataInv
<1>2. ASSUME NEW t \in Threads, Acquire(t)
      PROVE  DataInv'
  BY <1>2, FrameDataInv DEF Inv, TypeOK, Acquire
<1>3. ASSUME NEW t \in Threads, RefuseEmit(t)
      PROVE  DataInv'
  BY <1>3, FrameDataInv DEF Inv, TypeOK, RefuseEmit, Holds, Release
<1>4. ASSUME NEW t \in Threads, AppendRow(t)
      PROVE  DataInv'
  <2>1. row[t] \in Event /\ lock = t /\ pc[t] = "locked" /\ ~closed
    BY <1>4 DEF Inv, RowOK, LockOK, InSection, AppendRow, Holds
  <2>2. buffer' \in Seq(Event) /\ Elems(buffer') = Elems(buffer) \cup {row[t]}
    BY <1>4, <2>1, ElemsAppend DEF Inv, TypeOK, AppendRow
  <2>3. Elems(accepted') = Elems(accepted) \cup {row[t]}
    BY <1>4, <2>1, ElemsAppend DEF Inv, TypeOK, AppendRow
  <2>4. Elems(accepted') \subseteq Elems(table) \cup Elems(buffer') \cup dropped
    BY <2>2, <2>3 DEF DataInv, NoLoss
  <2>5. CASE BatchFull(buffer')
    BY <1>4, <2>1, <2>2, <2>4, <2>5, StartDataInv DEF AppendRow
  <2>6. CASE ~BatchFull(buffer')
    <3>1. /\ pc' = [pc EXCEPT ![t] = "idle"]
          /\ \A s \in Threads \ {t} : pending'[s] = pending[s]
          /\ UNCHANGED <<closed, table, dropped, failing>>
      BY <1>4, <2>6 DEF Inv, TypeOK, AppendRow, Release
    <3>2. \A s \in Threads \ {t} : pc'[s] = pc[s] /\ pc[s] \notin {"locked", "execute", "committed", "flushed"}
      BY <2>1, <3>1 DEF Inv, TypeOK, LockOK, InSection
    <3>3. pc'[t] = "idle"
      BY <3>1 DEF Inv, TypeOK
    <3>4. CrashLossBound'
      <4>1. Len(buffer') \in Nat /\ ~(Len(buffer') >= BatchSize)
        BY <2>2, <2>6 DEF BatchFull
      <4>2. QED
        BY <4>1, BatchAssumption DEF CrashLossBound
    <3>5. PendingMatchesBuffer' /\ CommittedIsStored' /\ FlushedIsEmpty' /\ ClosedIsQuiet'
      BY <3>1, <3>2, <3>3 DEF PendingMatchesBuffer, CommittedIsStored, FlushedIsEmpty, ClosedIsQuiet
    <3>6. ClosedSinkIsEmpty' /\ NoLoss' /\ DropsOnlyAfterFailure'
      BY <2>1, <2>4, <3>1 DEF DataInv, ClosedSinkIsEmpty, NoLoss, DropsOnlyAfterFailure
    <3>7. QED
      BY <3>4, <3>5, <3>6 DEF DataInv
  <2>7. QED
    BY <2>5, <2>6
<1>5. ASSUME NEW t \in Threads, FlushBody(t)
      PROVE  DataInv'
  <2>1. lock = t /\ pc[t] = "locked" /\ StartFlush(t, buffer) /\ buffer \in Seq(Event)
        /\ UNCHANGED <<buffer, closed, table, accepted, dropped, failing>>
    BY <1>5 DEF Inv, TypeOK, LockOK, InSection, FlushBody, Holds
  <2>2. CASE ~closed
    BY <2>1, <2>2, StartDataInv DEF DataInv, NoLoss
  <2>3. CASE closed
    <3>1. buffer = <<>>
      BY <2>3 DEF DataInv, ClosedSinkIsEmpty
    <3>2. pc'[t] = "flushed" /\ pending'[t] = <<>> /\ lock' = lock
          /\ \A s \in Threads \ {t} : pc'[s] = pc[s] /\ pending'[s] = pending[s]
      BY <2>1, <3>1 DEF StartFlush, Inv, TypeOK
    <3>3. PendingMatchesBuffer' /\ CommittedIsStored' /\ FlushedIsEmpty' /\ ClosedIsQuiet'
      BY <2>1, <3>1, <3>2 DEF DataInv, PendingMatchesBuffer, CommittedIsStored, FlushedIsEmpty, ClosedIsQuiet
    <3>4. ClosedSinkIsEmpty' /\ NoLoss' /\ DropsOnlyAfterFailure' /\ CrashLossBound'
      BY <2>1, <3>2 DEF DataInv, ClosedSinkIsEmpty, NoLoss, DropsOnlyAfterFailure, CrashLossBound
    <3>5. QED
      BY <3>3, <3>4 DEF DataInv
  <2>4. QED
    BY <2>2, <2>3
<1>6. ASSUME NEW t \in Threads, CloseBody(t)
      PROVE  DataInv'
  <2>1. lock = t /\ pc[t] = "locked" /\ buffer \in Seq(Event)
        /\ UNCHANGED <<buffer, closed, table, accepted, dropped, failing>>
    BY <1>6 DEF Inv, TypeOK, LockOK, InSection, CloseBody, Holds
  <2>2. CASE ~closed
    BY <1>6, <2>1, <2>2, StartDataInv DEF DataInv, NoLoss, CloseBody
  <2>3. CASE closed
    BY <1>6, <2>1, <2>3, FrameDataInv DEF Inv, TypeOK, CloseBody, Release
  <2>4. QED
    BY <2>2, <2>3
<1>7. ASSUME NEW t \in Threads, Commit(t)
      PROVE  DataInv'
  <2>1. /\ table \in Seq(Event) /\ pending[t] \in Seq(Event)
        /\ table' = table \o pending[t]
        /\ pc[t] = "execute" /\ pc'[t] = "committed"
        /\ \A s \in Threads \ {t} : pc'[s] = pc[s]
        /\ UNCHANGED <<pending, buffer, closed, accepted, dropped, failing, lock>>
    BY <1>7 DEF Inv, TypeOK, Commit
  <2>2. Elems(table') = Elems(table) \cup Elems(pending[t])
    BY <2>1, ElemsConcat
  <2>3. PendingMatchesBuffer' /\ CommittedIsStored' /\ FlushedIsEmpty' /\ ClosedIsQuiet'
    BY <2>1, <2>2 DEF DataInv, PendingMatchesBuffer, CommittedIsStored, FlushedIsEmpty, ClosedIsQuiet
  <2>4. ClosedSinkIsEmpty' /\ NoLoss' /\ DropsOnlyAfterFailure' /\ CrashLossBound'
    BY <2>1, <2>2 DEF DataInv, ClosedSinkIsEmpty, NoLoss, DropsOnlyAfterFailure, CrashLossBound
  <2>5. QED
    BY <2>3, <2>4 DEF DataInv
<1>8. ASSUME NEW t \in Threads, FlushFails(t) \/ AckLost(t)
      PROVE  DataInv'
  <2>1. /\ pc[t] \in {"execute", "committed"} /\ pc'[t] = "flushed" /\ failing' = TRUE
        /\ \A s \in Threads \ {t} : pc'[s] = pc[s]
        /\ UNCHANGED <<pending, buffer, closed, table, accepted, dropped, lock>>
    BY <1>8 DEF Inv, TypeOK, FlushFails, AckLost, LeaveBlock
  <2>2. PendingMatchesBuffer' /\ CommittedIsStored' /\ FlushedIsEmpty' /\ ClosedIsQuiet'
    BY <2>1 DEF DataInv, PendingMatchesBuffer, CommittedIsStored, FlushedIsEmpty, ClosedIsQuiet
  <2>3. ClosedSinkIsEmpty' /\ NoLoss' /\ DropsOnlyAfterFailure' /\ CrashLossBound'
    BY <2>1 DEF DataInv, ClosedSinkIsEmpty, NoLoss, DropsOnlyAfterFailure, CrashLossBound
  <2>4. QED
    BY <2>2, <2>3 DEF DataInv
<1>9. ASSUME NEW t \in Threads, Acknowledge(t)
      PROVE  DataInv'
  <2>1. /\ pc[t] = "committed" /\ pc'[t] = "flushed" /\ lock = t
        /\ \A s \in Threads \ {t} : pc'[s] = pc[s]
        /\ UNCHANGED <<pending, closed, table, accepted, dropped, lock>>
    BY <1>9 DEF Inv, TypeOK, LockOK, InSection, Acknowledge, LeaveBlock
  <2>2. \A s \in Threads \ {t} : pc[s] \notin {"locked", "execute", "committed", "flushed"}
    BY <2>1 DEF Inv, LockOK, InSection
  <2>3. pending[t] = buffer /\ Elems(buffer) \subseteq Elems(table)
    BY <2>1 DEF DataInv, PendingMatchesBuffer, CommittedIsStored
  <2>4. buffer' = <<>>
    <3>1. buffer' = SubSeq(buffer, Len(buffer) + 1, Len(buffer))
      BY <1>9, <2>3 DEF Acknowledge, Trim
    <3>2. QED
      BY <3>1, DeleteAll DEF Inv, TypeOK
  <2>5. PendingMatchesBuffer' /\ CommittedIsStored' /\ FlushedIsEmpty' /\ ClosedIsQuiet'
    BY <2>1, <2>2, <2>4 DEF DataInv, PendingMatchesBuffer, CommittedIsStored, FlushedIsEmpty, ClosedIsQuiet
  <2>6. dropped = {}
    BY <2>1 DEF DataInv, ClosedIsQuiet, DropsOnlyAfterFailure
  <2>7. ClosedSinkIsEmpty' /\ NoLoss' /\ DropsOnlyAfterFailure' /\ CrashLossBound'
    BY <2>1, <2>3, <2>4, <2>6, NoneAssumption
    DEF DataInv, ClosedSinkIsEmpty, NoLoss, DropsOnlyAfterFailure, CrashLossBound
  <2>8. QED
    BY <2>5, <2>7 DEF DataInv
<1>10. ASSUME NEW t \in Threads, Return(t)
      PROVE  DataInv'
  BY <1>10, FrameDataInv DEF Inv, TypeOK, Return, Release
<1>11. ASSUME NEW t \in Threads, FinishClose(t)
      PROVE  DataInv'
  <2>1. /\ pc[t] = "flushed" /\ pc'[t] = "idle" /\ lock = t
        /\ \A s \in Threads \ {t} : pc'[s] = pc[s]
        /\ dropped' = dropped \cup Elems(buffer) /\ buffer' = <<>> /\ closed' = TRUE
        /\ \A s \in Threads \ {t} : pending'[s] = pending[s]
        /\ UNCHANGED <<table, accepted, failing>>
    BY <1>11 DEF Inv, TypeOK, LockOK, InSection, FinishClose, Holds, Release
  <2>2. \A s \in Threads \ {t} : pc[s] \notin {"locked", "execute", "committed", "flushed"}
    BY <2>1 DEF Inv, LockOK, InSection
  <2>3. Elems(<<>>) = {} /\ Len(<<>>) < BatchSize
    BY BatchAssumption DEF Elems
  <2>4. PendingMatchesBuffer' /\ CommittedIsStored' /\ FlushedIsEmpty' /\ ClosedIsQuiet'
    BY <2>1, <2>2 DEF PendingMatchesBuffer, CommittedIsStored, FlushedIsEmpty, ClosedIsQuiet
  <2>5. ClosedSinkIsEmpty' /\ NoLoss' /\ CrashLossBound'
    BY <2>1, <2>3 DEF DataInv, ClosedSinkIsEmpty, NoLoss, CrashLossBound
  <2>6. DropsOnlyAfterFailure'
    BY <2>1, <2>3 DEF DataInv, DropsOnlyAfterFailure, FlushedIsEmpty
  <2>7. QED
    BY <2>4, <2>5, <2>6 DEF DataInv
<1>12. CASE Crash \/ UNCHANGED vars
  <2>1. UNCHANGED <<pc, pending, lock, buffer, closed, table, accepted, dropped, failing>>
    BY <1>12 DEF Crash, vars
  <2>2. QED
    BY <2>1 DEF DataInv, PendingMatchesBuffer, CommittedIsStored, FlushedIsEmpty, ClosedIsQuiet,
       ClosedSinkIsEmpty, NoLoss, DropsOnlyAfterFailure, CrashLossBound
<1>13. QED
  BY <1>1, <1>2, <1>3, <1>4, <1>5, <1>6, <1>7, <1>8, <1>9, <1>10, <1>11, <1>12
  DEF Next, Step, Stopped

\* Together the two invariants are inductive.
LEMMA Invariance == Spec => [](Inv /\ DataInv)
<1>1. Init => Inv /\ DataInv
  BY InitInv, InitDataInv
<1>2. Inv /\ DataInv /\ [Next]_vars => Inv' /\ DataInv'
  BY StepInv, StepDataInv
<1>3. QED
  BY <1>1, <1>2, PTL DEF Spec

\* The delete by count (db.py:174) hits exactly the rows that were copied.
THEOREM DeleteIsExact == Spec => []PendingMatchesBuffer
<1>1. DataInv => PendingMatchesBuffer
  BY DEF DataInv
<1>2. QED
  BY <1>1, Invariance, PTL

\* No accepted event is ever lost by a running sink: it is stored, buffered,
\* or among those that close reported.
THEOREM NothingLost == Spec => []NoLoss
<1>1. DataInv => NoLoss
  BY DEF DataInv
<1>2. QED
  BY <1>1, Invariance, PTL

\* close drops rows only after some flush failing.
THEOREM DropsNeedFailure == Spec => []DropsOnlyAfterFailure
<1>1. DataInv => DropsOnlyAfterFailure
  BY DEF DataInv
<1>2. QED
  BY <1>1, Invariance, PTL

\* Without a failing flush fewer than BatchSize rows are at the mercy of a crash.
THEOREM CrashLossIsBounded == Spec => []CrashLossBound
<1>1. DataInv => CrashLossBound
  BY DEF DataInv
<1>2. QED
  BY <1>1, Invariance, PTL

\* Nothing reaches the table, or the buffer, once the sink is closed.
THEOREM CloseIsFinal == Spec => TableFinalAfterClose
<1> USE DEF locals, frame, data, answers, Accepting, LeaveBlock
<1>1. Inv /\ DataInv /\ [Next]_vars => [closed => table' = table /\ accepted' = accepted]_vars
  <2> SUFFICES ASSUME Inv, DataInv, [Next]_vars, closed
               PROVE  table' = table /\ accepted' = accepted
    OBVIOUS
  <2>1. ASSUME NEW t \in Threads, Call(t)
        PROVE  table' = table /\ accepted' = accepted
    BY <2>1 DEF Call, CallEmit, CallFlush, CallClose, Enter
  <2>2. ASSUME NEW t \in Threads, Step(t)
        PROVE  table' = table /\ accepted' = accepted
    <3>1. ~AppendRow(t)
      BY DEF AppendRow
    <3>2. ~Commit(t)
      BY DEF Commit, DataInv, ClosedIsQuiet
    <3>3. QED
      BY <2>2, <3>1, <3>2 DEF Step, Acquire, RefuseEmit, FlushBody, CloseBody, FlushFails,
         AckLost, Acknowledge, Return, FinishClose
  <2>3. CASE Crash \/ UNCHANGED vars
    BY <2>3 DEF Crash, vars
  <2>4. QED
    BY <2>1, <2>2, <2>3 DEF Next, Stopped
<1>2. QED
  BY <1>1, Invariance, PTL DEF Spec, TableFinalAfterClose

-----------------------------------------------------------------------------
(* The order of the table.  The buffer is always the tail of what was       *)
(* accepted, no row is accepted twice, and while the sink is open everything *)
(* before that tail is stored: so a commit appends the accepted rows that    *)
(* come next, whole batches again after a lost answer included.              *)

\* A row that its emit has still to append.
Emitting(t) == op[t] = "emit" /\ pc[t] \in {"wait", "locked"}

BufferIsTail ==
  /\ Len(buffer) <= Len(accepted)
  /\ \A i \in 1..Len(buffer) : buffer[i] = accepted[Len(accepted) - Len(buffer) + i]

AcceptedOnce == \A i \in DOMAIN accepted, j \in DOMAIN accepted : accepted[i] = accepted[j] => i = j

\* A thread numbers its rows, and appends each before it makes the next.
AcceptedInTurn ==
  \A j \in DOMAIN accepted, t \in Threads :
    accepted[j].by = t =>
      /\ accepted[j].n <= emits[t]
      /\ Emitting(t) => accepted[j].n < emits[t]

RowIsNext == \A t \in Threads : Emitting(t) => row[t].by = t /\ row[t].n = emits[t]

TableFromAccepted == Elems(table) \subseteq Elems(accepted)

SettledIsStored ==
  ~closed => \A i \in 1..(Len(accepted) - Len(buffer)) : accepted[i] \in Elems(table)

OrderInv ==
  /\ BufferIsTail
  /\ AcceptedOnce
  /\ AcceptedInTurn
  /\ RowIsNext
  /\ TableFromAccepted
  /\ SettledIsStored
  /\ OrderedPersistence

\* Nothing is accepted yet.
LEMMA InitOrderInv == Init => OrderInv
<1> SUFFICES ASSUME Init PROVE OrderInv
  OBVIOUS
<1>1. Len(<<>>) = 0 /\ DOMAIN <<>> = {} /\ Elems(<<>>) = {}
  BY DEF Elems
<1>2. BufferIsTail /\ AcceptedOnce /\ AcceptedInTurn /\ TableFromAccepted
  BY <1>1 DEF Init, BufferIsTail, AcceptedOnce, AcceptedInTurn, TableFromAccepted
<1>3. RowIsNext /\ SettledIsStored /\ OrderedPersistence
  BY <1>1 DEF Init, RowIsNext, Emitting, SettledIsStored, OrderedPersistence
<1>4. QED
  BY <1>2, <1>3 DEF OrderInv

\* A step that accepts nothing, stores nothing, leaves the buffer and starts
\* no emit keeps the order.
LEMMA FrameOrderInv ==
  ASSUME Inv, OrderInv, UNCHANGED <<buffer, table, accepted, emits>>,
         closed' = closed,
         \A t \in Threads : Emitting(t)' => Emitting(t) /\ row'[t] = row[t]
  PROVE  OrderInv'
<1> USE DEF OrderInv
<1>1. BufferIsTail' /\ AcceptedOnce' /\ TableFromAccepted' /\ SettledIsStored' /\ OrderedPersistence'
  BY DEF BufferIsTail, AcceptedOnce, TableFromAccepted, SettledIsStored, OrderedPersistence
<1>2. AcceptedInTurn'
  BY DEF AcceptedInTurn
<1>3. RowIsNext'
  BY DEF RowIsNext
<1>4. QED
  BY <1>1, <1>2, <1>3

\* A row that its emit has still to append was never accepted.
LEMMA RowIsNew ==
  ASSUME Inv, OrderInv, NEW t \in Threads, Emitting(t)
  PROVE  row[t] \in Event /\ row[t] \notin Elems(accepted) /\ row[t] \notin Elems(table)
<1>1. row[t] \in Event /\ row[t].by = t /\ row[t].n = emits[t]
  BY DEF Inv, RowOK, OrderInv, RowIsNext, Emitting
<1>2. ASSUME NEW j \in DOMAIN accepted, accepted[j] = row[t]
      PROVE  FALSE
  <2>1. accepted[j].by = t /\ accepted[j].n = emits[t]
    BY <1>1, <1>2
  <2>2. accepted[j].n < emits[t]
    BY <2>1 DEF OrderInv, AcceptedInTurn
  <2>3. emits[t] \in Nat
    BY DEF Inv, TypeOK
  <2>4. QED
    BY <2>1, <2>2, <2>3
<1>3. QED
  BY <1>1, <1>2 DEF Elems, OrderInv, TableFromAccepted

\* A flush that was acknowledged, or a close, empties the buffer.
LEMMA EmptyOrderInv ==
  ASSUME Inv, OrderInv, buffer' = <<>>, UNCHANGED <<table, accepted, emits>>,
         ~closed' => ~closed /\ Elems(buffer) \subseteq Elems(table),
         \A t \in Threads : Emitting(t)' => Emitting(t) /\ row'[t] = row[t]
  PROVE  OrderInv'
<1>1. Len(<<>>) = 0 /\ Len(accepted) \in Nat /\ Len(buffer) \in Nat /\ buffer \in Seq(Event)
  BY DEF Inv, TypeOK
<1>2. BufferIsTail'
  BY <1>1 DEF BufferIsTail
<1>3. AcceptedOnce' /\ TableFromAccepted' /\ OrderedPersistence'
  BY DEF OrderInv, AcceptedOnce, TableFromAccepted, OrderedPersistence
<1>4. AcceptedInTurn'
  BY DEF OrderInv, AcceptedInTurn
<1>5. RowIsNext'
  BY DEF OrderInv, RowIsNext
<1>6. SettledIsStored'
  <2> SUFFICES ASSUME ~closed', NEW i \in 1..Len(accepted)
               PROVE  accepted[i] \in Elems(table)
    BY <1>1 DEF SettledIsStored
  <2>1. CASE i <= Len(accepted) - Len(buffer)
    <3>1. i \in 1..(Len(accepted) - Len(buffer))
      BY <2>1, <1>1
    <3>2. QED
      BY <3>1 DEF OrderInv, SettledIsStored
  <2>2. CASE i > Len(accepted) - Len(buffer)
    <3> DEFINE k == i - (Len(accepted) - Len(buffer))
    <3>1. k \in 1..Len(buffer) /\ i = Len(accepted) - Len(buffer) + k
      BY <2>2, <1>1
    <3>2. buffer[k] = accepted[i]
      BY <3>1 DEF OrderInv, BufferIsTail
    <3>3. buffer[k] \in Elems(buffer)
      BY <3>1, <1>1 DEF Elems
    <3>4. QED
      BY <3>2, <3>3
  <2>3. QED
    BY <2>1, <2>2, <1>1
<1>7. QED
  BY <1>2, <1>3, <1>4, <1>5, <1>6 DEF OrderInv

\* emit appends a new row at the end of both.
LEMMA AppendOrderInv ==
  ASSUME Inv, DataInv, OrderInv, NEW t \in Threads, AppendRow(t)
  PROVE  OrderInv'
<1> DEFINE a == accepted  b == buffer  e == row[t]
<1>0. Emitting(t) /\ ~closed /\ closed' = closed
  BY DEF AppendRow, Holds, Emitting, Accepting
<1>1. /\ e \in Event /\ e \notin Elems(a) /\ e \notin Elems(table)
      /\ a \in Seq(Event) /\ b \in Seq(Event)
      /\ accepted' = Append(a, e) /\ buffer' = Append(b, e)
      /\ UNCHANGED <<table, emits>>
  BY <1>0, RowIsNew DEF AppendRow, Inv, TypeOK, frame
<1>2. /\ Len(a) \in Nat /\ Len(b) \in Nat
      /\ Len(accepted') = Len(a) + 1 /\ Len(buffer') = Len(b) + 1
      /\ DOMAIN a = 1..Len(a) /\ DOMAIN accepted' = 1..(Len(a) + 1)
  BY <1>1
<1>3. /\ \A i \in 1..Len(a) : accepted'[i] = a[i]
      /\ accepted'[Len(a) + 1] = e
      /\ \A i \in 1..Len(b) : buffer'[i] = b[i]
      /\ buffer'[Len(b) + 1] = e
  BY <1>1
<1>4. BufferIsTail'
  <2>1. Len(b) <= Len(a) /\ \A i \in 1..Len(b) : b[i] = a[Len(a) - Len(b) + i]
    BY DEF OrderInv, BufferIsTail
  <2>2. ASSUME NEW i \in 1..(Len(b) + 1)
        PROVE  buffer'[i] = accepted'[(Len(a) + 1) - (Len(b) + 1) + i]
    <3>1. CASE i \in 1..Len(b)
      <4>1. Len(a) - Len(b) + i \in 1..Len(a) /\ (Len(a) + 1) - (Len(b) + 1) + i = Len(a) - Len(b) + i
        BY <3>1, <1>2, <2>1
      <4>2. QED
        BY <3>1, <4>1, <2>1, <1>3
    <3>2. CASE i = Len(b) + 1
      <4>1. (Len(a) + 1) - (Len(b) + 1) + i = Len(a) + 1
        BY <3>2, <1>2
      <4>2. QED
        BY <3>2, <4>1, <1>3
    <3>3. QED
      BY <3>1, <3>2, <1>2
  <2>3. QED
    BY <2>1, <2>2, <1>2 DEF BufferIsTail
<1>5. AcceptedOnce'
  <2> SUFFICES ASSUME NEW i \in 1..(Len(a) + 1), NEW j \in 1..(Len(a) + 1),
                      accepted'[i] = accepted'[j]
               PROVE  i = j
    BY <1>2 DEF AcceptedOnce
  <2>1. \A k \in 1..Len(a) : a[k] # e
    BY <1>1, <1>2 DEF Elems
  <2>2. CASE i \in 1..Len(a) /\ j \in 1..Len(a)
    BY <2>2, <1>2, <1>3 DEF OrderInv, AcceptedOnce
  <2>3. CASE i = Len(a) + 1 \/ j = Len(a) + 1
    BY <2>1, <2>3, <1>2, <1>3
  <2>4. QED
    BY <2>2, <2>3, <1>2
<1>6. \A s \in Threads : Emitting(s)' => s # t /\ Emitting(s) /\ row'[s] = row[s]
  BY <1>0 DEF AppendRow, StartFlush, Release, Emitting, Inv, TypeOK
<1>7. AcceptedInTurn'
  <2> SUFFICES ASSUME NEW j \in 1..(Len(a) + 1), NEW s \in Threads, accepted'[j].by = s
               PROVE  /\ accepted'[j].n <= emits[s]
                      /\ Emitting(s)' => accepted'[j].n < emits[s]
    BY <1>1, <1>2 DEF AcceptedInTurn
  <2>1. CASE j \in 1..Len(a)
    BY <2>1, <1>2, <1>3, <1>6 DEF OrderInv, AcceptedInTurn
  <2>2. CASE j = Len(a) + 1
    <3>1. e.by = t /\ e.n = emits[t] /\ emits[t] \in Nat
      BY <1>0 DEF OrderInv, RowIsNext, Inv, TypeOK
    <3>2. ~Emitting(t)'
      BY <1>6
    <3>3. accepted'[j] = e
      BY <2>2, <1>3
    <3>4. QED
      BY <3>1, <3>2, <3>3
  <2>3. QED
    BY <2>1, <2>2, <1>2
<1>8. RowIsNext'
  BY <1>1, <1>6 DEF OrderInv, RowIsNext
<1>9. TableFromAccepted'
  <2>1. Elems(accepted') = Elems(a) \cup {e}
    BY <1>1, ElemsAppend
  <2>2. QED
    BY <2>1, <1>1 DEF OrderInv, TableFromAccepted
<1>10. SettledIsStored'
  <2> SUFFICES ASSUME NEW i \in 1..((Len(a) + 1) - (Len(b) + 1))
               PROVE  accepted'[i] \in Elems(table)
    BY <1>1, <1>2 DEF SettledIsStored
  <2>1. i \in 1..(Len(a) - Len(b)) /\ i \in 1..Len(a)
    BY <1>2
  <2>2. QED
    BY <2>1, <1>0, <1>3 DEF OrderInv, SettledIsStored
<1>11. OrderedPersistence'
  <2> SUFFICES ASSUME NEW j \in 1..(Len(a) + 1), NEW q \in DOMAIN table,
                      table[q] = accepted'[j], NEW i \in 1..(j - 1)
               PROVE  \E p \in 1..(q - 1) : table[p] = accepted'[i]
    BY <1>1, <1>2 DEF OrderedPersistence
  <2>1. table[q] # e
    BY <1>1 DEF Elems
  <2>2. j \in 1..Len(a) /\ i \in 1..Len(a)
    BY <2>1, <1>2, <1>3
  <2>3. QED
    BY <2>2, <1>2, <1>3 DEF OrderInv, OrderedPersistence
<1>12. QED
  BY <1>4, <1>5, <1>7, <1>8, <1>9, <1>10, <1>11 DEF OrderInv

\* A commit appends the rows that come next in the order of acceptance.
LEMMA CommitOrderInv ==
  ASSUME Inv, DataInv, OrderInv, NEW t \in Threads, Commit(t)
  PROVE  OrderInv'
<1> DEFINE a == accepted  b == buffer  c == Len(a) - Len(b)
<1>1. /\ a \in Seq(Event) /\ b \in Seq(Event) /\ table \in Seq(Event)
      /\ table' = table \o b /\ ~closed
      /\ UNCHANGED <<accepted, buffer, emits, closed, op, row>>
      /\ pc' = [pc EXCEPT ![t] = "committed"]
  BY DEF Commit, Inv, TypeOK, DataInv, PendingMatchesBuffer, ClosedIsQuiet, frame
<1>2. /\ Len(a) \in Nat /\ Len(b) \in Nat /\ Len(table) \in Nat
      /\ Len(table') = Len(table) + Len(b)
      /\ DOMAIN a = 1..Len(a) /\ DOMAIN b = 1..Len(b)
      /\ DOMAIN table = 1..Len(table) /\ DOMAIN table' = 1..(Len(table) + Len(b))
  BY <1>1
<1>3. /\ \A q \in 1..Len(table) : table'[q] = table[q]
      /\ \A k \in 1..Len(b) : table'[Len(table) + k] = b[k]
  BY <1>1
<1>4. Len(b) <= Len(a) /\ \A k \in 1..Len(b) : b[k] = a[c + k]
  BY DEF OrderInv, BufferIsTail
<1>5. Elems(table') = Elems(table) \cup Elems(b)
  BY <1>1, ElemsConcat
<1>6. TableFromAccepted'
  <2>1. ASSUME NEW k \in 1..Len(b)
        PROVE  b[k] \in Elems(a)
    <3>1. c + k \in 1..Len(a)
      BY <1>2, <1>4
    <3>2. QED
      BY <3>1, <1>2, <1>4 DEF Elems
  <2>2. Elems(b) \subseteq Elems(a)
    BY <2>1, <1>2 DEF Elems
  <2>3. QED
    BY <2>2, <1>1, <1>5 DEF OrderInv, TableFromAccepted
<1>7. SettledIsStored'
  BY <1>1, <1>5 DEF OrderInv, SettledIsStored
<1>8. OrderedPersistence'
  <2> SUFFICES ASSUME NEW j \in 1..Len(a), NEW q \in 1..(Len(table) + Len(b)),
                      table'[q] = a[j], NEW i \in 1..(j - 1)
               PROVE  \E p \in 1..(q - 1) : table'[p] = a[i]
    <3>1. accepted' = a /\ DOMAIN accepted' = 1..Len(a)
      BY <1>1, <1>2
    <3>2. QED
      BY <3>1, <1>2 DEF OrderedPersistence
  <2>1. CASE q \in 1..Len(table)
    <3>1. table[q] = a[j]
      BY <2>1, <1>3
    <3>2. PICK p \in 1..(q - 1) : table[p] = a[i]
      BY <3>1, <2>1, <1>2 DEF OrderInv, OrderedPersistence
    <3>3. p \in 1..Len(table)
      BY <2>1, <1>2
    <3>4. QED
      BY <3>2, <3>3, <1>3
  <2>2. CASE q > Len(table)
    <3> DEFINE k == q - Len(table)
    <3>1. k \in 1..Len(b) /\ q = Len(table) + k
      BY <2>2, <1>2
    <3>2. a[c + k] = a[j] /\ c + k \in 1..Len(a)
      <4>1. table'[Len(table) + k] = b[k] /\ b[k] = a[c + k]
        BY <3>1, <1>3, <1>4
      <4>2. c + k \in 1..Len(a)
        BY <3>1, <1>2, <1>4
      <4>3. QED
        BY <3>1, <4>1, <4>2
    <3>3. j = c + k
      BY <3>2, <1>2 DEF OrderInv, AcceptedOnce
    <3>4. CASE i <= c
      <4>1. i \in 1..c
        BY <3>4, <1>2
      <4>2. a[i] \in Elems(table)
        BY <4>1, <1>1 DEF OrderInv, SettledIsStored
      <4>3. PICK p \in 1..Len(table) : table[p] = a[i]
        BY <4>2, <1>2 DEF Elems
      <4>4. p \in 1..(q - 1) /\ table'[p] = a[i]
        BY <4>3, <3>1, <1>2, <1>3
      <4>5. QED
        BY <4>4
    <3>5. CASE i > c
      <4>1. i - c \in 1..Len(b) /\ i - c < k /\ c + (i - c) = i
        BY <3>1, <3>3, <3>5, <1>2, <1>4
      <4>2. table'[Len(table) + (i - c)] = a[i]
        BY <4>1, <1>3, <1>4
      <4>3. Len(table) + (i - c) \in 1..(q - 1)
        BY <4>1, <3>1, <1>2
      <4>4. QED
        BY <4>2, <4>3
    <3>6. QED
      BY <3>4, <3>5, <1>2
  <2>3. QED
    BY <2>1, <2>2, <1>2
<1>9. BufferIsTail' /\ AcceptedOnce'
  BY <1>1 DEF OrderInv, BufferIsTail, AcceptedOnce
<1>10. \A s \in Threads : Emitting(s)' => Emitting(s)
  BY <1>1 DEF Emitting, Inv, TypeOK
<1>11. AcceptedInTurn' /\ RowIsNext'
  BY <1>1, <1>10 DEF OrderInv, AcceptedInTurn, RowIsNext
<1>12. QED
  BY <1>6, <1>7, <1>8, <1>9, <1>11 DEF OrderInv

\* emit takes the next number of its thread.
LEMMA CallEmitOrderInv ==
  ASSUME Inv, OrderInv, NEW t \in Threads, NEW storable \in BOOLEAN, CallEmit(t, storable)
  PROVE  OrderInv'
<1>1. /\ pc[t] = "idle"
      /\ emits' = [emits EXCEPT ![t] = @ + 1]
      /\ row' = [row EXCEPT ![t] = Row(t, storable)]
      /\ UNCHANGED <<buffer, closed, table, accepted>>
      /\ \A s \in Threads \ {t} : pc'[s] = pc[s] /\ op'[s] = op[s]
  BY DEF CallEmit, Idle, Enter, data, Inv, TypeOK
<1>2. /\ emits'[t] = emits[t] + 1 /\ row'[t].by = t /\ row'[t].n = emits[t] + 1
      /\ \A s \in Threads \ {t} : emits'[s] = emits[s] /\ row'[s] = row[s]
      /\ \A s \in Threads : emits[s] \in Nat
  BY <1>1 DEF Row, Inv, TypeOK
<1>3. BufferIsTail' /\ AcceptedOnce' /\ TableFromAccepted' /\ SettledIsStored' /\ OrderedPersistence'
  BY <1>1 DEF OrderInv, BufferIsTail, AcceptedOnce, TableFromAccepted, SettledIsStored, OrderedPersistence
<1>4. RowIsNext'
  <2> SUFFICES ASSUME NEW s \in Threads, Emitting(s)'
               PROVE  row'[s].by = s /\ row'[s].n = emits'[s]
    BY DEF RowIsNext
  <2>1. CASE s = t
    BY <2>1, <1>2
  <2>2. CASE s # t
    BY <2>2, <1>1, <1>2 DEF OrderInv, RowIsNext, Emitting
  <2>3. QED
    BY <2>1, <2>2
<1>5. AcceptedInTurn'
  <2> SUFFICES ASSUME NEW j \in DOMAIN accepted, NEW s \in Threads, accepted[j].by = s
               PROVE  /\ accepted[j].n <= emits'[s]
                      /\ Emitting(s)' => accepted[j].n < emits'[s]
    BY <1>1 DEF AcceptedInTurn
  <2>1. /\ accepted[j].n <= emits[s]
        /\ Emitting(s) => accepted[j].n < emits[s]
    BY DEF OrderInv, AcceptedInTurn
  <2>2. accepted[j] \in Event
    BY DEF Inv, TypeOK
  <2>3. accepted[j].n \in Nat
    BY <2>2, BoundAssumption DEF Event
  <2>4. CASE s = t
    BY <2>1, <2>3, <2>4, <1>2
  <2>5. CASE s # t
    BY <2>1, <2>5, <1>1, <1>2 DEF Emitting
  <2>6. QED
    BY <2>4, <2>5
<1>6. QED
  BY <1>3, <1>4, <1>5 DEF OrderInv

\* Every step of emit, flush and close keeps the order.
LEMMA StepOrderInv == Inv /\ DataInv /\ OrderInv /\ [Next]_vars => OrderInv'
<1> SUFFICES ASSUME Inv, DataInv, OrderInv, [Next]_vars PROVE OrderInv'
  OBVIOUS
<1>1. ASSUME NEW t \in Threads, CallFlush(t) \/ CallClose(t)
      PROVE  OrderInv'
  <2>1. UNCHANGED <<buffer, table, accepted, emits, closed>>
    BY <1>1 DEF CallFlush, CallClose, Enter, data
  <2>2. \A s \in Threads : Emitting(s)' => Emitting(s) /\ row'[s] = row[s]
    BY <1>1 DEF CallFlush, CallClose, Enter, Emitting, Inv, TypeOK
  <2>3. QED
    BY <2>1, <2>2, FrameOrderInv
<1>2. ASSUME NEW t \in Threads, Acquire(t)
      PROVE  OrderInv'
  <2>1. UNCHANGED <<buffer, table, accepted, emits, closed>>
    BY <1>2 DEF Acquire, data, frame
  <2>2. \A s \in Threads : Emitting(s)' => Emitting(s) /\ row'[s] = row[s]
    BY <1>2 DEF Acquire, Emitting, Inv, TypeOK
  <2>3. QED
    BY <2>1, <2>2, FrameOrderInv
<1>3. ASSUME NEW t \in Threads, RefuseEmit(t) \/ Return(t)
      PROVE  OrderInv'
  <2>1. UNCHANGED <<buffer, table, accepted, emits, closed>>
    BY <1>3 DEF RefuseEmit, Return, data, frame
  <2>2. \A s \in Threads : Emitting(s)' => Emitting(s) /\ row'[s] = row[s]
    BY <1>3 DEF RefuseEmit, Return, Release, Emitting, Inv, TypeOK
  <2>3. QED
    BY <2>1, <2>2, FrameOrderInv
<1>4. ASSUME NEW t \in Threads, FlushBody(t) \/ CloseBody(t)
      PROVE  OrderInv'
  <2>1. UNCHANGED <<buffer, table, accepted, emits, closed>>
    BY <1>4 DEF FlushBody, CloseBody, data, frame
  <2>2. \A s \in Threads : Emitting(s)' => Emitting(s) /\ row'[s] = row[s]
    BY <1>4 DEF FlushBody, CloseBody, StartFlush, Release, Holds, Emitting, Inv, TypeOK
  <2>3. QED
    BY <2>1, <2>2, FrameOrderInv
<1>5. ASSUME NEW t \in Threads, FlushFails(t) \/ AckLost(t)
      PROVE  OrderInv'
  <2>1. UNCHANGED <<buffer, table, accepted, emits, closed>>
    BY <1>5 DEF FlushFails, AckLost, LeaveBlock, frame
  <2>2. \A s \in Threads : Emitting(s)' => Emitting(s) /\ row'[s] = row[s]
    BY <1>5 DEF FlushFails, AckLost, LeaveBlock, Emitting, Inv, TypeOK
  <2>3. QED
    BY <2>1, <2>2, FrameOrderInv
<1>6. ASSUME NEW t \in Threads, Acknowledge(t)
      PROVE  OrderInv'
  <2>1. /\ pending[t] = buffer /\ Elems(buffer) \subseteq Elems(table) /\ ~closed
        /\ UNCHANGED <<table, accepted, emits, closed>>
    BY <1>6 DEF DataInv, PendingMatchesBuffer, CommittedIsStored, ClosedIsQuiet, Acknowledge, LeaveBlock, frame
  <2>2. buffer' = <<>>
    <3>1. buffer' = SubSeq(buffer, Len(buffer) + 1, Len(buffer))
      BY <1>6, <2>1 DEF Acknowledge, Trim
    <3>2. QED
      BY <3>1, DeleteAll DEF Inv, TypeOK
  <2>3. \A s \in Threads : Emitting(s)' => Emitting(s) /\ row'[s] = row[s]
    BY <1>6 DEF Acknowledge, LeaveBlock, Emitting, Inv, TypeOK
  <2>4. QED
    BY <2>1, <2>2, <2>3, EmptyOrderInv
<1>7. ASSUME NEW t \in Threads, FinishClose(t)
      PROVE  OrderInv'
  <2>1. buffer' = <<>> /\ closed' = TRUE /\ UNCHANGED <<table, accepted, emits>>
    BY <1>7 DEF FinishClose, frame
  <2>2. \A s \in Threads : Emitting(s)' => Emitting(s) /\ row'[s] = row[s]
    BY <1>7 DEF FinishClose, Release, Emitting, Inv, TypeOK
  <2>3. QED
    BY <2>1, <2>2, EmptyOrderInv
<1>8. CASE Crash \/ UNCHANGED vars
  <2>1. UNCHANGED <<buffer, table, accepted, emits, closed, pc, op, row>>
    BY <1>8 DEF Crash, vars, locals, data, frame
  <2>2. QED
    BY <2>1, FrameOrderInv DEF Emitting
<1>9. QED
  BY <1>1, <1>2, <1>3, <1>4, <1>5, <1>6, <1>7, <1>8, CallEmitOrderInv, AppendOrderInv, CommitOrderInv
  DEF Next, Call, Step, Stopped

\* A row is stored only after every row accepted before it, whatever batches
\* failed, were retried, or were committed twice.
THEOREM TableInOrder == Spec => []OrderedPersistence
<1>1. Init => Inv /\ DataInv /\ OrderInv
  BY InitInv, InitDataInv, InitOrderInv
<1>2. Inv /\ DataInv /\ OrderInv /\ [Next]_vars => (Inv /\ DataInv /\ OrderInv)'
  BY StepInv, StepDataInv, StepOrderInv
<1>3. OrderInv => OrderedPersistence
  BY DEF OrderInv
<1>4. QED
  BY <1>1, <1>2, <1>3, PTL DEF Spec

-----------------------------------------------------------------------------
(* The copies.  A buffered row that no transaction has just stored has at   *)
(* most one copy for each answer that was lost; a commit adds one of each.  *)

\* Appending a sequence without e adds no place where e is.
LEMMA PlacesSame ==
  ASSUME NEW S, NEW s \in Seq(S), NEW r \in Seq(S), NEW e \in S, e \notin Elems(r)
  PROVE  {i \in DOMAIN (s \o r) : (s \o r)[i] = e} = {i \in DOMAIN s : s[i] = e}
<1>1. /\ Len(s) \in Nat /\ Len(r) \in Nat
      /\ DOMAIN (s \o r) = 1..(Len(s) + Len(r)) /\ DOMAIN s = 1..Len(s) /\ DOMAIN r = 1..Len(r)
  OBVIOUS
<1>2. /\ \A i \in 1..Len(s) : (s \o r)[i] = s[i]
      /\ \A i \in (Len(s) + 1)..(Len(s) + Len(r)) : (s \o r)[i] = r[i - Len(s)]
  OBVIOUS
<1>3. ASSUME NEW i \in (Len(s) + 1)..(Len(s) + Len(r))
      PROVE  (s \o r)[i] # e
  <2>1. i - Len(s) \in 1..Len(r)
    BY <1>1
  <2>2. QED
    BY <2>1, <1>1, <1>2 DEF Elems
<1>4. QED
  BY <1>1, <1>2, <1>3

\* Appending a sequence that has e once adds one.
LEMMA PlacesOne ==
  ASSUME NEW S, NEW s \in Seq(S), NEW r \in Seq(S), NEW k \in DOMAIN r,
         \A j \in DOMAIN r : r[j] = r[k] => j = k
  PROVE  {i \in DOMAIN (s \o r) : (s \o r)[i] = r[k]} = {i \in DOMAIN s : s[i] = r[k]} \cup {Len(s) + k}
<1>1. /\ Len(s) \in Nat /\ Len(r) \in Nat
      /\ DOMAIN (s \o r) = 1..(Len(s) + Len(r)) /\ DOMAIN s = 1..Len(s) /\ DOMAIN r = 1..Len(r)
  OBVIOUS
<1>2. /\ \A i \in 1..Len(s) : (s \o r)[i] = s[i]
      /\ \A i \in (Len(s) + 1)..(Len(s) + Len(r)) : (s \o r)[i] = r[i - Len(s)]
  OBVIOUS
<1>3. ASSUME NEW i \in (Len(s) + 1)..(Len(s) + Len(r))
      PROVE  (s \o r)[i] = r[k] <=> i = Len(s) + k
  <2>1. i - Len(s) \in 1..Len(r) /\ (i = Len(s) + k <=> i - Len(s) = k)
    BY <1>1
  <2>2. QED
    BY <2>1, <1>1, <1>2
<1>4. Len(s) + k \in (Len(s) + 1)..(Len(s) + Len(r))
  BY <1>1
<1>5. QED
  BY <1>1, <1>2, <1>3, <1>4

\* The places of a row in the table are finitely many.
LEMMA CopiesFinite ==
  ASSUME NEW S, NEW s \in Seq(S), NEW e
  PROVE  IsFiniteSet({i \in DOMAIN s : s[i] = e}) /\ Cardinality({i \in DOMAIN s : s[i] = e}) \in Nat
<1>1. IsFiniteSet(1..Len(s)) /\ DOMAIN s = 1..Len(s)
  BY FS_Interval
<1>2. IsFiniteSet({i \in DOMAIN s : s[i] = e})
  BY <1>1, FS_Subset
<1>3. QED
  BY <1>2, FS_CardinalityType

Committing == \E t \in Threads : pc[t] = "committed"

CopiesInv ==
  \A e \in Event :
    /\ Copies(e) <= 1 + lostAcks
    /\ e \in Elems(buffer) /\ ~Committing => Copies(e) <= lostAcks

AllInv == Inv /\ DataInv /\ OrderInv

\* The empty table holds no copy.
LEMMA InitCopiesInv == Init => CopiesInv
<1> SUFFICES ASSUME Init, NEW e \in Event PROVE Copies(e) = 0 /\ lostAcks = 0
  BY DEF CopiesInv
<1>1. {i \in DOMAIN table : table[i] = e} = {}
  BY DEF Init
<1>2. QED
  BY <1>1, FS_EmptySet DEF Copies, Init

\* A step that stores nothing, loses no answer, and buffers nothing keeps the copies.
LEMMA FrameCopiesInv ==
  ASSUME CopiesInv, UNCHANGED <<table, lostAcks>>,
         Elems(buffer') = {} \/ (buffer' = buffer /\ (Committing => Committing'))
  PROVE  CopiesInv'
BY DEF CopiesInv, Copies

\* Every step of emit, flush and close keeps the bound.
LEMMA StepCopiesInv == AllInv /\ CopiesInv /\ [Next]_vars => CopiesInv'
<1> SUFFICES ASSUME AllInv, CopiesInv, [Next]_vars PROVE CopiesInv'
  OBVIOUS
<1> USE DEF AllInv
<1>1. ASSUME NEW t \in Threads, Call(t) \/ Acquire(t) \/ RefuseEmit(t) \/ FlushBody(t)
                                \/ CloseBody(t) \/ Return(t) \/ FlushFails(t)
      PROVE  CopiesInv'
  <2>1. UNCHANGED <<table, lostAcks, buffer>>
    BY <1>1 DEF Call, CallEmit, CallFlush, CallClose, Enter, Acquire, RefuseEmit, FlushBody,
       CloseBody, Return, FlushFails, LeaveBlock, data, answers
  <2>2. pc[t] # "committed" /\ \A s \in Threads \ {t} : pc'[s] = pc[s]
    BY <1>1 DEF Call, CallEmit, CallFlush, CallClose, Idle, Enter, Acquire, RefuseEmit, FlushBody,
       CloseBody, Return, FlushFails, LeaveBlock, Holds, StartFlush, Release, Inv, TypeOK
  <2>3. Committing => Committing'
    BY <2>2 DEF Committing
  <2>4. QED
    BY <2>1, <2>3, FrameCopiesInv
<1>2. ASSUME NEW t \in Threads, AppendRow(t)
      PROVE  CopiesInv'
  <2>1. /\ Emitting(t) /\ row[t] \in Event /\ row[t] \notin Elems(table)
        /\ UNCHANGED <<table, lostAcks>> /\ pc[t] = "locked"
    BY <1>2, RowIsNew DEF AppendRow, Holds, Emitting, answers
  <2>2. Elems(buffer') = Elems(buffer) \cup {row[t]}
    BY <1>2, <2>1, ElemsAppend DEF Inv, TypeOK, AppendRow
  <2>3. ~Committing
    BY <2>1 DEF Committing, Inv, LockOK, InSection
  <2>4. Copies(row[t]) = 0
    <3>1. {i \in DOMAIN table : table[i] = row[t]} = {}
      BY <2>1 DEF Elems
    <3>2. QED
      BY <3>1, FS_EmptySet DEF Copies
  <2>5. lostAcks \in Nat
    BY BoundAssumption DEF Inv, TypeOK
  <2>6. ASSUME NEW e \in Event
        PROVE  Copies(e)' = Copies(e)
    BY <2>1 DEF Copies
  <2>7. ASSUME NEW e \in Event
        PROVE  /\ Copies(e) <= 1 + lostAcks
               /\ e \in Elems(buffer') => Copies(e) <= lostAcks
    <3>1. CASE e = row[t]
      BY <3>1, <2>4, <2>5
    <3>2. CASE e # row[t]
      BY <3>2, <2>2, <2>3 DEF CopiesInv
    <3>3. QED
      BY <3>1, <3>2
  <2>8. QED
    BY <2>1, <2>6, <2>7 DEF CopiesInv
<1>3. ASSUME NEW t \in Threads, Commit(t)
      PROVE  CopiesInv'
  <2>1. /\ buffer \in Seq(Event) /\ table \in Seq(Event) /\ table' = table \o buffer
        /\ pc[t] = "execute" /\ pc' = [pc EXCEPT ![t] = "committed"]
        /\ UNCHANGED <<buffer, lostAcks>>
    BY <1>3 DEF Commit, Inv, TypeOK, DataInv, PendingMatchesBuffer, answers
  <2>2. ~Committing /\ Committing'
    BY <2>1 DEF Committing, Inv, TypeOK, LockOK, InSection
  <2>3. lostAcks \in Nat
    BY BoundAssumption DEF Inv, TypeOK
  <2>4. ASSUME NEW k \in DOMAIN buffer, NEW j \in DOMAIN buffer, buffer[j] = buffer[k]
        PROVE  j = k
    <3> DEFINE c == Len(accepted) - Len(buffer)
    <3>1. /\ j \in 1..Len(buffer) /\ k \in 1..Len(buffer)
          /\ Len(buffer) \in Nat /\ Len(accepted) \in Nat /\ DOMAIN accepted = 1..Len(accepted)
          /\ Len(buffer) <= Len(accepted)
      BY <2>1 DEF Inv, TypeOK, OrderInv, BufferIsTail
    <3>2. accepted[c + j] = accepted[c + k]
      BY <3>1, <2>4 DEF OrderInv, BufferIsTail
    <3>3. c + j \in DOMAIN accepted /\ c + k \in DOMAIN accepted
      BY <3>1
    <3>4. c + j = c + k
      BY <3>2, <3>3 DEF OrderInv, AcceptedOnce
    <3>5. QED
      BY <3>1, <3>4
  <2>5. ASSUME NEW e \in Event
        PROVE  Copies(e)' <= 1 + lostAcks
    <3> DEFINE P == {i \in DOMAIN table : table[i] = e}
               Q == {i \in DOMAIN table' : table'[i] = e}
    <3>1. IsFiniteSet(P) /\ Cardinality(P) \in Nat
      BY <2>1, CopiesFinite
    <3>2. Copies(e)' = Cardinality(Q) /\ Copies(e) = Cardinality(P)
      BY DEF Copies
    <3>3. CASE e \in Elems(buffer)
      <4>1. PICK k \in DOMAIN buffer : buffer[k] = e
        BY <3>3 DEF Elems
      <4>2. Q = P \cup {Len(table) + k}
        <5>1. \A j \in DOMAIN buffer : buffer[j] = buffer[k] => j = k
          BY <2>4
        <5>2. {i \in DOMAIN (table \o buffer) : (table \o buffer)[i] = buffer[k]}
                = {i \in DOMAIN table : table[i] = buffer[k]} \cup {Len(table) + k}
          BY <2>1, <5>1, PlacesOne
        <5>3. QED
          BY <2>1, <4>1, <5>2
      <4>3. Cardinality(Q) <= Cardinality(P) + 1
        <5>1. Cardinality(Q) = IF Len(table) + k \in P THEN Cardinality(P) ELSE Cardinality(P) + 1
          BY <3>1, <4>2, FS_AddElement
        <5>2. QED
          BY <5>1, <3>1
      <4>4. Cardinality(P) <= lostAcks
        BY <2>2, <3>2, <3>3 DEF CopiesInv
      <4>5. Cardinality(Q) \in Nat
        <5>1. Q = {i \in DOMAIN table' : table'[i] = e} /\ table' \in Seq(Event)
          BY <2>1
        <5>2. QED
          BY <5>1, CopiesFinite
      <4>6. QED
        BY <3>1, <3>2, <4>3, <4>4, <4>5, <2>3
    <3>4. CASE e \notin Elems(buffer)
      <4>1. Q = P
        <5>1. {i \in DOMAIN (table \o buffer) : (table \o buffer)[i] = e} = {i \in DOMAIN table : table[i] = e}
          <6>1. buffer \in Seq(Event) /\ table \in Seq(Event) /\ e \notin Elems(buffer)
            BY <2>1, <3>4
          <6>2. QED
            BY <6>1, PlacesSame
        <5>2. QED
          BY <2>1, <5>1
      <4>2. QED
        BY <3>2, <4>1 DEF CopiesInv
    <3>5. QED
      BY <3>3, <3>4
  <2>6. QED
    BY <2>1, <2>2, <2>5 DEF CopiesInv
<1>4. ASSUME NEW t \in Threads, AckLost(t)
      PROVE  CopiesInv'
  <2>1. lostAcks' = lostAcks + 1 /\ lostAcks \in Nat /\ UNCHANGED <<table, buffer>>
    BY <1>4, BoundAssumption DEF AckLost, LeaveBlock, Inv, TypeOK
  <2>2. ASSUME NEW e \in Event
        PROVE  Copies(e)' <= lostAcks' /\ Copies(e)' <= 1 + lostAcks'
    <3>1. table \in Seq(Event)
      BY DEF Inv, TypeOK
    <3>2. Cardinality({i \in DOMAIN table : table[i] = e}) \in Nat
      BY <3>1, CopiesFinite
    <3>3. Copies(e)' = Copies(e) /\ Copies(e) \in Nat
      BY <2>1, <3>2 DEF Copies
    <3>4. Copies(e) <= 1 + lostAcks
      BY DEF CopiesInv
    <3>5. QED
      BY <2>1, <3>3, <3>4
  <2>3. QED
    BY <2>2 DEF CopiesInv
<1>5. ASSUME NEW t \in Threads, Acknowledge(t)
      PROVE  CopiesInv'
  <2>1. pending[t] = buffer /\ UNCHANGED <<table, lostAcks>>
    BY <1>5 DEF DataInv, PendingMatchesBuffer, Acknowledge, LeaveBlock
  <2>2. buffer' = <<>>
    <3>1. buffer' = SubSeq(buffer, Len(buffer) + 1, Len(buffer))
      BY <1>5, <2>1 DEF Acknowledge, Trim
    <3>2. QED
      BY <3>1, DeleteAll DEF Inv, TypeOK
  <2>3. Elems(buffer') = {}
    BY <2>2 DEF Elems
  <2>4. QED
    BY <2>1, <2>3, FrameCopiesInv
<1>6. ASSUME NEW t \in Threads, FinishClose(t)
      PROVE  CopiesInv'
  <2>1. UNCHANGED <<table, lostAcks>> /\ buffer' = <<>>
    BY <1>6 DEF FinishClose, answers
  <2>2. Elems(buffer') = {}
    BY <2>1 DEF Elems
  <2>3. QED
    BY <2>1, <2>2, FrameCopiesInv
<1>7. CASE Crash \/ UNCHANGED vars
  <2>1. UNCHANGED <<table, buffer, lostAcks, pc>>
    BY <1>7 DEF Crash, vars, locals, data, answers
  <2>2. QED
    BY <2>1, FrameCopiesInv DEF Committing
<1>8. QED
  BY <1>1, <1>2, <1>3, <1>4, <1>5, <1>6, <1>7 DEF Next, Step, Stopped

\* An event is stored more often than once only if answers were lost, and at
\* most once more for each of them.
THEOREM CopiesNeedLostAck == Spec => []DuplicatesNeedLostAck
<1>1. Init => AllInv /\ CopiesInv
  BY InitInv, InitDataInv, InitOrderInv, InitCopiesInv DEF AllInv
<1>2. AllInv /\ CopiesInv /\ [Next]_vars => (AllInv /\ CopiesInv)'
  BY StepInv, StepDataInv, StepOrderInv, StepCopiesInv DEF AllInv
<1>3. AllInv /\ CopiesInv => DuplicatesNeedLostAck
  <2>1. TypeOK => Elems(table) \subseteq Event
    BY DEF TypeOK, Elems
  <2>2. QED
    BY <2>1 DEF AllInv, Inv, CopiesInv, DuplicatesNeedLostAck
<1>4. QED
  BY <1>1, <1>2, <1>3, PTL DEF Spec

-----------------------------------------------------------------------------
(* The refinement.                                                          *)

\* Every step of the sink is a step of the log, or leaves it alone.
LEMMA LogStep == Inv /\ DataInv /\ [Next]_vars => [Log!Next]_(Log!logVars)
<1> SUFFICES ASSUME Inv, DataInv, [Next]_vars
             PROVE  Log!Next \/ UNCHANGED <<table, Elems(buffer), alive /\ ~closed>>
  BY DEF Log!logVars
<1> USE DEF locals, frame, data, answers, Accepting, LeaveBlock
<1>1. ASSUME UNCHANGED <<table, buffer, alive, closed>>
      PROVE  UNCHANGED <<table, Elems(buffer), alive /\ ~closed>>
  BY <1>1
<1>2. ASSUME NEW t \in Threads, Call(t)
      PROVE  UNCHANGED <<table, buffer, alive, closed>>
  BY <1>2 DEF Call, CallEmit, CallFlush, CallClose, Enter
<1>3. ASSUME NEW t \in Threads, AppendRow(t)
      PROVE  Log!Next
  <2>1. row[t] \in Event /\ alive /\ ~closed
        /\ UNCHANGED <<table, alive, closed>>
    BY <1>3 DEF Inv, RowOK, AppendRow, Holds
  <2>2. Elems(buffer') = Elems(buffer) \cup {row[t]}
    BY <1>3, <2>1, ElemsAppend DEF Inv, TypeOK, AppendRow
  <2>3. Log!Accept
    BY <2>1, <2>2 DEF Log!Accept
  <2>4. QED
    BY <2>3 DEF Log!Next
<1>4. ASSUME NEW t \in Threads, Commit(t)
      PROVE  Log!Next
  <2>1. /\ table \in Seq(Event) /\ buffer \in Seq(Event)
        /\ table' = table \o buffer
        /\ UNCHANGED <<buffer, alive, closed>>
    BY <1>4 DEF Inv, TypeOK, DataInv, PendingMatchesBuffer, Commit
  <2>2. Len(table') = Len(table) + Len(buffer) /\ Len(table) \in Nat /\ Len(buffer) \in Nat
    BY <2>1
  <2>3. \A i \in 1..Len(table) : table'[i] = table[i]
    BY <2>1
  <2>4. ASSUME NEW i \in (Len(table) + 1)..Len(table')
        PROVE  table'[i] \in Elems(buffer)
    <3>1. i - Len(table) \in 1..Len(buffer) /\ table'[i] = buffer[i - Len(table)]
      BY <2>1, <2>2
    <3>2. QED
      BY <3>1, <2>1 DEF Elems
  <2>5. Log!Persist
    BY <2>1, <2>2, <2>3, <2>4 DEF Log!Persist
  <2>6. QED
    BY <2>5 DEF Log!Next
<1>5. ASSUME NEW t \in Threads, Acknowledge(t)
      PROVE  Log!Next
  <2>1. /\ pending[t] = buffer /\ Elems(buffer) \subseteq Elems(table)
        /\ UNCHANGED <<table, alive, closed>>
    BY <1>5 DEF DataInv, PendingMatchesBuffer, CommittedIsStored, Acknowledge
  <2>2. buffer' = <<>>
    <3>1. buffer' = SubSeq(buffer, Len(buffer) + 1, Len(buffer))
      BY <1>5, <2>1 DEF Acknowledge, Trim
    <3>2. QED
      BY <3>1, DeleteAll DEF Inv, TypeOK
  <2>3. Elems(buffer') = {}
    BY <2>2 DEF Elems
  <2>4. Elems(table) = Log!Written
    BY DEF Elems, Log!Written
  <2>5. Log!Acknowledge
    BY <2>1, <2>3, <2>4 DEF Log!Acknowledge
  <2>6. QED
    BY <2>5 DEF Log!Next
<1>6. ASSUME NEW t \in Threads, FinishClose(t)
      PROVE  Log!Next \/ UNCHANGED <<table, Elems(buffer), alive /\ ~closed>>
  <2>1. alive /\ buffer' = <<>> /\ closed' = TRUE /\ UNCHANGED <<table, alive>>
    BY <1>6 DEF FinishClose, Holds
  <2>2. Elems(buffer') = {}
    BY <2>1 DEF Elems
  <2>3. CASE ~closed
    BY <2>1, <2>2, <2>3 DEF Log!Next, Log!Close
  <2>4. CASE closed
    <3>1. closed' = closed /\ buffer' = buffer
      BY <2>1, <2>4 DEF Inv, TypeOK, DataInv, ClosedSinkIsEmpty
    <3>2. QED
      BY <3>1, <2>1, <1>1
  <2>5. QED
    BY <2>3, <2>4
<1>7. ASSUME NEW t \in Threads, Step(t)
      PROVE  Log!Next \/ UNCHANGED <<table, Elems(buffer), alive /\ ~closed>>
  <2>1. CASE AppendRow(t) \/ Commit(t) \/ Acknowledge(t) \/ FinishClose(t)
    BY <2>1, <1>3, <1>4, <1>5, <1>6
  <2>2. CASE ~(AppendRow(t) \/ Commit(t) \/ Acknowledge(t) \/ FinishClose(t))
    <3>1. UNCHANGED <<table, buffer, alive, closed>>
      BY <1>7, <2>2 DEF Step, Acquire, RefuseEmit, FlushBody, CloseBody, FlushFails, AckLost, Return
    <3>2. QED
      BY <3>1, <1>1
  <2>3. QED
    BY <2>1, <2>2
<1>8. CASE Crash
  <2>1. (alive /\ ~closed)' = FALSE /\ UNCHANGED <<table, buffer>>
    BY <1>8 DEF Crash
  <2>2. Log!Crash
    BY <2>1 DEF Log!Crash
  <2>3. QED
    BY <2>2 DEF Log!Next
<1>9. CASE UNCHANGED vars
  BY <1>9, <1>1 DEF vars
<1>10. QED
  BY <1>1, <1>2, <1>7, <1>8, <1>9 DEF Next, Stopped

\* The sink, with any number of threads, is an at-least-once log.
THEOREM Refinement == Spec => ImplementsLog
<1>1. Init => Log!Init
  BY DEF Init, Log!Init, Elems
<1>2. QED
  BY <1>1, LogStep, Invariance, PTL DEF Spec, ImplementsLog, Log!Spec

=============================================================================
