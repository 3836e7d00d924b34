-------------------------- MODULE JsonlSinkProofs ---------------------------
(* Theorems about JsonlSink, for any buffer size and any number of events,  *)
(* failures and runs.                                                       *)
EXTENDS JsonlSink, FiniteSetTheorems, TLAPS

TypeOK ==
  /\ phase \in {"idle", "writing", "ended"}
  /\ buffer \in Seq(Nat)
  /\ lines \in Seq(Nat)
  /\ torn \in BOOLEAN
  /\ emitted \in Nat
  /\ closing \in BOOLEAN
  /\ reported \in Nat
  /\ spoilt \in Nat
  /\ gone \in Nat

\* The buffer holds events that were emitted, in order, behind the file's.
Ordered ==
  /\ \A i \in 1..Len(buffer) : buffer[i] <= emitted
  /\ \A i, j \in 1..Len(buffer) : i < j => buffer[i] < buffer[j]
  /\ \A i \in 1..Len(lines) : lines[i] <= emitted
  /\ \A i \in 1..Len(lines), j \in 1..Len(buffer) : lines[i] < buffer[j]

\* Between calls, what is buffered after close was emitted after close.
ClosedIsLate == phase = "idle" /\ closing => Elems(buffer) \subseteq late

Inv == TypeOK /\ Ordered /\ ClosedIsLate /\ MemoryBounded /\ (phase = "ended" => buffer = <<>>)

\* A sequence has no more elements than places.
LEMMA ElemsBounded ==
  ASSUME NEW s \in Seq(Nat)
  PROVE  IsFiniteSet(Elems(s)) /\ Cardinality(Elems(s)) <= Len(s)
<1>1. Len(s) \in Nat /\ DOMAIN s = 1..Len(s)
  OBVIOUS
<1>2. IsFiniteSet(1..Len(s)) /\ Cardinality(1..Len(s)) = Len(s)
  BY <1>1, FS_Interval
<1>3. s \in Surjection(1..Len(s), Elems(s))
  BY <1>1 DEF Surjection, Elems
<1>4. QED
  BY <1>2, <1>3, FS_Surjection

\* A sequence with a part of another one behind it.
LEMMA AppendPart ==
  ASSUME NEW l \in Seq(Nat), NEW b \in Seq(Nat), NEW m \in 1..2, NEW n \in 0..Len(b)
  PROVE  LET r == l \o SubSeq(b, m, n)
             size == IF m <= n THEN n - m + 1 ELSE 0 IN
         /\ r \in Seq(Nat)
         /\ Len(r) = Len(l) + size
         /\ \A i \in 1..Len(l) : r[i] = l[i]
         /\ \A i \in 1..size : r[Len(l) + i] = b[i + m - 1]
<1> DEFINE part == SubSeq(b, m, n)
<1> DEFINE size == IF m <= n THEN n - m + 1 ELSE 0
<1>1. Len(l) \in Nat /\ Len(b) \in Nat /\ size \in Nat
  OBVIOUS
<1>2. \A i \in m..n : b[i] \in Nat
  <2>1. \A i \in m..n : i \in 1..Len(b)
    BY <1>1
  <2>2. QED
    BY <2>1
<1>3. Len(part) = size
  BY <1>1
<1>4. \A i \in 1..size : part[i] = b[i + m - 1]
  BY <1>1
<1>5. part \in Seq(Nat)
  BY <1>1, <1>2
<1> HIDE DEF part
<1>6. /\ l \o part \in Seq(Nat) /\ Len(l \o part) = Len(l) + Len(part)
      /\ \A i \in 1..Len(l) : (l \o part)[i] = l[i]
      /\ \A i \in 1..Len(part) : (l \o part)[Len(l) + i] = part[i]
  BY <1>1, <1>5
<1>7. QED
  BY <1>3, <1>4, <1>6 DEF part

\* What a write, whole or not, does to the file.
LEMMA ReachGrows ==
  ASSUME TypeOK, NEW whole \in 0..Len(buffer), NEW cut \in BOOLEAN, Reach(whole, cut)
  PROVE  /\ lines' \in Seq(Nat) /\ torn' \in BOOLEAN /\ spoilt' \in Nat
         /\ Len(lines') >= Len(lines)
         /\ \A i \in 1..Len(lines) : lines'[i] = lines[i]
         /\ \A i \in (Len(lines) + 1)..Len(lines') :
              LET k == i - Len(lines) + (IF torn THEN 1 ELSE 0) IN
              k \in 1..whole /\ lines'[i] = buffer[k]
         /\ \A k \in (IF torn THEN 2 ELSE 1)..whole : buffer[k] \in Elems(lines')
<1> DEFINE first == IF torn THEN 2 ELSE 1
<1> DEFINE size == IF first <= whole THEN whole - first + 1 ELSE 0
<1>1. /\ Len(buffer) \in Nat /\ Len(lines) \in Nat /\ whole \in Nat
      /\ first \in 1..2 /\ lines \in Seq(Nat) /\ buffer \in Seq(Nat) /\ size \in Nat
  BY DEF TypeOK
<1>2. lines' = lines \o SubSeq(buffer, first, whole)
  BY DEF Reach
<1>3. /\ lines' \in Seq(Nat)
      /\ Len(lines') = Len(lines) + size
      /\ \A i \in 1..Len(lines) : lines'[i] = lines[i]
      /\ \A i \in 1..size : lines'[Len(lines) + i] = buffer[i + first - 1]
  <2> HIDE DEF first
  <2>1. QED
    BY <1>1, <1>2, AppendPart
<1>4. torn' \in BOOLEAN /\ spoilt' \in Nat
  BY DEF Reach, TypeOK
<1>5. ASSUME NEW i \in (Len(lines) + 1)..Len(lines')
      PROVE  /\ i - Len(lines) + (IF torn THEN 1 ELSE 0) \in 1..whole
             /\ lines'[i] = buffer[i - Len(lines) + (IF torn THEN 1 ELSE 0)]
  <2>0. i - Len(lines) \in 1..size
    BY <1>1, <1>3
  <2>1. lines'[Len(lines) + (i - Len(lines))] = buffer[(i - Len(lines)) + first - 1]
    <3> HIDE DEF size, first
    <3>1. QED
      BY <2>0, <1>3
  <2>2. Len(lines) + (i - Len(lines)) = i
    BY <1>1
  <2>3. CASE torn
    BY <2>0, <2>1, <2>2, <2>3, <1>1
  <2>4. CASE ~torn
    BY <2>0, <2>1, <2>2, <2>4, <1>1
  <2>5. QED
    BY <2>3, <2>4
<1>6. ASSUME NEW k \in first..whole
      PROVE  buffer[k] \in Elems(lines')
  <2>1. k - first + 1 \in 1..size /\ (k - first + 1) + first - 1 = k
    BY <1>1
  <2>2. lines'[Len(lines) + (k - first + 1)] = buffer[k]
    BY <2>1, <1>3
  <2>3. Len(lines) + (k - first + 1) \in DOMAIN lines'
    BY <2>1, <1>1, <1>3
  <2>4. QED
    BY <2>2, <2>3 DEF Elems
<1>7. QED
  BY <1>1, <1>3, <1>4, <1>5, <1>6

LEMMA Initially == Init => Inv
<1> SUFFICES ASSUME Init PROVE Inv
  OBVIOUS
<1>1. TypeOK
  <2>1. torn = FALSE /\ closing = FALSE /\ phase = "idle" /\ buffer = <<>> /\ lines = <<>>
    BY DEF Init
  <2>2. emitted \in Nat /\ reported \in Nat /\ spoilt \in Nat /\ gone \in Nat
    BY DEF Init
  <2>3. <<>> \in Seq(Nat)
    OBVIOUS
  <2>4. torn \in BOOLEAN /\ closing \in BOOLEAN
    BY <2>1, Zenon
  <2>5. QED
    BY <2>1, <2>2, <2>3, <2>4, Zenon DEF TypeOK
<1>2. Ordered /\ MemoryBounded /\ phase # "ended"
  BY SizeAssumption DEF Init, Ordered, MemoryBounded
<1>3. ClosedIsLate
  BY DEF Init, ClosedIsLate
<1>4. QED
  BY <1>1, <1>2, <1>3 DEF Inv

\* The calls.
LEMMA EmitStep == ASSUME Inv, Emit PROVE Inv'
<1>1. /\ Len(buffer) \in Nat /\ Len(lines) \in Nat /\ buffer \in Seq(Nat) /\ lines \in Seq(Nat)
      /\ emitted \in Nat /\ emitted' = emitted + 1 /\ buffer' = Append(buffer, emitted')
      /\ UNCHANGED <<lines, torn, spoilt, closing, reported, gone>>
  BY DEF Inv, TypeOK, Emit, file
<1>2. /\ buffer' \in Seq(Nat) /\ Len(buffer') = Len(buffer) + 1
      /\ \A i \in 1..Len(buffer') : buffer'[i] = IF i <= Len(buffer) THEN buffer[i] ELSE emitted'
  BY <1>1
<1>3. TypeOK'
  BY <1>1, <1>2 DEF Inv, TypeOK, Emit
<1>4. Ordered'
  BY <1>1, <1>2 DEF Inv, Ordered
<1>5. MemoryBounded' /\ phase' # "ended"
  BY <1>1, <1>2, SizeAssumption DEF Inv, MemoryBounded, Emit
<1>6. ClosedIsLate'
  <2> SUFFICES ASSUME phase' = "idle", closing', NEW i \in 1..Len(buffer')
               PROVE  buffer'[i] \in late'
    BY <1>2 DEF ClosedIsLate, Elems
  <2>1. late' = late \cup {emitted'} /\ phase = "idle" /\ closing
    BY <1>1 DEF Emit
  <2>2. Elems(buffer) \subseteq late
    BY <2>1 DEF Inv, ClosedIsLate
  <2>3. CASE i <= Len(buffer)
    BY <2>1, <2>2, <2>3, <1>1, <1>2 DEF Elems
  <2>4. CASE ~(i <= Len(buffer))
    BY <2>1, <2>4, <1>2
  <2>5. QED
    BY <2>3, <2>4
<1>7. QED
  BY <1>3, <1>4, <1>5, <1>6 DEF Inv

LEMMA CallStep == ASSUME Inv, Flush \/ Close \/ Restart PROVE Inv'
<1>1. UNCHANGED <<buffer, lines, torn, spoilt, emitted, late, reported, gone>>
  BY DEF Flush, Close, Restart, file, history
<1>2. TypeOK' /\ phase' # "ended"
  BY <1>1 DEF Inv, TypeOK, Flush, Close, CloseFlushes, Flushes, Restart, history
<1>3. Ordered'
  BY <1>1 DEF Inv, Ordered
<1>4. MemoryBounded'
  BY <1>1, SizeAssumption DEF Inv, MemoryBounded, Flush, Close, Restart
<1>5. ClosedIsLate'
  <2>1. CASE buffer = <<>>
    BY <1>1, <2>1 DEF ClosedIsLate, Elems
  <2>2. CASE buffer # <<>>
    BY <1>1, <2>2 DEF Inv, ClosedIsLate, Flush, Close, CloseFlushes, Flushes, Restart, history
  <2>3. QED
    BY <2>1, <2>2
<1>6. QED
  BY <1>2, <1>3, <1>4, <1>5 DEF Inv

\* The steps that empty the buffer: a write that ends, a process that ends.
LEMMA EmptyStep ==
  ASSUME Inv, buffer' = <<>>, emitted' = emitted, closing' \in BOOLEAN,
         phase' \in {"idle", "ended"}, reported' \in Nat, gone' \in Nat,
         \/ UNCHANGED file
         \/ ReachSome
  PROVE  Inv'
<1>1. /\ lines' \in Seq(Nat) /\ torn' \in BOOLEAN /\ spoilt' \in Nat
      /\ \A i \in 1..Len(lines') : lines'[i] <= emitted
  <2>1. CASE UNCHANGED file
    BY <2>1 DEF file, Inv, TypeOK, Ordered
  <2>2. CASE ReachSome
    <3>1. PICK whole \in 0..Len(buffer), cut \in BOOLEAN : Reach(whole, cut)
      BY <2>2 DEF ReachSome
    <3>2. TypeOK /\ Len(lines) \in Nat /\ Len(buffer) \in Nat
      BY DEF Inv, TypeOK
    <3>3. ASSUME NEW i \in 1..Len(lines')
          PROVE  lines'[i] <= emitted
      <4>1. CASE i <= Len(lines)
        <5>1. i \in 1..Len(lines) /\ lines'[i] = lines[i]
          BY <4>1, <3>1, <3>2, ReachGrows
        <5>2. QED
          BY <5>1 DEF Inv, Ordered
      <4>2. CASE ~(i <= Len(lines))
        <5>1. i \in (Len(lines) + 1)..Len(lines')
          BY <4>2, <3>1, <3>2, ReachGrows
        <5>2. PICK k \in 1..whole : lines'[i] = buffer[k]
          BY <5>1, <3>1, <3>2, ReachGrows
        <5>3. k \in 1..Len(buffer)
          BY <3>2
        <5>4. QED
          BY <5>2, <5>3 DEF Inv, Ordered
      <4>3. QED
        BY <4>1, <4>2
    <3>4. QED
      BY <3>1, <3>2, <3>3, ReachGrows
  <2>3. QED
    BY <2>1, <2>2
<1>2. TypeOK' /\ Ordered'
  BY <1>1 DEF Inv, TypeOK, Ordered
<1>3. MemoryBounded' /\ ClosedIsLate'
  BY SizeAssumption DEF MemoryBounded, ClosedIsLate, Elems
<1>4. QED
  BY <1>2, <1>3 DEF Inv

\* The steps that end a write or the process are among those.
LEMMA EndFacts ==
  ASSUME Inv, WriteSucceeds \/ WriteFails \/ Dies \/ Exit
  PROVE  /\ UNCHANGED file \/ ReachSome
         /\ buffer' = <<>> /\ emitted' = emitted /\ closing' \in BOOLEAN
         /\ phase' \in {"idle", "ended"} /\ reported' \in Nat /\ gone' \in Nat
<1>1. Len(buffer) \in Nat /\ reported \in Nat /\ gone \in Nat /\ closing \in BOOLEAN
  BY DEF Inv, TypeOK
<1>2. CASE WriteSucceeds
  <2>1. Len(buffer) \in 0..Len(buffer)
    BY <1>1
  <2>2. ReachSome
    BY <2>1, <1>2, Zenon DEF ReachSome, WriteSucceeds
  <2>3. QED
    BY <1>1, <1>2, <2>2 DEF WriteSucceeds, Cleared, history
<1>3. CASE WriteFails
  BY <1>1, <1>3 DEF WriteFails, Cleared, Dropped
<1>4. CASE Dies \/ Exit
  BY <1>1, <1>4 DEF Dies, Exit, Ends
<1>5. QED
  BY <1>2, <1>3, <1>4

LEMMA NextStep == ASSUME Inv, [Next]_vars PROVE Inv'
<1>1. CASE Emit
  BY <1>1, EmitStep
<1>2. CASE Flush \/ Close \/ Restart
  BY <1>2, CallStep
<1>3. ASSUME WriteSucceeds \/ WriteFails \/ Dies \/ Exit
      PROVE  Inv'
  BY <1>3, EndFacts, EmptyStep
<1>4. CASE UNCHANGED vars
  BY <1>4 DEF vars, file, history, Inv, TypeOK, Ordered, ClosedIsLate, MemoryBounded, Elems
<1>5. QED
  BY <1>1, <1>2, <1>3, <1>4 DEF Next

LEMMA Invariance == Spec => []Inv
BY Initially, NextStep, PTL DEF Spec

\* However often the disk fails, the buffer stays within its size.
THEOREM MemoryIsBounded == Spec => []MemoryBounded
<1>1. Inv => MemoryBounded
  BY DEF Inv
<1>2. QED
  BY <1>1, Invariance, PTL

\* A run that closes its sink and exits leaves nothing behind in memory but
\* what was emitted after close.
THEOREM CloseSaves == Spec => ExitLosesOnlyLate
<1>1. Inv /\ [Next]_vars => [Exit => Elems(buffer) \subseteq late]_vars
  BY DEF Inv, ClosedIsLate, Exit
<1>2. QED
  BY <1>1, Invariance, PTL DEF Spec, ExitLosesOnlyLate

\* A step of the sink is a step of the log, or none.
LEMMA LogStep == ASSUME Inv, [Next]_vars PROVE [Log!Next]_(Log!logVars)
<1>1. CASE Emit
  <2>1. Log!Take
    BY <1>1 DEF Emit, Log!Take, file
  <2>2. QED
    BY <2>1 DEF Log!Next
<1>2. CASE Flush \/ Close \/ Restart \/ UNCHANGED vars
  BY <1>2 DEF Flush, Close, Restart, vars, file, Log!logVars
<1>3. ASSUME WriteSucceeds \/ WriteFails \/ Dies \/ Exit
      PROVE  [Log!Next]_(Log!logVars)
  <2>1. /\ TypeOK /\ Ordered
        /\ Len(buffer) \in Nat /\ Len(lines) \in Nat /\ buffer \in Seq(Nat)
    BY DEF Inv, TypeOK
  <2>2. buffer' = <<>> /\ emitted' = emitted
    BY <1>3, EndFacts
  <2>3. UNCHANGED file \/ ReachSome
    BY <1>3, EndFacts
  <2>4. CASE buffer = <<>>
    <3>1. lines' = lines
      <4>1. CASE UNCHANGED file
        BY <4>1 DEF file
      <4>2. CASE ReachSome
        <5>1. PICK whole \in 0..Len(buffer), cut \in BOOLEAN : Reach(whole, cut)
          BY <4>2 DEF ReachSome
        <5>2. lines' = lines \o SubSeq(buffer, IF torn THEN 2 ELSE 1, 0)
          BY <5>1, <2>4 DEF Reach
        <5>3. lines \in Seq(Nat) /\ torn \in BOOLEAN
          BY DEF Inv, TypeOK
        <5>4. SubSeq(buffer, IF torn THEN 2 ELSE 1, 0) = <<>>
          BY <2>4, <5>3
        <5>5. QED
          BY <5>2, <5>3, <5>4
      <4>3. QED
        BY <2>3, <4>1, <4>2
    <3>2. QED
      BY <3>1, <2>2, <2>4 DEF Log!logVars
  <2>5. CASE buffer # <<>>
    <3>1. Len(buffer) \in 1..Len(buffer) /\ buffer' = SubSeq(buffer, Len(buffer) + 1, Len(buffer))
      BY <2>1, <2>2, <2>5
    <3>2. /\ Len(lines') >= Len(lines) /\ Len(lines') \in Nat
          /\ \A i \in 1..Len(lines) : lines'[i] = lines[i]
          /\ \A i \in (Len(lines) + 1)..Len(lines') :
               /\ \E j \in 1..Len(buffer) : lines'[i] = buffer[j]
               /\ i > 1 => lines'[i - 1] < lines'[i]
      <4>1. CASE UNCHANGED file
        BY <4>1, <2>1 DEF file
      <4>2. CASE ReachSome
        <5>1. PICK whole \in 0..Len(buffer), cut \in BOOLEAN : Reach(whole, cut)
          BY <4>2 DEF ReachSome
        <5> DEFINE k(i) == i - Len(lines) + (IF torn THEN 1 ELSE 0)
        <5>2. /\ Len(lines') >= Len(lines) /\ Len(lines') \in Nat
              /\ \A i \in 1..Len(lines) : lines'[i] = lines[i]
              /\ \A i \in (Len(lines) + 1)..Len(lines') :
                   k(i) \in 1..Len(buffer) /\ lines'[i] = buffer[k(i)]
          BY <2>1, <5>1, ReachGrows
        <5>3. ASSUME NEW i \in (Len(lines) + 1)..Len(lines'), i > 1
              PROVE  lines'[i - 1] < lines'[i]
          <6>1. CASE i = Len(lines) + 1
            <7>1. i - 1 \in 1..Len(lines) /\ lines'[i - 1] = lines[i - 1]
              BY <2>1, <5>2, <5>3, <6>1
            <7>2. QED
              BY <2>1, <5>2, <7>1 DEF Ordered
          <6>2. CASE i # Len(lines) + 1
            <7>1. i - 1 \in (Len(lines) + 1)..Len(lines')
              BY <2>1, <5>2, <6>2
            <7>2. k(i - 1) < k(i)
              BY <2>1 DEF TypeOK
            <7> HIDE DEF k
            <7>3. QED
              BY <2>1, <5>2, <7>1, <7>2 DEF Ordered
          <6>3. QED
            BY <6>1, <6>2
        <5> HIDE DEF k
        <5>4. QED
          BY <5>2, <5>3
      <4>3. QED
        BY <2>3, <4>1, <4>2
    <3>3. Log!Leave(Len(buffer))
      BY <2>2, <3>1, <3>2 DEF Log!Leave
    <3>4. DOMAIN buffer = 1..Len(buffer)
      BY <2>1
    <3>5. QED
      BY <3>1, <3>3, <3>4 DEF Log!Next
  <2>6. QED
    BY <2>4, <2>5
<1>4. QED
  BY <1>1, <1>2, <1>3 DEF Next

\* The sink is an at-most-once log.
THEOREM LossyRefinement == Spec => ImplementsLossyLog
<1>1. Init => Log!Init
  BY DEF Init, Log!Init
<1>2. QED
  BY <1>1, LogStep, Invariance, PTL DEF Spec, ImplementsLossyLog, Log!Spec

-----------------------------------------------------------------------------
(* What is lost.                                                            *)

LEMMA LostFinite ==
  ASSUME TypeOK
  PROVE  IsFiniteSet(Lost) /\ Cardinality(Lost) \in Nat
<1>1. IsFiniteSet(1..emitted)
  BY FS_Interval DEF TypeOK
<1>2. Lost \in SUBSET (1..emitted)
  BY DEF Lost
<1>3. QED
  BY <1>1, <1>2, FS_Subset, FS_CardinalityType

\* Losing a set of events adds no more to the count than its size.
LEMMA LosingMore ==
  ASSUME NEW A, IsFiniteSet(A), NEW B, IsFiniteSet(B), NEW C, C \subseteq A \cup B
  PROVE  Cardinality(C) <= Cardinality(A) + Cardinality(B)
<1>1. /\ IsFiniteSet(A \cup B) /\ Cardinality(A) \in Nat /\ Cardinality(B) \in Nat
      /\ Cardinality(A \cup B) = Cardinality(A) + Cardinality(B) - Cardinality(A \cap B)
  BY FS_Union, FS_CardinalityType
<1>2. IsFiniteSet(A \cap B)
  <2>1. A \cap B \in SUBSET A
    OBVIOUS
  <2>2. QED
    BY <2>1, FS_Subset
<1>3. Cardinality(A \cap B) \in Nat
  BY <1>2, FS_CardinalityType
<1>4. C \in SUBSET (A \cup B)
  OBVIOUS
<1>5. IsFiniteSet(C) /\ Cardinality(C) <= Cardinality(A \cup B)
  BY <1>1, <1>4, FS_Subset
<1>6. Cardinality(C) \in Nat /\ Cardinality(A \cup B) \in Nat
  BY <1>1, <1>5, FS_CardinalityType
<1>7. QED
  BY <1>1, <1>3, <1>5, <1>6

\* After a write of any outcome, the lost events are those lost before and
\* those of the batch; after a whole write no more of it than its first line,
\* behind a torn one.
LEMMA LostInWrite ==
  ASSUME Inv, emitted' = emitted,
         NEW whole \in 0..Len(buffer), NEW cut \in BOOLEAN, Reach(whole, cut)
  PROVE  /\ Lost' \subseteq Lost \cup Elems(buffer)
         /\ whole = Len(buffer) =>
              Lost' \subseteq Lost \cup {e \in Elems(buffer) : torn /\ e = buffer[1]}
<1>1. /\ TypeOK /\ Len(buffer) \in Nat /\ DOMAIN buffer = 1..Len(buffer)
      /\ DOMAIN lines = 1..Len(lines) /\ Len(lines) \in Nat
  BY DEF Inv, TypeOK
<1>2. lines' \in Seq(Nat) /\ Len(lines') >= Len(lines) /\ \A i \in 1..Len(lines) : lines'[i] = lines[i]
  BY <1>1, ReachGrows
<1>3. Elems(lines) \subseteq Elems(lines')
  <2>1. DOMAIN lines' = 1..Len(lines') /\ Len(lines') \in Nat
    BY <1>2
  <2>2. QED
    BY <1>1, <1>2, <2>1 DEF Elems
<1>4. Lost' \subseteq Lost \cup Elems(buffer)
  BY <1>3 DEF Lost
<1>5. ASSUME whole = Len(buffer), NEW e \in Elems(buffer), ~(torn /\ e = buffer[1])
      PROVE  e \in Elems(lines')
  <2>1. PICK k \in 1..Len(buffer) : e = buffer[k]
    BY <1>1 DEF Elems
  <2>2. k \in (IF torn THEN 2 ELSE 1)..whole
    BY <1>1, <1>5, <2>1
  <2>3. QED
    BY <1>1, <2>1, <2>2, ReachGrows
<1>6. QED
  BY <1>4, <1>5 DEF Lost

LEMMA LossStep == ASSUME Inv, LossesAccounted, [Next]_vars PROVE LossesAccounted'
<1>1. /\ TypeOK /\ reported \in Nat /\ spoilt \in Nat /\ gone \in Nat /\ Len(buffer) \in Nat
      /\ IsFiniteSet(Lost) /\ Cardinality(Lost) \in Nat
      /\ IsFiniteSet(Elems(buffer)) /\ Cardinality(Elems(buffer)) \in Nat
      /\ Cardinality(Elems(buffer)) <= Len(buffer)
      /\ Cardinality(Lost) <= reported + spoilt + gone
  BY LostFinite, ElemsBounded, FS_CardinalityType DEF Inv, TypeOK, LossesAccounted
<1>2. TypeOK' /\ IsFiniteSet(Lost') /\ Cardinality(Lost') \in Nat
  <2>1. TypeOK'
    BY NextStep DEF Inv
  <2>2. IsFiniteSet(1..emitted') /\ Lost' \in SUBSET (1..emitted')
    BY <2>1, FS_Interval DEF TypeOK, Lost
  <2>3. QED
    BY <2>1, <2>2, FS_Subset, FS_CardinalityType
<1>3. CASE Emit
  <2>1. emitted' = emitted + 1 /\ buffer' = Append(buffer, emitted') /\ emitted \in Nat
        /\ UNCHANGED <<lines, reported, spoilt, gone>> /\ buffer \in Seq(Nat)
    BY <1>3 DEF Emit, file, Inv, TypeOK
  <2>2. Elems(buffer') = Elems(buffer) \cup {emitted'}
    <3>1. /\ DOMAIN buffer' = 1..(Len(buffer) + 1) /\ DOMAIN buffer = 1..Len(buffer)
          /\ \A i \in 1..(Len(buffer) + 1) :
               buffer'[i] = IF i <= Len(buffer) THEN buffer[i] ELSE emitted'
      BY <2>1
    <3>2. Len(buffer) + 1 \in DOMAIN buffer' /\ buffer'[Len(buffer) + 1] = emitted'
      BY <1>1, <3>1
    <3>3. QED
      BY <1>1, <3>1, <3>2 DEF Elems
  <2>3. Lost' \in SUBSET Lost
    BY <2>1, <2>2 DEF Lost, Elems
  <2>4. Cardinality(Lost') <= Cardinality(Lost)
    BY <1>1, <2>3, FS_Subset
  <2>5. QED
    BY <1>1, <1>2, <2>1, <2>4 DEF LossesAccounted
<1>4. CASE Flush \/ Close \/ Restart \/ UNCHANGED vars
  <2>1. UNCHANGED <<buffer, lines, emitted, reported, spoilt, gone>>
    BY <1>4 DEF Flush, Close, Restart, vars, file, history
  <2>2. QED
    BY <2>1 DEF LossesAccounted, Lost, Elems
<1>5. CASE WriteSucceeds
  <2>1. Reach(Len(buffer), FALSE) /\ emitted' = emitted /\ UNCHANGED <<reported, gone>>
    BY <1>5 DEF WriteSucceeds, history
  <2>2. Len(buffer) \in 0..Len(buffer)
    BY <1>1
  <2>3. Lost' \subseteq Lost \cup {e \in Elems(buffer) : torn /\ e = buffer[1]}
    BY <2>1, <2>2, LostInWrite
  <2>4. CASE torn /\ Len(buffer) > 0
    <3>1. spoilt' = spoilt + 1
      BY <2>1, <2>4 DEF Reach
    <3>2. Lost' \subseteq Lost \cup {buffer[1]}
      BY <2>3
    <3>3. IsFiniteSet({buffer[1]}) /\ Cardinality({buffer[1]}) = 1
      <4>1. IsFiniteSet({}) /\ Cardinality({}) = 0
        BY FS_EmptySet
      <4>2. /\ IsFiniteSet({} \cup {buffer[1]})
            /\ Cardinality({} \cup {buffer[1]}) =
                 IF buffer[1] \in {} THEN Cardinality({}) ELSE Cardinality({}) + 1
        BY <4>1, FS_AddElement
      <4>3. {} \cup {buffer[1]} = {buffer[1]} /\ buffer[1] \notin {}
        OBVIOUS
      <4>4. QED
        BY <4>1, <4>2, <4>3
    <3>4. Cardinality(Lost') <= Cardinality(Lost) + 1
      BY <1>1, <3>2, <3>3, LosingMore
    <3>5. QED
      BY <1>1, <1>2, <2>1, <3>1, <3>4 DEF LossesAccounted
  <2>5. CASE ~(torn /\ Len(buffer) > 0)
    <3>1. Lost' \in SUBSET Lost
      <4>1. Len(buffer) = 0 => Elems(buffer) = {}
        BY DEF Inv, TypeOK, Elems
      <4>2. QED
        BY <1>1, <2>3, <2>5, <4>1
    <3>2. spoilt' = spoilt
      BY <1>1, <2>1, <2>5 DEF Reach
    <3>3. Cardinality(Lost') <= Cardinality(Lost)
      BY <1>1, <3>1, FS_Subset
    <3>4. QED
      BY <1>1, <1>2, <2>1, <3>2, <3>3 DEF LossesAccounted
  <2>6. QED
    BY <2>4, <2>5
<1>6. CASE WriteFails \/ Dies \/ Exit
  <2>1. /\ reported' + gone' = reported + gone + Len(buffer)
        /\ reported' \in Nat /\ gone' \in Nat /\ emitted' = emitted
    <3>1. CASE WriteFails
      BY <1>1, <3>1 DEF WriteFails, Dropped
    <3>2. CASE Dies \/ Exit
      BY <1>1, <3>2 DEF Dies, Exit, Ends
    <3>3. QED
      BY <1>6, <3>1, <3>2
  <2>2. spoilt' >= spoilt /\ spoilt' \in Nat /\ Lost' \subseteq Lost \cup Elems(buffer)
    <3>1. UNCHANGED file \/ ReachSome
      BY <1>6, EndFacts
    <3>2. CASE UNCHANGED file
      BY <1>1, <2>1, <3>2 DEF file, Lost, Elems
    <3>3. CASE ReachSome
      <4>1. PICK whole \in 0..Len(buffer), cut \in BOOLEAN : Reach(whole, cut)
        BY <3>3 DEF ReachSome
      <4>2. Lost' \subseteq Lost \cup Elems(buffer)
        BY <2>1, <4>1, LostInWrite
      <4>3. QED
        BY <1>1, <4>1, <4>2 DEF Reach
    <3>4. QED
      BY <3>1, <3>2, <3>3
  <2>3. Cardinality(Lost') <= Cardinality(Lost) + Cardinality(Elems(buffer))
    BY <1>1, <2>2, LosingMore
  <2>4. Cardinality(Lost') <= reported' + spoilt' + gone'
    <3>1. ASSUME NEW l \in Nat, NEW b \in Nat, NEW r \in Nat, NEW r1 \in Nat, NEW s \in Nat,
                 NEW s1 \in Nat, NEW g \in Nat, NEW g1 \in Nat, NEW n \in Nat,
                 r1 + g1 = r + g + n, s1 >= s, l <= r + s + g, b <= n
          PROVE  l + b <= r1 + s1 + g1
      BY <3>1
    <3>2. Cardinality(Lost) + Cardinality(Elems(buffer)) <= reported' + spoilt' + gone'
      <4> DEFINE l == Cardinality(Lost)
                 b == Cardinality(Elems(buffer))
      <4>1. l \in Nat /\ b \in Nat /\ l <= reported + spoilt + gone /\ b <= Len(buffer)
        BY <1>1
      <4> HIDE DEF l, b
      <4>2. l + b <= reported' + spoilt' + gone'
        BY <1>1, <2>1, <2>2, <3>1, <4>1
      <4>3. QED
        BY <4>2 DEF l, b
    <3>3. /\ Cardinality(Lost') \in Nat
          /\ Cardinality(Lost) + Cardinality(Elems(buffer)) \in Nat
          /\ reported' + spoilt' + gone' \in Nat
      <4>1. Cardinality(Lost') \in Nat
        BY <1>2
      <4>2. ASSUME NEW a \in Nat, NEW b \in Nat PROVE a + b \in Nat
        OBVIOUS
      <4>3. Cardinality(Lost) \in Nat /\ Cardinality(Elems(buffer)) \in Nat
        BY <1>1
      <4>4. reported' \in Nat /\ spoilt' \in Nat /\ gone' \in Nat
        BY <2>1, <2>2
      <4>5. Cardinality(Lost) + Cardinality(Elems(buffer)) \in Nat
        BY <4>2, <4>3
      <4>6. reported' + spoilt' + gone' \in Nat
        BY <4>2, <4>4
      <4>7. QED
        BY <4>1, <4>5, <4>6
    <3>4. ASSUME NEW a \in Nat, NEW b \in Nat, NEW c \in Nat, a <= b, b <= c PROVE a <= c
      BY <3>4
    <3>5. QED
      BY <2>3, <3>2, <3>3, <3>4
  <2>5. QED
    BY <2>4 DEF LossesAccounted
<1>7. QED
  BY <1>3, <1>4, <1>5, <1>6 DEF Next

\* Every lost event is reported, or spoilt by a torn line, or was in the
\* memory of a process that ended.
THEOREM LossesAreAccounted == Spec => []LossesAccounted
<1>1. Init => LossesAccounted
  <2> SUFFICES ASSUME Init PROVE LossesAccounted
    OBVIOUS
  <2>1. Lost = {}
    <3>1. 1..emitted = {}
      BY DEF Init
    <3>2. QED
      BY <3>1 DEF Lost
  <2>2. QED
    BY <2>1, FS_EmptySet DEF Init, LossesAccounted
<1>2. QED
  BY <1>1, LossStep, Invariance, PTL DEF Spec
=============================================================================
