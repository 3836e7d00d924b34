----------------------------- MODULE DataProofs ------------------------------
(* Theorems about the two conversions of data: GelfFrame, for payloads of   *)
(* any length over any keys, and Layout, for any charts and curated rows.   *)
EXTENDS GelfFrame, Layout, SequenceTheorems, FiniteSetTheorems, TLAPS

-----------------------------------------------------------------------------
(* The frame.                                                               *)

Events ==
  [clock : {"utc", "zoned", "naive", "none"}, event_type : {"dotted", "other"},
   source : {"name", "blank"}, level : Levels \cup {"other"}, monotonic_ns : {0, -1},
   duration_ns : {-2, -1, 0}, message : {"text", ""}, json : BOOLEAN]

FrameType ==
  /\ event \in Events
  /\ Len(payload) \in Nat
  /\ DOMAIN payload = 1..Len(payload)
  /\ \A i \in DOMAIN payload : payload[i].none \in BOOLEAN
  /\ \A i, j \in DOMAIN payload : payload[i].key = payload[j].key => i = j
  /\ seen \in 0..Len(payload)
  /\ fate \in {"new", "framing", "sent", "dropped"}

-----------------------------------------------------------------------------
(* The frame after `seen` entries of the payload.                           *)

Going == {i \in Kept : i <= seen}

\* What GELF defines is settled before the loop begins.
PlainRight ==
  /\ plain.timestamp = "utc"
  /\ (plain.level < 6) <=> (event.level \in {"WARN", "ERROR"})
  /\ (plain.short_message = "message") <=> (event.message # "")

\* The names in the frame, none of them reserved.
NamesRight ==
  /\ "id" \notin DOMAIN extra
  /\ DOMAIN extra = Own \cup {Name(payload[i].key) : i \in Going}

\* A field of the event is its own, or that of a payload key of its name.
OwnRight ==
  \A f \in Own : \/ extra[f] = From("event", f)
                 \/ \E i \in Going : payload[i].key = f /\ extra[f] = From("payload", f)

\* An entry keeps its value, unless a later one of the pair took its field.
EntriesRight ==
  \A i \in Going :
    \/ extra[Name(payload[i].key)] = From("payload", payload[i].key)
    \/ \E j \in Going : j > i /\ {payload[i].key, payload[j].key} = {"id", "payload_id"}

FrameRight == PlainRight /\ NamesRight /\ OwnRight /\ EntriesRight

FrameInv ==
  /\ FrameType
  /\ fate \in {"framing", "sent"} => FrameRight
  /\ fate = "sent" => seen = Len(payload)

-----------------------------------------------------------------------------
(* Names and fields.                                                        *)

\* Two keys have one field only when they are `id` and `payload_id`.
LEMMA NameFacts ==
  ASSUME NEW a, NEW b
  PROVE  /\ Name(a) # "id"
         /\ Name(a) = Name(b) => a = b \/ {a, b} = {"id", "payload_id"}
         /\ Name(a) \in Own => Name(a) = a
BY DEF Name, Own

-----------------------------------------------------------------------------
(* The steps.                                                               *)

LEMMA FrameBegins == FrameInit => FrameType
<1> SUFFICES ASSUME FrameInit PROVE FrameType
  OBVIOUS
<1>1. PICK e \in Constructed :
        event \in {e} \cup UNION {{[e EXCEPT ![f] = v] : v \in Assigned[f]} : f \in DOMAIN Assigned}
  BY DEF FrameInit
<1>2. /\ e \in Events
      /\ DOMAIN Assigned = {"clock", "event_type", "source", "level", "monotonic_ns",
                            "duration_ns", "json"}
  BY DEF Constructed, Events, Levels, Assigned
<1>3. event \in Events
  <2>1. CASE event = e
    BY <1>2, <2>1
  <2>2. CASE event # e
    <3>1. PICK f \in DOMAIN Assigned : \E v \in Assigned[f] : event = [e EXCEPT ![f] = v]
      BY <1>1, <2>2
    <3>2. PICK v \in Assigned[f] : event = [e EXCEPT ![f] = v]
      BY <3>1
    <3>3. CASE f = "clock"
      BY <1>2, <3>2, <3>3 DEF Assigned, Events
    <3>4. CASE f = "event_type"
      BY <1>2, <3>2, <3>4 DEF Assigned, Events
    <3>5. CASE f = "source"
      BY <1>2, <3>2, <3>5 DEF Assigned, Events
    <3>6. CASE f = "level"
      BY <1>2, <3>2, <3>6 DEF Assigned, Events
    <3>7. CASE f = "monotonic_ns"
      BY <1>2, <3>2, <3>7 DEF Assigned, Events
    <3>8. CASE f = "duration_ns"
      BY <1>2, <3>2, <3>8 DEF Assigned, Events
    <3>9. CASE f = "json"
      BY <1>2, <3>2, <3>9 DEF Assigned, Events
    <3>10. QED
      BY <1>2, <3>1, <3>3, <3>4, <3>5, <3>6, <3>7, <3>8, <3>9
  <2>3. QED
    BY <2>1, <2>2
<1>4. PICK n \in 0..MaxEntries : payload \in [1..n -> [key : Keys, none : BOOLEAN]]
  BY DEF FrameInit, Payloads
<1>5. n \in Nat /\ DOMAIN payload = 1..n /\ Len(payload) = n
  <2>1. n \in Nat
    BY EntriesAssumption
  <2>2. payload \in Seq([key : Keys, none : BOOLEAN])
    BY <1>4, <2>1, SeqDef
  <2>3. QED
    BY <1>4, <2>1, <2>2
<1>6. \A i \in DOMAIN payload : payload[i].none \in BOOLEAN
  BY <1>4, <1>5
<1>7. \A i, j \in DOMAIN payload : payload[i].key = payload[j].key => i = j
  BY DEF FrameInit, Payloads
<1>8. seen \in 0..Len(payload) /\ fate = "new"
  BY <1>5 DEF FrameInit
<1>9. QED
  BY <1>3, <1>5, <1>6, <1>7, <1>8 DEF FrameType

\* A step that leaves the frame, and what it has taken of the payload.
LEMMA FrameStays ==
  ASSUME FrameRight, UNCHANGED <<event, payload, plain, extra>>, Going' = Going
  PROVE  FrameRight'
<1>1. PlainRight' /\ NamesRight'
  BY DEF FrameRight, PlainRight, NamesRight
<1>2. OwnRight' /\ EntriesRight'
  BY DEF FrameRight, OwnRight, EntriesRight
<1>3. QED
  BY <1>1, <1>2 DEF FrameRight

LEMMA OwnFieldsRight ==
  ASSUME FrameInv, OwnFields, seen = 0
  PROVE  FrameRight'
<1>1. /\ event \in Events /\ event.level \in Levels
      /\ event' = [event EXCEPT !.clock = "utc"]
      /\ payload' = payload /\ seen' = 0
  BY DEF FrameInv, FrameType, OwnFields, Valid
<1>2. event'.clock = "utc" /\ event'.level = event.level /\ event'.message = event.message
  BY <1>1 DEF Events
<1>3. PlainRight'
  <2>1. /\ plain'.timestamp = "utc"
        /\ plain'.level = GelfLevel(event.level)
        /\ plain'.short_message = IF event.message = "" THEN "event_type" ELSE "message"
    BY <1>2 DEF OwnFields
  <2>2. GelfLevel(event.level) < 6 <=> event.level \in {"WARN", "ERROR"}
    BY <1>1 DEF Levels, GelfLevel
  <2>3. QED
    BY <1>2, <2>1, <2>2 DEF PlainRight
<1>4. Going' = {}
  BY <1>1 DEF Going, Kept, FrameInv, FrameType
<1>5. DOMAIN extra' = Own /\ \A f \in Own : extra'[f] = From("event", f)
  BY DEF OwnFields
<1>6. NamesRight'
  BY <1>4, <1>5 DEF NamesRight, Own
<1>7. OwnRight'
  BY <1>5 DEF OwnRight
<1>8. EntriesRight'
  BY <1>4 DEF EntriesRight
<1>9. QED
  BY <1>3, <1>6, <1>7, <1>8 DEF FrameRight

LEMMA AddEntryRight ==
  ASSUME FrameInv, AddEntry
  PROVE  FrameRight'
<1> DEFINE n == seen + 1
           k == payload[n].key
<1>1. /\ FrameRight /\ payload' = payload /\ event' = event /\ plain' = plain
      /\ seen' = n /\ n \in DOMAIN payload /\ seen \in Nat
      /\ Len(payload) \in Nat /\ DOMAIN payload = 1..Len(payload)
  BY DEF FrameInv, FrameType, AddEntry
<1>2. PlainRight'
  BY <1>1 DEF FrameRight, PlainRight
<1>3. CASE payload[n].none
  <2>1. extra' = extra
    BY <1>1, <1>3 DEF AddEntry, Skipped
  <2>2. Going' = Going
    <3>1. \A i \in 1..Len(payload) : i <= n <=> i <= seen \/ i = n
      BY <1>1
    <3>2. QED
      BY <1>1, <1>3, <3>1 DEF Going, Kept
  <2>3. QED
    BY <1>1, <2>1, <2>2, FrameStays
<1>4. CASE ~payload[n].none
  <2>1. extra' = With(extra, Name(k), From("payload", k))
    BY <1>1, <1>4 DEF AddEntry, Skipped
  <2>2. Going' = Going \cup {n} /\ \A i \in Going : i < n /\ i \in DOMAIN payload
    <3>1. \A i \in 1..Len(payload) : i <= n <=> i <= seen \/ i = n
      BY <1>1
    <3>2. \A i \in 1..Len(payload) : i <= seen => i < n
      BY <1>1
    <3>3. QED
      BY <1>1, <1>4, <3>1, <3>2 DEF Going, Kept
  <2>3. \A i \in Going : payload[i].key # k
    <3>1. \A i, j \in DOMAIN payload : payload[i].key = payload[j].key => i = j
      BY DEF FrameInv, FrameType
    <3>2. \A i \in Going : i \in DOMAIN payload /\ i # n
      BY <1>1, <2>2
    <3> HIDE DEF n
    <3>3. QED
      BY <1>1, <3>1, <3>2
  <2>4. /\ DOMAIN extra' = DOMAIN extra \cup {Name(k)}
        /\ extra'[Name(k)] = From("payload", k)
        /\ \A f \in DOMAIN extra : f # Name(k) => extra'[f] = extra[f]
    <3> HIDE DEF n, k
    <3>1. QED
      BY <2>1 DEF With
  <2>5. payload'[n].key = k /\ \A i : payload'[i] = payload[i]
    BY <1>1
  <2> HIDE DEF n, k
  <2>6. NamesRight'
    <3>1. Name(k) # "id"
      BY NameFacts
    <3>2. {Name(payload[i].key) : i \in Going \cup {n}}
            = {Name(payload[i].key) : i \in Going} \cup {Name(k)}
      BY <1>1, <2>5
    <3>3. QED
      BY <1>1, <2>2, <2>4, <3>1, <3>2 DEF FrameRight, NamesRight
  <2>7. OwnRight'
    <3> SUFFICES ASSUME NEW f \in Own
                 PROVE  \/ extra'[f] = From("event", f)
                        \/ \E i \in Going \cup {n} :
                             payload[i].key = f /\ extra'[f] = From("payload", f)
      BY <1>1, <2>2 DEF OwnRight
    <3>1. CASE f = Name(k)
      BY <2>4, <2>5, <3>1, <1>1, NameFacts
    <3>2. CASE f # Name(k)
      <4>1. extra'[f] = extra[f]
        BY <1>1, <2>4, <3>2 DEF FrameRight, NamesRight
      <4>2. QED
        BY <1>1, <4>1 DEF FrameRight, OwnRight
    <3>3. QED
      BY <3>1, <3>2
  <2>8. EntriesRight'
    <3> SUFFICES ASSUME NEW i \in Going \cup {n}
                 PROVE  \/ extra'[Name(payload[i].key)] = From("payload", payload[i].key)
                        \/ \E j \in Going \cup {n} :
                             j > i /\ {payload[i].key, payload[j].key} = {"id", "payload_id"}
      BY <1>1, <2>2 DEF EntriesRight
    <3>1. payload[n].key = k
      BY <1>1, <2>5
    <3>2. CASE i = n
      BY <2>4, <3>1, <3>2
    <3>3. CASE i \in Going /\ Name(payload[i].key) = Name(k)
      <4>1. {payload[i].key, k} = {"id", "payload_id"}
        BY <2>3, <3>3, NameFacts
      <4>2. n > i
        <5>1. i < n /\ i \in 1..Len(payload) /\ n \in 1..Len(payload)
          BY <1>1, <2>2, <3>3
        <5>2. QED
          BY <5>1
      <4>3. QED
        BY <3>1, <4>1, <4>2
    <3>4. CASE i \in Going /\ Name(payload[i].key) # Name(k)
      <4>1. Name(payload[i].key) \in DOMAIN extra
        BY <1>1, <3>4 DEF FrameRight, NamesRight
      <4>2. extra'[Name(payload[i].key)] = extra[Name(payload[i].key)]
        BY <2>4, <3>4, <4>1
      <4>3. QED
        BY <1>1, <3>4, <4>2 DEF FrameRight, EntriesRight
    <3>5. QED
      BY <3>2, <3>3, <3>4
  <2>9. QED
    BY <1>2, <2>6, <2>7, <2>8 DEF FrameRight
<1>5. QED
  BY <1>3, <1>4

\* The loop has not begun while there is no frame.
NotBegun == fate = "new" => seen = 0

LEMMA StepFrame ==
  ASSUME FrameInv, NotBegun, [FrameStep]_frameVars
  PROVE  FrameInv' /\ NotBegun'
<1>1. CASE OwnFields
  <2>1. FrameRight'
    BY <1>1, OwnFieldsRight DEF NotBegun, OwnFields
  <2>2. event \in Events /\ event' = [event EXCEPT !.clock = "utc"]
    BY <1>1 DEF FrameInv, FrameType, OwnFields
  <2>3. event' \in Events
    BY <2>2 DEF Events
  <2>4. FrameType' /\ fate' = "framing"
    BY <1>1, <2>3 DEF FrameInv, FrameType, OwnFields
  <2>5. QED
    BY <2>1, <2>4 DEF FrameInv, NotBegun
<1>2. CASE Invalid
  BY <1>2 DEF FrameInv, NotBegun, FrameType, Invalid
<1>3. CASE AddEntry
  <2>1. FrameType' /\ fate' = "framing"
    BY <1>3 DEF FrameInv, FrameType, AddEntry
  <2>2. QED
    BY <1>3, <2>1, AddEntryRight DEF FrameInv, NotBegun
<1>4. CASE Ship
  <2>1. Going' = Going
    BY <1>4 DEF Ship, Going, Kept
  <2>2. FrameRight' /\ FrameType' /\ fate' = "sent" /\ seen' = Len(payload')
    BY <1>4, <2>1, FrameStays DEF FrameInv, FrameType, Ship
  <2>3. QED
    BY <2>2 DEF FrameInv, NotBegun
<1>5. CASE UNCHANGED frameVars
  <2>1. FrameType' /\ NotBegun' /\ (fate = "sent" => seen = Len(payload))'
    BY <1>5 DEF frameVars, FrameInv, NotBegun, FrameType
  <2>2. fate' \in {"framing", "sent"} => FrameRight'
    <3>1. Going' = Going
      BY <1>5 DEF frameVars, Going, Kept
    <3>2. QED
      BY <1>5, <3>1, FrameStays DEF frameVars, FrameInv
  <2>3. QED
    BY <2>1, <2>2 DEF FrameInv
<1>6. QED
  BY <1>1, <1>2, <1>3, <1>4, <1>5 DEF FrameStep

LEMMA FrameInvariant == FrameSpec => []FrameInv
<1>1. FrameInit => FrameInv /\ NotBegun
  BY FrameBegins DEF FrameInit, FrameInv, NotBegun
<1>2. FrameInv /\ NotBegun /\ [FrameStep]_frameVars => (FrameInv /\ NotBegun)'
  BY StepFrame
<1>3. QED
  BY <1>1, <1>2, PTL DEF FrameSpec

\* A frame that is sent has gone through the whole payload.
LEMMA AllGone ==
  ASSUME FrameInv, fate = "sent"
  PROVE  FrameRight /\ Going = Kept
BY DEF FrameInv, FrameType, Going, Kept

\* A frame that leaves tells the event's instant, its severity and its text,
\* and every field of it that the payload does not replace.
THEOREM FramesTellTheEvent == FrameSpec => []FrameTellsTheEvent
<1>1. FrameInv => FrameTellsTheEvent
  BY AllGone DEF FrameTellsTheEvent, FrameRight, PlainRight, OwnRight
<1>2. QED
  BY <1>1, FrameInvariant, PTL

\* A frame that leaves has every entry of the payload, however long, except
\* the earlier of `id` and `payload_id`, and no name that GELF reserves.
THEOREM FramesKeepThePayload == FrameSpec => []FrameKeepsThePayload
<1>1. FrameInv => FrameKeepsThePayload
  BY AllGone DEF FrameKeepsThePayload, FrameRight, NamesRight, EntriesRight
<1>2. QED
  BY <1>1, FrameInvariant, PTL

-----------------------------------------------------------------------------
(* The layout.                                                              *)

LayoutType ==
  /\ chart_ids \in SUBSET Charts
  /\ todo \in SUBSET chart_ids
  /\ phase \in {"curated", "leftover", "columns"}
  /\ row_number \in Nat
  /\ index \in Nat
  /\ grid \in Seq(Seq(Chart))

\* What is no longer to do is in the grid, in one place.
Shown ==
  /\ \A r \in DOMAIN grid : /\ grid[r] # <<>>
                            /\ \A i \in DOMAIN grid[r] : grid[r][i].name \in chart_ids \ todo
  /\ \A n \in chart_ids \ todo : \E r \in DOMAIN grid : \E i \in DOMAIN grid[r] : grid[r][i].name = n
  /\ \A r, s \in DOMAIN grid : \A i \in DOMAIN grid[r], j \in DOMAIN grid[s] :
       grid[r][i].name = grid[s][j].name => r = s /\ i = j

\* The last row has one chart, of half its width.
HalfFull == grid # <<>> /\ Len(grid[Len(grid)]) = 1 /\ grid[Len(grid)][1].width = 6

\* How the loops' counters go with the rows.
Numbered ==
  /\ phase = "curated" => /\ row_number = Len(grid) /\ row_number <= Len(Rows)
                          /\ \A r \in DOMAIN grid : grid[r] = Rows[r]
                          /\ Curated \subseteq chart_ids /\ index = 0
  /\ phase = "leftover" => row_number = Len(grid)
  /\ phase = "columns" => Len(grid) = (index + 1) \div 2
  /\ index % 2 = 1 => HalfFull

LayoutInv == LayoutType /\ Shown /\ Numbered /\ RowsFit

LEMMA Halves ==
  ASSUME NEW i \in Nat
  PROVE  /\ i % 2 = 0 \/ i % 2 = 1
         /\ i % 2 = 0 => /\ i \div 2 + 1 = (i + 1) \div 2 + 1
                         /\ (i + 1 + 1) \div 2 = (i + 1) \div 2 + 1
                         /\ (i + 1) % 2 = 1
         /\ i % 2 = 1 => /\ i \div 2 + 1 = (i + 1) \div 2
                         /\ (i + 1 + 1) \div 2 = (i + 1) \div 2
                         /\ (i + 1) % 2 = 0
OBVIOUS

LEMMA FromOne ==
  ASSUME NEW n \in Nat
  PROVE  IsFiniteSet(1..n) /\ Cardinality(1..n) = n
BY FS_Interval

\* One chart, or two, of width 6 fit.
LEMMA PairFits ==
  ASSUME NEW row \in Seq(Chart), Len(row) <= 2, \A i \in DOMAIN row : row[i].width = 6
  PROVE  Cardinality(Taken(row)) <= Columns
<1> DEFINE cells == (1..2) \X (1..6)
<1>1. Taken(row) \subseteq cells
  <2>1. DOMAIN row \subseteq 1..2
    OBVIOUS
  <2>2. QED
    BY <2>1 DEF Taken
<1>2. IsFiniteSet(1..2) /\ Cardinality(1..2) = 2 /\ IsFiniteSet(1..6) /\ Cardinality(1..6) = 6
  <2>1. IsFiniteSet(1..2) /\ Cardinality(1..2) = 2
    BY FromOne
  <2>2. IsFiniteSet(1..6) /\ Cardinality(1..6) = 6
    BY FromOne
  <2>3. QED
    BY <2>1, <2>2
<1>3. IsFiniteSet(cells) /\ Cardinality(cells) = 12
  BY <1>2, FS_Product
<1> HIDE DEF cells
<1>4. Cardinality(Taken(row)) <= Cardinality(cells)
  BY <1>1, <1>3, FS_Subset
<1>5. QED
  BY <1>3, <1>4 DEF Columns

\* A new row, of charts that were to be placed.
LEMMA RowAdded ==
  ASSUME LayoutInv, NEW new \in Seq(Chart), new # <<>>,
         \A i \in DOMAIN new : new[i].name \in todo,
         \A i, j \in DOMAIN new : new[i].name = new[j].name => i = j,
         Cardinality(Taken(new)) <= Columns,
         grid' = Append(grid, new), todo' = todo \ NamesOf(new), chart_ids' = chart_ids
  PROVE  /\ grid' \in Seq(Seq(Chart)) /\ Len(grid') = Len(grid) + 1 /\ grid'[Len(grid')] = new
         /\ \A r \in DOMAIN grid : grid'[r] = grid[r]
         /\ DOMAIN grid' = DOMAIN grid \cup {Len(grid')}
         /\ Shown' /\ RowsFit'
<1> DEFINE n == Len(grid) + 1
<1>1. /\ grid \in Seq(Seq(Chart)) /\ todo \subseteq chart_ids /\ Shown /\ RowsFit
      /\ n \in Nat /\ DOMAIN grid = 1..Len(grid) /\ Len(grid) \in Nat
  BY DEF LayoutInv, LayoutType
<1>2. /\ grid' \in Seq(Seq(Chart)) /\ Len(grid') = n /\ grid'[n] = new
      /\ \A r \in DOMAIN grid : grid'[r] = grid[r]
  BY <1>1
<1>3. DOMAIN grid' = DOMAIN grid \cup {n} /\ n \notin DOMAIN grid
  BY <1>1, <1>2
<1> HIDE DEF n
<1>4. \A r \in DOMAIN grid' : r = n \/ r \in DOMAIN grid
  BY <1>3
<1>5. RowsFit'
  BY <1>1, <1>2, <1>4 DEF RowsFit
<1>6. todo' \subseteq todo /\ \A i \in DOMAIN new : new[i].name \in chart_ids \ todo'
  BY <1>1 DEF NamesOf
<1>7. \A r \in DOMAIN grid' : /\ grid'[r] # <<>>
                              /\ \A i \in DOMAIN grid'[r] : grid'[r][i].name \in chart_ids \ todo'
  BY <1>1, <1>2, <1>4, <1>6 DEF Shown
<1>8. ASSUME NEW m \in chart_ids \ todo'
      PROVE  \E r \in DOMAIN grid' : \E i \in DOMAIN grid'[r] : grid'[r][i].name = m
  <2>1. CASE m \in todo
    <3>1. PICK i \in DOMAIN new : new[i].name = m
      BY <1>8, <2>1 DEF NamesOf
    <3>2. QED
      BY <1>2, <1>3, <3>1
  <2>2. CASE m \notin todo
    <3>1. PICK r \in DOMAIN grid : \E i \in DOMAIN grid[r] : grid[r][i].name = m
      BY <1>1, <1>8, <2>2 DEF Shown
    <3>2. QED
      BY <1>2, <1>3, <3>1
  <2>3. QED
    BY <2>1, <2>2
<1>9. ASSUME NEW r \in DOMAIN grid', NEW s \in DOMAIN grid',
             NEW i \in DOMAIN grid'[r], NEW j \in DOMAIN grid'[s],
             grid'[r][i].name = grid'[s][j].name
      PROVE  r = s /\ i = j
  <2>1. CASE r = n /\ s = n
    BY <1>2, <1>9, <2>1
  <2>2. CASE r = n /\ s # n
    <3>1. grid'[r][i].name \in todo
      BY <1>2, <2>2
    <3>2. grid'[s][j].name \notin todo
      BY <1>1, <1>2, <1>4, <2>2 DEF Shown
    <3>3. QED
      BY <1>9, <3>1, <3>2
  <2>3. CASE r # n /\ s = n
    <3>1. grid'[s][j].name \in todo
      BY <1>2, <2>3
    <3>2. grid'[r][i].name \notin todo
      BY <1>1, <1>2, <1>4, <2>3 DEF Shown
    <3>3. QED
      BY <1>9, <3>1, <3>2
  <2>4. CASE r # n /\ s # n
    <3>1. r \in DOMAIN grid /\ s \in DOMAIN grid /\ grid'[r] = grid[r] /\ grid'[s] = grid[s]
      BY <1>2, <1>4, <2>4
    <3>2. QED
      BY <1>1, <1>9, <3>1 DEF Shown
  <2>5. QED
    BY <2>1, <2>2, <2>3, <2>4
<1>10. Shown'
  BY <1>7, <1>8, <1>9 DEF Shown
<1>11. QED
  BY <1>2, <1>3, <1>5, <1>10 DEF n

LEMMA SecondChart ==
  ASSUME NEW row \in Seq(Chart), Len(row) = 1, NEW chart \in Chart
  PROVE  LET new == Append(row, chart)
         IN  /\ new \in Seq(Chart) /\ Len(new) = 2 /\ DOMAIN new = {1, 2} /\ DOMAIN row = {1}
             /\ new[1] = row[1] /\ new[2] = chart
<1> DEFINE new == Append(row, chart)
<1>1. new \in Seq(Chart) /\ Len(new) = 2
  <2>1. new \in Seq(Chart) /\ Len(new) = Len(row) + 1
    BY AppendProperties
  <2> HIDE DEF new
  <2>2. QED
    BY <2>1
<1>2. DOMAIN row = {1} /\ 1 \in 1..Len(row) /\ 2 = Len(row) + 1
  OBVIOUS
<1>3. new[1] = row[1] /\ new[2] = chart
  <2>1. (\A i \in 1..Len(row) : new[i] = row[i]) /\ new[Len(row) + 1] = chart
    BY AppendProperties
  <2> HIDE DEF new
  <2>2. QED
    BY <1>2, <2>1
<1>4. DOMAIN new = 1..2 /\ 1..2 = {1, 2}
  BY <1>1
<1>5. QED
  BY <1>1, <1>2, <1>3, <1>4

\* One more chart in the last row.
LEMMA RowFilled ==
  ASSUME LayoutInv, HalfFull, NEW chart \in Chart, chart.width = 6, chart.name \in todo,
         grid' = [grid EXCEPT ![Len(grid)] = Append(@, chart)],
         todo' = todo \ {chart.name}, chart_ids' = chart_ids
  PROVE  grid' \in Seq(Seq(Chart)) /\ Len(grid') = Len(grid) /\ Shown' /\ RowsFit'
<1> DEFINE n == Len(grid)
           new == Append(grid[n], chart)
<1>1. /\ grid \in Seq(Seq(Chart)) /\ todo \subseteq chart_ids /\ Shown /\ RowsFit
      /\ n \in Nat \ {0} /\ DOMAIN grid = 1..n /\ n \in DOMAIN grid
  BY DEF LayoutInv, LayoutType, HalfFull
<1>2. grid[n] \in Seq(Chart) /\ Len(grid[n]) = 1 /\ grid[n][1].width = 6
  BY <1>1 DEF HalfFull
<1>3. /\ new \in Seq(Chart) /\ Len(new) = 2 /\ DOMAIN new = {1, 2} /\ DOMAIN grid[n] = {1}
      /\ new[1] = grid[n][1] /\ new[2] = chart
  BY <1>2, SecondChart
<1>4. grid' = [grid EXCEPT ![n] = new]
  OBVIOUS
<1> HIDE DEF n, new
<1>5. /\ DOMAIN grid' = DOMAIN grid /\ grid'[n] = new
      /\ \A r \in DOMAIN grid : r # n => grid'[r] = grid[r]
  BY <1>1, <1>4
<1>6. grid' \in Seq(Seq(Chart)) /\ Len(grid') = n
  BY <1>1, <1>3, <1>4 DEF n
<1>7. Cardinality(Taken(new)) <= Columns
  <2>1. \A i \in {1, 2} : new[i].width = 6
    BY <1>2, <1>3
  <2>2. Len(new) <= 2 /\ \A i \in DOMAIN new : new[i].width = 6
    BY <1>3, <2>1
  <2>3. QED
    BY <1>3, <2>2, PairFits
<1>8. RowsFit'
  BY <1>1, <1>5, <1>7 DEF RowsFit
<1>9. \A r \in DOMAIN grid' : /\ grid'[r] # <<>>
                              /\ \A i \in DOMAIN grid'[r] : grid'[r][i].name \in chart_ids \ todo'
  <2> SUFFICES ASSUME NEW r \in DOMAIN grid'
               PROVE  /\ grid'[r] # <<>>
                      /\ \A i \in DOMAIN grid'[r] : grid'[r][i].name \in chart_ids \ todo'
    OBVIOUS
  <2>1. CASE r # n
    BY <1>1, <1>5, <2>1 DEF Shown
  <2>2. CASE r = n
    <3>1. grid[n][1].name \in chart_ids \ todo
      BY <1>1, <1>3 DEF Shown
    <3>2. new # <<>>
      <4>1. Len(new) # 0 /\ new \in Seq(Chart)
        BY <1>3
      <4>2. QED
        BY <4>1
    <3>3. \A i \in {1, 2} : new[i].name \in chart_ids \ todo'
      BY <1>1, <1>3, <3>1
    <3>4. QED
      BY <1>3, <1>5, <2>2, <3>2, <3>3
  <2>3. QED
    BY <2>1, <2>2
<1>10. ASSUME NEW m \in chart_ids \ todo'
       PROVE  \E r \in DOMAIN grid' : \E i \in DOMAIN grid'[r] : grid'[r][i].name = m
  <2>1. CASE m = chart.name
    <3>1. n \in DOMAIN grid' /\ 2 \in DOMAIN grid'[n] /\ grid'[n][2].name = m
      BY <1>1, <1>3, <1>5, <2>1
    <3>2. QED
      BY <3>1
  <2>2. CASE m # chart.name
    <3>1. PICK r \in DOMAIN grid : \E i \in DOMAIN grid[r] : grid[r][i].name = m
      BY <1>1, <1>10, <2>2 DEF Shown
    <3>2. PICK i \in DOMAIN grid[r] : grid[r][i].name = m
      BY <3>1
    <3>3. i \in DOMAIN grid'[r] /\ grid'[r][i] = grid[r][i]
      BY <1>3, <1>5, <3>1, <3>2
    <3>4. QED
      BY <1>5, <3>2, <3>3
  <2>3. QED
    BY <2>1, <2>2
<1>11. ASSUME NEW r \in DOMAIN grid', NEW s \in DOMAIN grid',
              NEW i \in DOMAIN grid'[r], NEW j \in DOMAIN grid'[s],
              grid'[r][i].name = grid'[s][j].name
       PROVE  r = s /\ i = j
  <2>1. \A q \in DOMAIN grid' : \A k \in DOMAIN grid'[q] :
          \/ q = n /\ k = 2 /\ grid'[q][k].name \in todo
          \/ q \in DOMAIN grid /\ k \in DOMAIN grid[q] /\ grid'[q][k] = grid[q][k]
             /\ grid[q][k].name \notin todo
    BY <1>1, <1>3, <1>5 DEF Shown
  <2>2. QED
    BY <1>1, <1>11, <2>1 DEF Shown
<1>12. Shown'
  BY <1>9, <1>10, <1>11 DEF Shown
<1>13. QED
  BY <1>6, <1>8, <1>12 DEF n

\* A turn of either loop that places one chart.
LEMMA ChartPlaced ==
  ASSUME LayoutInv, NEW name \in todo, NEW row, AddChart(row, name),
         row = IF index % 2 = 0 THEN Len(grid) + 1 ELSE Len(grid),
         chart_ids' = chart_ids, index' = index + 1
  PROVE  /\ grid' \in Seq(Seq(Chart)) /\ Len(grid') = row
         /\ Shown' /\ RowsFit' /\ (index' % 2 = 1 => HalfFull')
         /\ todo' \in SUBSET chart_ids'
<1> DEFINE chart == [name |-> name, width |-> 6]
<1>1. /\ grid \in Seq(Seq(Chart)) /\ index \in Nat /\ todo \subseteq chart_ids
      /\ chart_ids \subseteq Charts /\ Len(grid) \in Nat
  BY DEF LayoutInv, LayoutType
<1>2. name \in Nat
  BY <1>1, OrderAssumption DEF Charts
<1>3. chart \in Chart /\ chart.name = name /\ chart.width = 6
  BY <1>2 DEF Chart
<1>4. /\ todo' = todo \ {name}
      /\ grid' = IF row > Len(grid) THEN Append(grid, <<chart>>)
                                    ELSE [grid EXCEPT ![row] = Append(@, chart)]
  BY DEF AddChart
<1>5. todo' \in SUBSET chart_ids'
  BY <1>1, <1>4
<1>6. index % 2 = 0 \/ index % 2 = 1
  BY <1>1, Halves
<1> HIDE DEF chart
<1>7. CASE index % 2 = 0
  <2> DEFINE new == <<chart>>
  <2>1. /\ new \in Seq(Chart) /\ new # <<>> /\ Len(new) = 1 /\ DOMAIN new = {1} /\ new[1] = chart
    BY <1>3
  <2>2. grid' = Append(grid, new) /\ row = Len(grid) + 1
    BY <1>1, <1>4, <1>7
  <2> HIDE DEF new
  <2>3. /\ \A i \in DOMAIN new : new[i].name \in todo /\ new[i].width = 6
        /\ \A i, j \in DOMAIN new : new[i].name = new[j].name => i = j
        /\ NamesOf(new) = {name}
    BY <1>3, <2>1 DEF NamesOf
  <2>4. Cardinality(Taken(new)) <= Columns
    <3>1. Len(new) <= 2
      BY <2>1
    <3>2. QED
      BY <2>1, <2>3, <3>1, PairFits
  <2>5. todo' = todo \ NamesOf(new)
    BY <1>4, <2>3
  <2>6. /\ grid' \in Seq(Seq(Chart)) /\ Len(grid') = Len(grid) + 1 /\ grid'[Len(grid')] = new
        /\ Shown' /\ RowsFit'
    BY <2>1, <2>2, <2>3, <2>4, <2>5, RowAdded
  <2>7. HalfFull'
    <3>1. grid' # <<>>
      BY <1>1, <2>6
    <3>2. QED
      BY <1>3, <2>1, <2>6, <3>1 DEF HalfFull
  <2>8. QED
    BY <1>5, <2>2, <2>6, <2>7
<1>8. CASE index % 2 = 1
  <2>1. HalfFull
    BY <1>8 DEF LayoutInv, Numbered
  <2>2. row = Len(grid) /\ grid' = [grid EXCEPT ![Len(grid)] = Append(@, chart)]
    <3>1. row = Len(grid)
      BY <1>1, <1>8
    <3>2. Len(grid) \in Nat /\ ~ (row > Len(grid))
      BY <1>1, <3>1
    <3>3. grid' = [grid EXCEPT ![row] = Append(@, chart)]
      BY <1>4, <3>2, Zenon
    <3>4. QED
      BY <3>1, <3>3, Zenon
  <2>3. grid' \in Seq(Seq(Chart)) /\ Len(grid') = Len(grid) /\ Shown' /\ RowsFit'
    BY <1>3, <1>4, <2>1, <2>2, RowFilled
  <2>4. index' % 2 = 0
    BY <1>1, <1>8, Halves
  <2>5. QED
    BY <1>5, <2>2, <2>3, <2>4
<1>9. QED
  BY <1>6, <1>7, <1>8

\* A curated row's charts exist, are in no row yet, and in this one once.
LEMMA CuratedNew ==
  ASSUME LayoutInv, phase = "curated", row_number < Len(Rows)
  PROVE  LET new == Rows[row_number + 1]
         IN  /\ new \in Seq(Chart) /\ new # <<>> /\ Cardinality(Taken(new)) <= Columns
             /\ \A i \in DOMAIN new : new[i].name \in todo
             /\ \A i, j \in DOMAIN new : new[i].name = new[j].name => i = j
<1> DEFINE k == row_number + 1
           new == Rows[k]
<1>1. /\ row_number = Len(grid) /\ \A r \in DOMAIN grid : grid[r] = Rows[r]
      /\ Curated \subseteq chart_ids /\ Shown /\ grid \in Seq(Seq(Chart))
  BY DEF LayoutInv, LayoutType, Numbered
<1>2. /\ k \in DOMAIN Rows /\ DOMAIN grid = 1..row_number /\ DOMAIN Rows = 1..Len(Rows)
      /\ \A r \in DOMAIN grid : r \in DOMAIN Rows /\ r # k
  BY <1>1, RowsAssumption
<1> HIDE DEF k
<1>3. \A r, s \in DOMAIN Rows : \A i \in DOMAIN Rows[r], j \in DOMAIN Rows[s] :
        Rows[r][i].name = Rows[s][j].name => r = s /\ i = j
  <2> SUFFICES ASSUME NEW r \in DOMAIN Rows, NEW s \in DOMAIN Rows,
                      NEW i \in DOMAIN Rows[r], NEW j \in DOMAIN Rows[s],
                      Rows[r][i].name = Rows[s][j].name
               PROVE  r = s /\ i = j
    OBVIOUS
  <2>1. <<r, i>> \in Places(Rows) /\ <<s, j>> \in Places(Rows)
    BY DEF Places
  <2>2. NameAt(Rows, <<r, i>>) = NameAt(Rows, <<s, j>>)
    BY DEF NameAt
  <2>3. <<r, i>> = <<s, j>>
    BY <2>1, <2>2, RowsAssumption
  <2>4. QED
    BY <2>3
<1>4. new \in Seq(Chart) /\ new # <<>> /\ Cardinality(Taken(new)) <= Columns
  BY <1>2, RowsAssumption
<1>5. \A i, j \in DOMAIN new : new[i].name = new[j].name => i = j
  BY <1>2, <1>3
<1>6. ASSUME NEW i \in DOMAIN new PROVE new[i].name \in todo
  <2>1. new[i].name \in chart_ids
    BY <1>1, <1>2 DEF Curated
  <2>2. SUFFICES ASSUME new[i].name \notin todo PROVE FALSE
    OBVIOUS
  <2>3. PICK r \in DOMAIN grid : \E j \in DOMAIN grid[r] : grid[r][j].name = new[i].name
    BY <1>1, <2>1, <2>2 DEF Shown
  <2>4. PICK j \in DOMAIN grid[r] : grid[r][j].name = new[i].name
    BY <2>3
  <2>5. r = k
    BY <1>1, <1>2, <1>3, <2>4
  <2>6. QED
    BY <1>2, <2>5
<1>7. QED
  BY <1>4, <1>5, <1>6 DEF k

LEMMA LayoutBegins == Init => LayoutInv
<1> SUFFICES ASSUME Init PROVE LayoutInv
  OBVIOUS
<1>1. grid = <<>> /\ DOMAIN grid = {} /\ Len(grid) = 0 /\ grid \in Seq(Seq(Chart))
  BY DEF Init
<1>2. LayoutType
  BY <1>1 DEF Init, LayoutType
<1>3. Shown /\ RowsFit
  BY <1>1 DEF Init, Shown, RowsFit
<1>4. Numbered
  <2>1. (0 + 1) \div 2 = 0 /\ ~(0 % 2 = 1)
    OBVIOUS
  <2>2. Len(Rows) \in Nat
    BY RowsAssumption
  <2>3. QED
    BY <1>1, <2>1, <2>2 DEF Init, Numbered
<1>5. QED
  BY <1>2, <1>3, <1>4 DEF LayoutInv

LEMMA LayoutSteps ==
  ASSUME LayoutInv, [Next]_vars
  PROVE  LayoutInv'
<1>1. /\ LayoutType /\ Shown /\ Numbered /\ RowsFit /\ Len(grid) \in Nat /\ index \in Nat
  BY DEF LayoutInv, LayoutType
<1>2. CASE PlaceCurated
  <2> DEFINE new == Rows[row_number + 1]
  <2>1. /\ phase = "curated" /\ row_number < Len(Rows) /\ row_number' = row_number + 1
        /\ grid' = Append(grid, new) /\ todo' = todo \ NamesOf(new)
        /\ UNCHANGED <<chart_ids, phase, index>>
    BY <1>2 DEF PlaceCurated
  <2>2. /\ new \in Seq(Chart) /\ new # <<>> /\ Cardinality(Taken(new)) <= Columns
        /\ \A i \in DOMAIN new : new[i].name \in todo
        /\ \A i, j \in DOMAIN new : new[i].name = new[j].name => i = j
    BY <2>1, CuratedNew
  <2> HIDE DEF new
  <2>3. /\ grid' \in Seq(Seq(Chart)) /\ Len(grid') = Len(grid) + 1 /\ grid'[Len(grid')] = new
        /\ \A r \in DOMAIN grid : grid'[r] = grid[r]
        /\ DOMAIN grid' = DOMAIN grid \cup {Len(grid')}
        /\ Shown' /\ RowsFit'
    BY <2>1, <2>2, RowAdded
  <2>4. LayoutType'
    BY <1>1, <2>1, <2>3 DEF LayoutType
  <2>5. Numbered'
    <3>1. /\ row_number = Len(grid) /\ \A r \in DOMAIN grid : grid[r] = Rows[r]
          /\ Curated \subseteq chart_ids /\ index = 0 /\ Len(Rows) \in Nat
      BY <1>1, <2>1, RowsAssumption DEF Numbered
    <3>2. row_number' = Len(grid') /\ row_number' <= Len(Rows)
      BY <1>1, <2>1, <2>3, <3>1
    <3>3. \A r \in DOMAIN grid' : grid'[r] = Rows[r]
      BY <2>1, <2>3, <3>1, <3>2 DEF new
    <3>4. index' = 0 /\ ~(0 % 2 = 1) /\ phase' = "curated" /\ Curated \subseteq chart_ids'
      BY <2>1, <3>1
    <3>5. QED
      BY <3>2, <3>3, <3>4 DEF Numbered
  <2>6. QED
    BY <2>3, <2>4, <2>5 DEF LayoutInv
<1>3. CASE StartLeftover
  <2>1. phase = "curated" /\ phase' = "leftover" /\ UNCHANGED <<chart_ids, todo, row_number, index, grid>>
    BY <1>3 DEF StartLeftover
  <2>2. LayoutType'
    BY <1>1, <2>1 DEF LayoutType
  <2>3. Shown' /\ RowsFit'
    BY <1>1, <2>1 DEF Shown, RowsFit
  <2>4. Numbered'
    BY <1>1, <2>1 DEF Numbered, HalfFull
  <2>5. QED
    BY <2>2, <2>3, <2>4 DEF LayoutInv
<1>4. ASSUME NEW name \in todo, PlaceLeftover(name) PROVE LayoutInv'
  <2>1. /\ phase = "leftover" /\ AddChart(row_number', name) /\ index' = index + 1
        /\ row_number' = IF index % 2 = 0 THEN row_number + 1 ELSE row_number
        /\ UNCHANGED <<chart_ids, phase>>
    BY <1>4 DEF PlaceLeftover, NewRow
  <2>2. row_number = Len(grid)
    BY <1>1, <2>1 DEF Numbered
  <2>3. PICK row : row = row_number'
    OBVIOUS
  <2>4. row = IF index % 2 = 0 THEN Len(grid) + 1 ELSE Len(grid)
    BY <2>1, <2>2, <2>3
  <2>5. AddChart(row, name)
    BY <2>1, <2>3
  <2>6. /\ grid' \in Seq(Seq(Chart)) /\ Len(grid') = row
        /\ Shown' /\ RowsFit' /\ (index' % 2 = 1 => HalfFull')
        /\ todo' \in SUBSET chart_ids'
    BY <2>1, <2>4, <2>5, ChartPlaced
  <2>7. row \in Nat
    BY <1>1, <2>4
  <2>8. LayoutType'
    BY <1>1, <2>1, <2>3, <2>6, <2>7 DEF LayoutType
  <2>9. Numbered'
    BY <2>1, <2>3, <2>6 DEF Numbered
  <2>10. QED
    BY <2>6, <2>8, <2>9 DEF LayoutInv
<1>5. ASSUME NEW name \in todo, PlaceColumn(name) PROVE LayoutInv'
  <2>1. /\ phase = "columns" /\ AddChart(row_number', name) /\ index' = index + 1
        /\ row_number' = index \div 2 + 1
        /\ UNCHANGED <<chart_ids, phase>>
    BY <1>5 DEF PlaceColumn
  <2>2. Len(grid) = (index + 1) \div 2
    BY <1>1, <2>1 DEF Numbered
  <2>3. PICK row : row = row_number'
    OBVIOUS
  <2>4. row = IF index % 2 = 0 THEN Len(grid) + 1 ELSE Len(grid)
    BY <1>1, <2>1, <2>2, <2>3, Halves
  <2>5. AddChart(row, name)
    BY <2>1, <2>3
  <2>6. /\ grid' \in Seq(Seq(Chart)) /\ Len(grid') = row
        /\ Shown' /\ RowsFit' /\ (index' % 2 = 1 => HalfFull')
        /\ todo' \in SUBSET chart_ids'
    BY <2>1, <2>4, <2>5, ChartPlaced
  <2>7. row \in Nat
    BY <1>1, <2>4
  <2>8. LayoutType'
    BY <1>1, <2>1, <2>3, <2>6, <2>7 DEF LayoutType
  <2>9. Len(grid') = (index' + 1) \div 2
    BY <1>1, <2>1, <2>2, <2>4, <2>6, Halves
  <2>10. Numbered'
    BY <2>1, <2>6, <2>9 DEF Numbered
  <2>11. QED
    BY <2>6, <2>8, <2>10 DEF LayoutInv
<1>6. CASE UNCHANGED vars
  <2>1. UNCHANGED <<chart_ids, todo, phase, row_number, index, grid>>
    BY <1>6 DEF vars
  <2>2. LayoutType' /\ Shown'
    BY <1>1, <2>1 DEF LayoutType, Shown
  <2>3. Numbered' /\ RowsFit'
    BY <1>1, <2>1 DEF Numbered, HalfFull, RowsFit
  <2>4. QED
    BY <2>2, <2>3 DEF LayoutInv
<1>7. QED
  BY <1>2, <1>3, <1>4, <1>5, <1>6 DEF Next, Done

LEMMA LayoutInvariant == Spec => []LayoutInv
<1>1. Init => LayoutInv
  BY LayoutBegins
<1>2. LayoutInv /\ [Next]_vars => LayoutInv'
  BY LayoutSteps
<1>3. QED
  BY <1>1, <1>2, PTL DEF Spec

\* The finished grid has every chart of the dict once, and no empty row, for
\* every set of charts.
THEOREM ChartsAreShown == Spec => []EveryChartOnce
<1>1. LayoutInv => EveryChartOnce
  <2> SUFFICES ASSUME LayoutInv, todo = {}
               PROVE  /\ {NameAt(grid, p) : p \in Places(grid)} = chart_ids
                      /\ \A p, q \in Places(grid) : NameAt(grid, p) = NameAt(grid, q) => p = q
                      /\ \A r \in DOMAIN grid : grid[r] # <<>>
    BY DEF EveryChartOnce, Finished
  <2>1. Shown
    BY DEF LayoutInv
  <2>2. ASSUME NEW p \in Places(grid)
        PROVE  \E r \in DOMAIN grid : \E i \in DOMAIN grid[r] :
                 p = <<r, i>> /\ NameAt(grid, p) = grid[r][i].name
    <3>1. PICK r \in DOMAIN grid : p \in {<<r, i>> : i \in DOMAIN grid[r]}
      BY DEF Places
    <3>2. PICK i \in DOMAIN grid[r] : p = <<r, i>>
      BY <3>1
    <3>3. QED
      BY <3>2 DEF NameAt
  <2>3. \A p \in Places(grid) : NameAt(grid, p) \in chart_ids
    BY <2>1, <2>2 DEF Shown
  <2>4. ASSUME NEW n \in chart_ids PROVE \E p \in Places(grid) : NameAt(grid, p) = n
    <3>1. PICK r \in DOMAIN grid : \E i \in DOMAIN grid[r] : grid[r][i].name = n
      BY <2>1 DEF Shown
    <3>2. PICK i \in DOMAIN grid[r] : grid[r][i].name = n
      BY <3>1
    <3>3. <<r, i>> \in Places(grid) /\ NameAt(grid, <<r, i>>) = n
      BY <3>2 DEF Places, NameAt
    <3>4. QED
      BY <3>3
  <2>5. ASSUME NEW p \in Places(grid), NEW q \in Places(grid), NameAt(grid, p) = NameAt(grid, q)
        PROVE  p = q
    BY <2>1, <2>2, <2>5 DEF Shown
  <2>6. \A r \in DOMAIN grid : grid[r] # <<>>
    BY <2>1 DEF Shown
  <2>7. QED
    BY <2>3, <2>4, <2>5, <2>6
<1>2. QED
  BY <1>1, LayoutInvariant, PTL

\* No row is wider than the grid, when the curated rows are not.
THEOREM NoRowIsTooWide == Spec => []RowsFit
<1>1. LayoutInv => RowsFit
  BY DEF LayoutInv
<1>2. QED
  BY <1>1, LayoutInvariant, PTL
=============================================================================
