------------------------------- MODULE Layout --------------------------------
(***************************************************************************)
(* infra/superset/bootstrap_dashboards.py: dashboard_layout, the grid of   *)
(* the starter dashboard, for every set of charts it can be given: the     *)
(* curated rows when all their charts exist, with the charts they do not   *)
(* name in pairs below, else two columns.  A step is a turn of a loop.     *)
(***************************************************************************)
EXTENDS Integers, Sequences, FiniteSets

CONSTANTS Rows, \* DASHBOARD_ROWS: rows of [name, width]; a name is its rank
                \* in the alphabet
          Order \* all charts in the order of their definitions

Columns == 12

Chart == [name : Nat, width : Nat]

Charts == {Order[i] : i \in DOMAIN Order}
Curated == UNION {{Rows[r][i].name : i \in DOMAIN Rows[r]} : r \in DOMAIN Rows}

\* The places of a grid, and the columns that a row of it takes.
Places(rows) == UNION {{<<r, i>> : i \in DOMAIN rows[r]} : r \in DOMAIN rows}
NameAt(rows, p) == rows[p[1]][p[2]].name
Taken(row) == UNION {{<<i, column>> : column \in 1..row[i].width} : i \in DOMAIN row}

ASSUME OrderAssumption ==
  /\ \A i \in DOMAIN Order : Order[i] \in Nat
  /\ \A i, j \in DOMAIN Order : Order[i] = Order[j] => i = j

\* What DASHBOARD_ROWS, written down in the code, is.
ASSUME RowsAssumption ==
  /\ Rows \in Seq(Seq(Chart))
  /\ Curated \subseteq Charts
  /\ \A p, q \in Places(Rows) : NameAt(Rows, p) = NameAt(Rows, q) => p = q
  /\ \A r \in DOMAIN Rows : Rows[r] # <<>> /\ Cardinality(Taken(Rows[r])) <= Columns

VARIABLES chart_ids,  \* the charts that exist; their dict has them in Order
          todo,       \* those that are not placed
          phase,      \* which loop runs
          row_number, \* its local
          index,      \* its local
          grid        \* the layout: ROW-1.. with their charts and widths

vars == <<chart_ids, todo, phase, row_number, index, grid>>

Init ==
  /\ chart_ids \in SUBSET Charts
  /\ phase = IF Curated \subseteq chart_ids THEN "curated" ELSE "columns"
  /\ todo = chart_ids
  /\ row_number = 0
  /\ index = 0
  /\ grid = <<>>

\* Mutant: placed.add stands after the loop over a row's charts.
LastName(row) == {row[Len(row)].name}

\* placed, after a curated row.
NamesOf(row) == {row[i].name : i \in DOMAIN row}

\* The loop over DASHBOARD_ROWS: a row of the grid for each of them.
PlaceCurated ==
  /\ phase = "curated"
  /\ row_number < Len(Rows)
  /\ row_number' = row_number + 1
  /\ grid' = Append(grid, Rows[row_number'])
  /\ todo' = todo \ NamesOf(Rows[row_number'])
  /\ UNCHANGED <<chart_ids, phase, index>>

\* ... is over: on to the charts it does not name.
StartLeftover ==
  /\ phase = "curated"
  /\ row_number = Len(Rows)
  /\ phase' = "leftover"
  /\ UNCHANGED <<chart_ids, todo, row_number, index, grid>>

\* _add_row, for a row that is not there yet, and _add_chart.
AddChart(row, name) ==
  LET chart == [name |-> name, width |-> 6] IN
  /\ grid' = IF row > Len(grid) THEN Append(grid, <<chart>>)
                                ELSE [grid EXCEPT ![row] = Append(@, chart)]
  /\ todo' = todo \ {name}

\* Mutant: the new row begins at odd positions.
NewRowOdd(i) == i % 2 = 1

\* A new row at every other chart.
NewRow(i) == i % 2 = 0

\* sorted(set(chart_ids) - placed): the least name is next.
PlaceLeftover(name) ==
  /\ phase = "leftover"
  /\ \A other \in todo : name <= other
  /\ row_number' = IF NewRow(index) THEN row_number + 1 ELSE row_number
  /\ AddChart(row_number', name)
  /\ index' = index + 1
  /\ UNCHANGED <<chart_ids, phase>>

InOrder(name, other) ==
  \E i, j \in DOMAIN Order : i <= j /\ Order[i] = name /\ Order[j] = other

\* _two_column_layout: ROW-(index // 2 + 1), added when it is missing.
PlaceColumn(name) ==
  /\ phase = "columns"
  /\ \A other \in todo : InOrder(name, other)
  /\ row_number' = index \div 2 + 1
  /\ AddChart(row_number', name)
  /\ index' = index + 1
  /\ UNCHANGED <<chart_ids, phase>>

Finished == phase \in {"leftover", "columns"} /\ todo = {}

Done == Finished /\ UNCHANGED vars

Next ==
  \/ PlaceCurated
  \/ StartLeftover
  \/ \E name \in todo : PlaceLeftover(name) \/ PlaceColumn(name)
  \/ Done

Spec == Init /\ [][Next]_vars
-----------------------------------------------------------------------------
(* Properties.                                                              *)

\* The finished grid shows every chart of the dict exactly once, nothing else,
\* and no empty row: an incremental bootstrap loses no chart.
EveryChartOnce ==
  Finished =>
    /\ {NameAt(grid, p) : p \in Places(grid)} = chart_ids
    /\ \A p, q \in Places(grid) : NameAt(grid, p) = NameAt(grid, q) => p = q
    /\ \A r \in DOMAIN grid : grid[r] # <<>>

\* No row is ever wider than Superset's grid of twelve columns: the pairs
\* below never join the last curated row.
RowsFit == \A r \in DOMAIN grid : Cardinality(Taken(grid[r])) <= Columns
=============================================================================
