-------------------------- MODULE BootstrapProofs ---------------------------
(* Theorems about Bootstrap, for any number of jobs, overlapping or not, any *)
(* datasets and charts and any number of releases and starts.               *)
EXTENDS Bootstrap, SequenceTheorems, FiniteSetTheorems, TLAPS

Kinds == {"database", "dataset", "chart", "dashboard"}
Labels == {"database", "dashboard"} \cup {Datasets[i] : i \in DOMAIN Datasets}
                                     \cup {Charts[i] : i \in DOMAIN Charts}
Object == [kind : Kinds, name : Labels]
Names == {Plan[i].name : i \in DOMAIN Plan}
Row == [kind : Kinds, name : Labels, release : Nat, columns : Nat, slices : SUBSET (Nat \cup {None})]
Phases == {"down", "ddl", "query", "commit", "refresh"}

TypeOK ==
  /\ rows \in Seq(Row)
  /\ phase \in [Jobs -> Phases]
  /\ at \in [Jobs -> 1..Len(Plan)]
  /\ found \in [Jobs -> Nat \cup {None}]
  /\ ids \in [Jobs -> [Names -> Nat \cup {None}]]
  /\ release \in [Jobs -> Nat]
  /\ serial \in BOOLEAN
  /\ \A j \in Jobs : phase[j] = "refresh" => at[j] < Len(Plan)

\* Row id of these rows is the object.
IsRow(r, id, kind, name) == id \in 1..Len(r) /\ r[id].kind = kind /\ r[id].name = name

\* What a query found is still what it was when the commit comes.
FoundMatches ==
  \A j \in Jobs : phase[j] = "commit" /\ found[j] # None =>
    IsRow(rows, found[j], Plan[at[j]].kind, Plan[at[j]].name)

\* The ids a job has collected are those of the objects behind it.
Behind(j, i) == phase[j] # "down" /\ (i < at[j] \/ (phase[j] = "refresh" /\ i = at[j]))

Collected ==
  \A j \in Jobs, i \in 1..Len(Plan) :
    Behind(j, i) => IsRow(rows, ids[j][Plan[i].name], Plan[i].kind, Plan[i].name)

\* One row for every chart's name.
Complete(r, S) ==
  \E f \in [ChartNames -> 1..Len(r)] :
    S = {f[n] : n \in ChartNames} /\ \A n \in ChartNames : IsRow(r, f[n], "chart", n)

SlicesComplete ==
  \A d \in 1..Len(rows) : IF rows[d].kind = "dashboard" THEN Complete(rows, rows[d].slices)
                                                        ELSE rows[d].slices = {}

Inv == TypeOK /\ FoundMatches /\ Collected /\ SlicesComplete

-----------------------------------------------------------------------------
(* What holds while jobs do not overlap.                                    *)

Alone == \A j, k \in Jobs : phase[j] # "down" /\ phase[k] # "down" => j = k

Distinct ==
  \A i, k \in 1..Len(rows) : rows[i].kind = rows[k].kind /\ rows[i].name = rows[k].name => i = k

\* What a query did not find is still not there when the insert comes.
MissingIsMissing ==
  \A j \in Jobs : phase[j] = "commit" /\ found[j] = None =>
    \A i \in 1..Len(rows) : ~IsRow(rows, i, Plan[at[j]].kind, Plan[at[j]].name)

SerialInv == serial => Alone /\ Distinct /\ MissingIsMissing

-----------------------------------------------------------------------------
(* The plan.                                                                *)

\* A stretch of a plan in which there is no dashboard.
Plain(s) == s \in Seq(Object) /\ \A i \in 1..Len(s) : s[i].kind # "dashboard"

LEMMA ObjectsPlain ==
  ASSUME NEW kind \in Kinds \ {"dashboard"}, NEW names \in {Datasets, Charts}
  PROVE  /\ Plain(Objects(kind, names))
         /\ \A i \in 1..Len(Objects(kind, names)) : Objects(kind, names)[i].kind = kind
<1>1. Len(names) \in Nat /\ DOMAIN names = 1..Len(names) /\ \A i \in 1..Len(names) : names[i] \in Labels
  <2>1. names \in Seq({names[i] : i \in DOMAIN names})
    BY NamesAssumption
  <2>2. Len(names) \in Nat /\ DOMAIN names = 1..Len(names)
    BY <2>1
  <2>3. QED
    BY <2>2 DEF Labels
<1> DEFINE s == [i \in 1..Len(names) |-> [kind |-> kind, name |-> names[i]]]
<1>2. Objects(kind, names) = s
  BY <1>1 DEF Objects
<1>3. s \in [1..Len(names) -> Object] /\ \A i \in 1..Len(names) : s[i].kind = kind
  BY <1>1 DEF Object
<1> HIDE DEF s
<1>4. s \in Seq(Object)
  BY <1>1, <1>3
<1>5. Len(s) = Len(names)
  BY <1>1, <1>3
<1>6. QED
  BY <1>2, <1>3, <1>4, <1>5 DEF Plain

LEMMA ConcatPlain ==
  ASSUME NEW s, NEW t, Plain(s), Plain(t)
  PROVE  Plain(s \o t)
<1>1. s \in Seq(Object) /\ t \in Seq(Object) /\ Len(s) \in Nat /\ Len(t) \in Nat
  BY DEF Plain
<1>2. /\ s \o t \in Seq(Object) /\ Len(s \o t) = Len(s) + Len(t)
      /\ \A i \in 1..Len(s) + Len(t) : (s \o t)[i] = IF i <= Len(s) THEN s[i] ELSE t[i - Len(s)]
  BY <1>1, ConcatProperties
<1>3. ASSUME NEW i \in 1..Len(s) + Len(t) PROVE (s \o t)[i].kind # "dashboard"
  <2>1. CASE i <= Len(s)
    BY <1>1, <1>2, <2>1 DEF Plain
  <2>2. CASE ~(i <= Len(s))
    <3>1. i - Len(s) \in 1..Len(t)
      BY <1>1, <2>2
    <3>2. QED
      BY <1>2, <2>2, <3>1 DEF Plain
  <2>3. QED
    BY <2>1, <2>2
<1>4. QED
  BY <1>2, <1>3 DEF Plain

LEMMA PlanFacts ==
  /\ Plan \in Seq(Object)
  /\ Len(Plan) \in Nat \ {0}
  /\ DOMAIN Plan = 1..Len(Plan)
  /\ \A i \in 1..Len(Plan) : Plan[i].kind = "dashboard" <=> i = Len(Plan)
<1> DEFINE most == (Database \o Objects("dataset", Datasets)) \o Objects("chart", Charts)
<1> DEFINE o == [kind |-> "dashboard", name |-> "dashboard"]
<1>1. Plain(Database)
  BY DEF Database, Plain, Object, Kinds, Labels
<1>2. Plain(Objects("dataset", Datasets)) /\ Plain(Objects("chart", Charts))
  BY ObjectsPlain DEF Kinds
<1>3. Plain(most)
  BY <1>1, <1>2, ConcatPlain
<1>4. o \in Object /\ o.kind = "dashboard"
  BY DEF Object, Kinds, Labels
<1>5. Plan = most \o <<o>>
  BY DEF Plan, Dashboard
<1> HIDE DEF most, o
<1>6. <<o>> \in Seq(Object) /\ Len(<<o>>) = 1 /\ <<o>>[1] = o
  BY <1>4
<1>7. most \in Seq(Object) /\ Len(most) \in Nat /\ \A i \in 1..Len(most) : most[i].kind # "dashboard"
  BY <1>3 DEF Plain
<1>8. /\ Plan \in Seq(Object) /\ Len(Plan) = Len(most) + 1
      /\ \A i \in 1..Len(most) + 1 : Plan[i] = IF i <= Len(most) THEN most[i] ELSE <<o>>[i - Len(most)]
  BY <1>5, <1>6, <1>7, ConcatProperties
<1>9. DOMAIN Plan = 1..Len(Plan) /\ Len(Plan) \in Nat \ {0}
  BY <1>7, <1>8
<1>10. ASSUME NEW i \in 1..Len(Plan) PROVE Plan[i].kind = "dashboard" <=> i = Len(Plan)
  <2>1. CASE i <= Len(most)
    <3>1. i \in 1..Len(most) /\ i # Len(Plan)
      BY <1>7, <1>8, <2>1
    <3>2. QED
      BY <1>7, <1>8, <2>1, <3>1
  <2>2. CASE ~(i <= Len(most))
    <3>1. i = Len(Plan) /\ i - Len(most) = 1
      BY <1>7, <1>8, <2>2
    <3>2. QED
      BY <1>4, <1>6, <1>8, <2>2, <3>1
  <2>3. QED
    BY <2>1, <2>2
<1>11. QED
  BY <1>8, <1>9, <1>10

LEMMA PlanObjects ==
  /\ \A i \in 1..Len(Plan) :
       /\ Plan[i].kind \in Kinds /\ Plan[i].name \in Labels /\ Plan[i].name \in Names
       /\ \A k \in 1..Len(Plan) : Plan[i].name = Plan[k].name => i = k
  /\ \A n \in ChartNames : \E i \in 1..Len(Plan) : Plan[i].kind = "chart" /\ Plan[i].name = n
  /\ ChartNames \subseteq Names
  /\ IsFiniteSet(ChartNames)
<1>1. Plan \in Seq(Object) /\ Len(Plan) \in Nat /\ DOMAIN Plan = 1..Len(Plan)
  BY PlanFacts
<1>2. \A i \in 1..Len(Plan) : Plan[i] \in Object
  BY <1>1
<1>3. \A i \in 1..Len(Plan) : Plan[i].kind \in Kinds /\ Plan[i].name \in Labels
  BY <1>2 DEF Object
<1> DEFINE C == {k \in 1..Len(Plan) : Plan[k].kind = "chart"}
<1>4. ChartNames = {Plan[i].name : i \in C}
  BY <1>1 DEF ChartNames, Of
<1>5. IsFiniteSet(C)
  <2>1. IsFiniteSet(1..Len(Plan))
    BY <1>1, FS_Interval
  <2>2. QED
    BY <2>1, FS_Subset
<1>6. IsFiniteSet(ChartNames)
  <2> DEFINE f == [k \in C |-> Plan[k].name]
  <2>1. f \in Surjection(C, ChartNames)
    BY <1>4 DEF Surjection
  <2>2. QED
    BY <1>5, <2>1, FS_Surjection
<1>7. ChartNames \subseteq Names /\ \A i \in 1..Len(Plan) : Plan[i].name \in Names
  BY <1>1, <1>4 DEF Names
<1>8. QED
  BY <1>1, <1>3, <1>4, <1>6, <1>7, PlanAssumption
-----------------------------------------------------------------------------
(* Commits.                                                                 *)

\* Rows keep their kind and name, so what referred to them still does.
LEMMA Kept ==
  ASSUME NEW r, NEW q, Len(r) \in Nat, Len(q) \in Nat, Len(r) <= Len(q),
         \A i \in 1..Len(r) : q[i].kind = r[i].kind /\ q[i].name = r[i].name
  PROVE  /\ \A id, kind, name : IsRow(r, id, kind, name) => IsRow(q, id, kind, name)
         /\ \A S : Complete(r, S) => Complete(q, S)
<1>1. \A id, kind, name : IsRow(r, id, kind, name) => IsRow(q, id, kind, name)
  BY DEF IsRow
<1>2. ASSUME NEW S, Complete(r, S) PROVE Complete(q, S)
  <2>1. PICK f \in [ChartNames -> 1..Len(r)] :
           S = {f[n] : n \in ChartNames} /\ \A n \in ChartNames : IsRow(r, f[n], "chart", n)
    BY <1>2 DEF Complete
  <2>2. f \in [ChartNames -> 1..Len(q)] /\ \A n \in ChartNames : IsRow(q, f[n], "chart", n)
    BY <1>1, <2>1 DEF IsRow
  <2>3. QED
    BY <2>1, <2>2 DEF Complete
<1>3. QED
  BY <1>1, <1>2

LEMMA RowsFacts ==
  ASSUME TypeOK
  PROVE  Len(rows) \in Nat /\ DOMAIN rows = 1..Len(rows) /\ \A i \in 1..Len(rows) : rows[i] \in Row
BY DEF TypeOK

LEMMA AtFacts ==
  ASSUME TypeOK, NEW j \in Jobs
  PROVE  at[j] \in 1..Len(Plan) /\ at[j] \in Nat /\ Plan[at[j]].kind \in Kinds
         /\ Plan[at[j]].name \in Labels /\ Plan[at[j]].name \in Names
<1>1. at[j] \in 1..Len(Plan) /\ Len(Plan) \in Nat
  BY PlanFacts DEF TypeOK
<1>2. at[j] \in Nat
  BY <1>1
<1>3. Plan[at[j]].kind \in Kinds /\ Plan[at[j]].name \in Labels /\ Plan[at[j]].name \in Names
  BY <1>1, PlanObjects
<1>4. QED
  BY <1>1, <1>2, <1>3

\* The row a job writes: a dashboard's has one slice for every chart's name.
LEMMA WrittenFacts ==
  ASSUME Inv, NEW j \in Jobs, phase[j] = "commit", NEW c \in Nat
  PROVE  LET w == Written(j, c) IN
         /\ w \in Row /\ w.kind = Plan[at[j]].kind /\ w.name = Plan[at[j]].name
         /\ IF w.kind = "dashboard"
            THEN Complete(rows, w.slices) /\ w.slices = {ids[j][n] : n \in ChartNames}
            ELSE w.slices = {}
<1> USE DEF Inv
<1> DEFINE o == Plan[at[j]]
<1> DEFINE S == IF o.kind = "dashboard" THEN {ids[j][n] : n \in ChartNames} ELSE {}
<1>1. at[j] \in 1..Len(Plan) /\ o.kind \in Kinds /\ o.name \in Labels
  BY AtFacts
<1>2. ids[j] \in [Names -> Nat \cup {None}] /\ ChartNames \subseteq Names /\ release[j] \in Nat
  BY PlanObjects DEF TypeOK
<1>3. S \in SUBSET (Nat \cup {None})
  BY <1>2
<1>4. Written(j, c) = [kind |-> o.kind, name |-> o.name, release |-> release[j], columns |-> c, slices |-> S]
  BY DEF Written
<1>5. ASSUME o.kind = "dashboard" PROVE Complete(rows, {ids[j][n] : n \in ChartNames})
  <2> DEFINE f == [n \in ChartNames |-> ids[j][n]]
  <2>1. at[j] = Len(Plan)
    BY <1>1, <1>5, PlanFacts
  <2>2. ASSUME NEW n \in ChartNames PROVE IsRow(rows, ids[j][n], "chart", n)
    <3>1. PICK i \in 1..Len(Plan) : Plan[i].kind = "chart" /\ Plan[i].name = n
      BY PlanObjects
    <3>2. i # Len(Plan)
      BY <3>1, PlanFacts
    <3>3. i < at[j]
      <4>1. Len(Plan) \in Nat
        BY PlanFacts
      <4>2. QED
        BY <2>1, <3>2, <4>1
    <3>4. Behind(j, i)
      BY <3>3 DEF Behind
    <3>5. QED
      BY <3>1, <3>4 DEF Collected
  <2>3. f \in [ChartNames -> 1..Len(rows)]
    BY <2>2 DEF IsRow
  <2>4. {ids[j][n] : n \in ChartNames} = {f[n] : n \in ChartNames}
    OBVIOUS
  <2> HIDE DEF f
  <2>5. \A n \in ChartNames : f[n] = ids[j][n]
    BY DEF f
  <2>6. QED
    BY <2>2, <2>3, <2>4, <2>5 DEF Complete
<1> HIDE DEF S
<1>6. Written(j, c) \in Row
  BY <1>1, <1>2, <1>3, <1>4 DEF Row
<1>7. QED
  BY <1>4, <1>5, <1>6 DEF S

\* What an Update and an Insert have in common.
CommitOf(j, id, c) ==
  /\ phase[j] = "commit"
  /\ rows' \in Seq(Row)
  /\ Len(rows) <= Len(rows')
  /\ id \in 1..Len(rows')
  /\ rows'[id] = Written(j, c)
  /\ \A i \in 1..Len(rows) : i # id => rows'[i] = rows[i]
  /\ \A i \in 1..Len(rows') : i \in 1..Len(rows) \/ i = id
  /\ IF id \in 1..Len(rows)
     THEN IsRow(rows, id, Plan[at[j]].kind, Plan[at[j]].name) /\ c = rows[id].columns
     ELSE found[j] = None
  /\ Advance(j, id)

LEMMA UpdateCommits ==
  ASSUME Inv, NEW j \in Jobs, Update(j)
  PROVE  \E id \in Nat, c \in Nat : CommitOf(j, id, c) /\ id \in 1..Len(rows)
<1> USE DEF Inv
<1>1. /\ Len(rows) \in Nat /\ DOMAIN rows = 1..Len(rows) /\ \A i \in 1..Len(rows) : rows[i] \in Row
      /\ rows \in Seq(Row)
  BY RowsFacts DEF TypeOK
<1>2. phase[j] = "commit" /\ IsRow(rows, found[j], Plan[at[j]].kind, Plan[at[j]].name)
  BY DEF Update, FoundMatches
<1> DEFINE id == found[j]
<1> DEFINE c == rows[id].columns
<1>3. id \in 1..Len(rows) /\ id \in Nat /\ c \in Nat
  BY <1>1, <1>2 DEF IsRow, Row
<1>4. rows' = [rows EXCEPT ![id] = Written(j, c)] /\ Advance(j, id)
  BY DEF Update, Updated
<1>5. Written(j, c) \in Row
  BY <1>2, <1>3, WrittenFacts
<1> HIDE DEF id, c
<1>6. rows' \in Seq(Row) /\ Len(rows') = Len(rows)
  BY <1>1, <1>3, <1>4, <1>5
<1>7. rows'[id] = Written(j, c) /\ \A i \in 1..Len(rows) : i # id => rows'[i] = rows[i]
  BY <1>1, <1>3, <1>4
<1>8. CommitOf(j, id, c)
  BY <1>1, <1>2, <1>3, <1>4, <1>6, <1>7 DEF CommitOf, id, c
<1>9. QED
  BY <1>3, <1>8

LEMMA InsertCommits ==
  ASSUME Inv, NEW j \in Jobs, Insert(j)
  PROVE  \E id \in Nat, c \in Nat : CommitOf(j, id, c) /\ \A i \in 1..Len(rows) : rows'[i] = rows[i]
<1> USE DEF Inv
<1>1. Len(rows) \in Nat /\ rows \in Seq(Row)
  BY RowsFacts DEF TypeOK
<1>2. /\ phase[j] = "commit" /\ found[j] = None /\ rows' = Append(rows, Written(j, 0))
      /\ Advance(j, Len(rows'))
  BY DEF Insert
<1>3. Written(j, 0) \in Row
  BY <1>2, WrittenFacts
<1> DEFINE w == Written(j, 0)
<1> HIDE DEF w
<1>4. /\ rows' \in Seq(Row) /\ Len(rows') = Len(rows) + 1 /\ rows'[Len(rows) + 1] = w
      /\ \A i \in 1..Len(rows) : rows'[i] = rows[i]
  BY <1>1, <1>2, <1>3, AppendProperties DEF w
<1> DEFINE id == Len(rows) + 1
<1>5. /\ id \in Nat /\ id \in 1..Len(rows') /\ id \notin 1..Len(rows) /\ Len(rows) <= Len(rows')
      /\ \A i \in 1..Len(rows') : i \in 1..Len(rows) \/ i = id
  BY <1>1, <1>4
<1>6. Advance(j, id) /\ rows'[id] = Written(j, 0)
  BY <1>2, <1>4 DEF w
<1> HIDE DEF id
<1>7. CommitOf(j, id, 0)
  BY <1>2, <1>4, <1>5, <1>6 DEF CommitOf
<1>8. QED
  BY <1>4, <1>5, <1>7

\* Where Advance leaves the job, and whom it leaves alone.
LEMMA Advanced ==
  ASSUME TypeOK, NEW j \in Jobs, NEW id, Advance(j, id), phase[j] = "commit"
  PROVE  /\ ids' = [ids EXCEPT ![j][Plan[at[j]].name] = id]
         /\ UNCHANGED <<found, release, serial>>
         /\ \/ phase' = [phase EXCEPT ![j] = "down"] /\ at' = at
            \/ phase' = [phase EXCEPT ![j] = "refresh"] /\ at' = at /\ at[j] < Len(Plan)
            \/ /\ phase' = [phase EXCEPT ![j] = "query"] /\ at' = [at EXCEPT ![j] = at[j] + 1]
               /\ at[j] + 1 \in 1..Len(Plan)
<1>1. at[j] \in 1..Len(Plan) /\ Len(Plan) \in Nat
  BY AtFacts, PlanFacts
<1>2. at[j] # Len(Plan) => at[j] < Len(Plan) /\ at[j] + 1 \in 1..Len(Plan)
  BY <1>1
<1>3. QED
  BY <1>2 DEF Advance, NextObject, carried

LEMMA CommitKeeps ==
  ASSUME TypeOK, NEW j \in Jobs, NEW id \in Nat, NEW c \in Nat, CommitOf(j, id, c), Inv
  PROVE  /\ \A i \in 1..Len(rows) : rows'[i].kind = rows[i].kind /\ rows'[i].name = rows[i].name
         /\ \A i, kind, name : IsRow(rows, i, kind, name) => IsRow(rows', i, kind, name)
         /\ \A S : Complete(rows, S) => Complete(rows', S)
         /\ IsRow(rows', id, Plan[at[j]].kind, Plan[at[j]].name)
<1>1. /\ Written(j, c).kind = Plan[at[j]].kind /\ Written(j, c).name = Plan[at[j]].name
      /\ rows'[id] = Written(j, c)
  BY WrittenFacts DEF CommitOf
<1>2. \A i \in 1..Len(rows) : rows'[i].kind = rows[i].kind /\ rows'[i].name = rows[i].name
  <2> SUFFICES ASSUME NEW i \in 1..Len(rows)
               PROVE  rows'[i].kind = rows[i].kind /\ rows'[i].name = rows[i].name
    OBVIOUS
  <2>1. CASE i = id
    BY <1>1, <2>1 DEF CommitOf, IsRow
  <2>2. CASE i # id
    BY <2>2 DEF CommitOf
  <2>3. QED
    BY <2>1, <2>2
<1>3. Len(rows) \in Nat /\ Len(rows') \in Nat /\ Len(rows) <= Len(rows')
  BY RowsFacts DEF CommitOf
<1>4. /\ \A i, kind, name : IsRow(rows, i, kind, name) => IsRow(rows', i, kind, name)
      /\ \A S : Complete(rows, S) => Complete(rows', S)
  BY <1>2, <1>3, Kept
<1>5. IsRow(rows', id, Plan[at[j]].kind, Plan[at[j]].name)
  BY <1>1 DEF IsRow, CommitOf
<1>6. QED
  BY <1>2, <1>4, <1>5

LEMMA CommitInv ==
  ASSUME Inv, NEW j \in Jobs, NEW id \in Nat, NEW c \in Nat, CommitOf(j, id, c)
  PROVE  Inv'
<1> USE DEF Inv
<1> DEFINE o == Plan[at[j]]
<1>1. /\ \A i, kind, name : IsRow(rows, i, kind, name) => IsRow(rows', i, kind, name)
      /\ \A S : Complete(rows, S) => Complete(rows', S)
      /\ IsRow(rows', id, o.kind, o.name)
  BY CommitKeeps
<1>2. /\ ids' = [ids EXCEPT ![j][o.name] = id]
      /\ UNCHANGED <<found, release, serial>>
      /\ \/ phase' = [phase EXCEPT ![j] = "down"] /\ at' = at
         \/ phase' = [phase EXCEPT ![j] = "refresh"] /\ at' = at /\ at[j] < Len(Plan)
         \/ /\ phase' = [phase EXCEPT ![j] = "query"] /\ at' = [at EXCEPT ![j] = at[j] + 1]
            /\ at[j] + 1 \in 1..Len(Plan)
  BY Advanced DEF CommitOf
<1>3. at[j] \in 1..Len(Plan) /\ at[j] \in Nat /\ o.name \in Names /\ phase[j] = "commit"
  BY AtFacts DEF CommitOf
<1> HIDE DEF o
<1>4. TypeOK'
  <2>1. rows' \in Seq(Row)
    BY DEF CommitOf
  <2>2. ids' \in [Jobs -> [Names -> Nat \cup {None}]]
    BY <1>2, <1>3 DEF TypeOK
  <2>3. phase' \in [Jobs -> Phases] /\ at' \in [Jobs -> 1..Len(Plan)]
    BY <1>2 DEF TypeOK, Phases
  <2>4. \A u \in Jobs : phase'[u] = "refresh" => at'[u] < Len(Plan)
    BY <1>2 DEF TypeOK
  <2>5. QED
    BY <1>2, <2>1, <2>2, <2>3, <2>4 DEF TypeOK
<1>5. \A u \in Jobs \ {j} : phase'[u] = phase[u] /\ at'[u] = at[u] /\ ids'[u] = ids[u]
  BY <1>2 DEF TypeOK
<1>6. phase'[j] # "commit"
  BY <1>2, <1>3 DEF TypeOK
<1>7. FoundMatches'
  <2> SUFFICES ASSUME NEW u \in Jobs, phase'[u] = "commit", found[u] # None
               PROVE  IsRow(rows', found[u], Plan[at'[u]].kind, Plan[at'[u]].name)
    BY <1>2 DEF FoundMatches
  <2>1. u # j
    BY <1>6
  <2>2. phase[u] = "commit" /\ at'[u] = at[u]
    BY <1>5, <2>1
  <2>3. IsRow(rows, found[u], Plan[at[u]].kind, Plan[at[u]].name)
    BY <2>2 DEF FoundMatches
  <2>4. QED
    BY <1>1, <2>2, <2>3
<1>8. Collected'
  <2> SUFFICES ASSUME NEW u \in Jobs, NEW i \in 1..Len(Plan), phase'[u] # "down",
                      i < at'[u] \/ (phase'[u] = "refresh" /\ i = at'[u])
               PROVE  IsRow(rows', ids'[u][Plan[i].name], Plan[i].kind, Plan[i].name)
    BY DEF Collected, Behind
  <2>1. CASE u # j
    <3>1. phase'[u] = phase[u] /\ at'[u] = at[u] /\ ids'[u] = ids[u]
      BY <1>5, <2>1
    <3>2. IsRow(rows, ids[u][Plan[i].name], Plan[i].kind, Plan[i].name)
      BY <3>1 DEF Collected, Behind
    <3>3. QED
      BY <1>1, <3>1, <3>2
  <2>2. CASE u = j
    <3>1. Plan[i].name \in Names /\ (Plan[i].name = o.name => i = at[j])
      BY <1>3, PlanObjects DEF o
    <3>2. ids'[j][o.name] = id /\ \A n \in Names : n # o.name => ids'[j][n] = ids[j][n]
      BY <1>2, <1>3 DEF TypeOK
    <3>3. i < at[j] \/ i = at[j]
      <4>1. i \in Nat
        <5>1. Len(Plan) \in Nat
          BY PlanFacts
        <5>2. QED
          BY <5>1
      <4>2. i < at'[j] \/ (i = at'[j] /\ phase'[j] = "refresh")
        BY <2>2
      <4>3. at'[j] = at[j] \/ (at'[j] = at[j] + 1 /\ phase'[j] = "query")
        BY <1>2, <1>3 DEF TypeOK
      <4>4. CASE at'[j] = at[j]
        BY <4>2, <4>4
      <4>5. CASE at'[j] = at[j] + 1 /\ phase'[j] = "query"
        <5>1. i < at[j] + 1
          BY <4>2, <4>5
        <5>2. QED
          BY <1>3, <4>1, <5>1
      <4>6. QED
        BY <4>3, <4>4, <4>5
    <3>4. CASE i = at[j]
      BY <1>1, <2>2, <3>2, <3>4 DEF o
    <3>5. CASE i < at[j]
      <4>1. Plan[i].name # o.name
        BY <1>3, <3>1, <3>5
      <4>2. IsRow(rows, ids[j][Plan[i].name], Plan[i].kind, Plan[i].name)
        BY <1>3, <3>5 DEF Collected, Behind
      <4>3. QED
        BY <1>1, <2>2, <3>1, <3>2, <4>1, <4>2
    <3>6. QED
      BY <3>3, <3>4, <3>5
  <2>3. QED
    BY <2>1, <2>2
<1>9. SlicesComplete'
  <2> SUFFICES ASSUME NEW d \in 1..Len(rows')
               PROVE  IF rows'[d].kind = "dashboard" THEN Complete(rows', rows'[d].slices)
                                                     ELSE rows'[d].slices = {}
    BY DEF SlicesComplete
  <2>1. CASE d = id
    <3>1. rows'[d] = Written(j, c)
      BY <2>1 DEF CommitOf
    <3>2. IF Written(j, c).kind = "dashboard" THEN Complete(rows, Written(j, c).slices)
                                              ELSE Written(j, c).slices = {}
      BY <1>3, WrittenFacts
    <3>3. QED
      BY <1>1, <3>1, <3>2
  <2>2. CASE d # id
    <3>1. d \in 1..Len(rows) /\ rows'[d] = rows[d]
      BY <2>2 DEF CommitOf
    <3>2. QED
      BY <1>1, <3>1 DEF SlicesComplete
  <2>3. QED
    BY <2>1, <2>2
<1>10. QED
  BY <1>4, <1>7, <1>8, <1>9

LEMMA CommitSerial ==
  ASSUME Inv, SerialInv, NEW j \in Jobs, NEW id \in Nat, NEW c \in Nat, CommitOf(j, id, c)
  PROVE  SerialInv'
<1> SUFFICES ASSUME serial PROVE (Alone /\ Distinct /\ MissingIsMissing)'
  <2>1. serial' = serial
    BY Advanced DEF CommitOf, Inv
  <2>2. QED
    BY <2>1 DEF SerialInv
<1> USE DEF Inv
<1>1. Alone /\ Distinct /\ MissingIsMissing
  BY DEF SerialInv
<1>2. phase[j] = "commit" /\ \A u \in Jobs : phase[u] # "down" => u = j
  BY <1>1 DEF CommitOf, Alone
<1>3. \A u \in Jobs : (phase'[u] # "down" => u = j) /\ phase'[u] # "commit"
  <2>1. \A u \in Jobs : u # j => phase'[u] = phase[u]
    BY Advanced DEF CommitOf, TypeOK
  <2>2. phase'[j] # "commit"
    BY <1>2, Advanced DEF CommitOf, TypeOK
  <2>3. QED
    BY <1>2, <2>1, <2>2
<1>4. Alone' /\ MissingIsMissing'
  BY <1>3 DEF Alone, MissingIsMissing
<1>5. /\ \A i \in 1..Len(rows) : rows'[i].kind = rows[i].kind /\ rows'[i].name = rows[i].name
      /\ IsRow(rows', id, Plan[at[j]].kind, Plan[at[j]].name)
  BY CommitKeeps
<1>6. \A i \in 1..Len(rows') : i \in 1..Len(rows) \/ i = id
  BY DEF CommitOf
<1>7. CASE id \in 1..Len(rows)
  BY <1>1, <1>4, <1>5, <1>6, <1>7 DEF Distinct
<1>8. CASE id \notin 1..Len(rows)
  <2>1. \A i \in 1..Len(rows) : ~IsRow(rows, i, Plan[at[j]].kind, Plan[at[j]].name)
    BY <1>1, <1>2, <1>8 DEF CommitOf, MissingIsMissing
  <2>2. \A i \in 1..Len(rows) : ~(rows'[i].kind = rows'[id].kind /\ rows'[i].name = rows'[id].name)
    BY <1>5, <2>1 DEF IsRow
  <2>3. Distinct'
    BY <1>1, <1>5, <1>6, <2>2 DEF Distinct
  <2>4. QED
    BY <1>4, <2>3
<1>9. QED
  BY <1>7, <1>8
-----------------------------------------------------------------------------
(* Every step.                                                              *)

LEMMA InitInv == Init => Inv /\ SerialInv
<1> SUFFICES ASSUME Init PROVE Inv /\ SerialInv
  OBVIOUS
<1>1. rows \in Seq(Row) /\ Len(rows) = 0
  BY DEF Init
<1>2. \A j \in Jobs : phase[j] = "down"
  BY DEF Init
<1>3. 1 \in 1..Len(Plan)
  BY PlanFacts
<1>4. NoIds \in [Names -> Nat \cup {None}]
  BY DEF NoIds, Names
<1>5. TypeOK
  <2>1. phase \in [Jobs -> Phases] /\ serial \in BOOLEAN
    BY DEF Init, Phases
  <2>2. at \in [Jobs -> 1..Len(Plan)] /\ ids \in [Jobs -> [Names -> Nat \cup {None}]]
    BY <1>3, <1>4 DEF Init
  <2>3. found \in [Jobs -> Nat \cup {None}] /\ release \in [Jobs -> Nat]
    BY DEF Init
  <2>4. QED
    BY <1>1, <1>2, <2>1, <2>2, <2>3 DEF TypeOK
<1>6. FoundMatches /\ Collected /\ Alone /\ MissingIsMissing
  BY <1>2 DEF FoundMatches, Collected, Behind, Alone, MissingIsMissing
<1>7. SlicesComplete /\ Distinct
  BY <1>1 DEF SlicesComplete, Distinct
<1>8. QED
  BY <1>5, <1>6, <1>7 DEF Inv, SerialInv

\* No row becomes another.
RowsStay ==
  /\ Len(rows') = Len(rows)
  /\ \A i \in 1..Len(rows) : /\ rows'[i].kind = rows[i].kind
                             /\ rows'[i].name = rows[i].name
                             /\ rows'[i].slices = rows[i].slices

\* A job goes on, or down, and commits no object: what it had collected stays.
LEMMA Uncommitted ==
  ASSUME Inv, NEW j \in Jobs, RowsStay, TypeOK', ids' = ids \/ phase'[j] = "ddl",
         \A u \in Jobs \ {j} : UNCHANGED <<phase[u], at[u], found[u], ids[u]>>,
         phase'[j] = "commit" /\ found'[j] # None =>
           IsRow(rows, found'[j], Plan[at'[j]].kind, Plan[at'[j]].name),
         \A i \in 1..Len(Plan) : Behind(j, i)' => Behind(j, i) /\ ids' = ids
  PROVE  Inv'
<1>1. /\ \A id, kind, name : IsRow(rows, id, kind, name) => IsRow(rows', id, kind, name)
      /\ \A S : Complete(rows, S) => Complete(rows', S)
  <2>1. Len(rows) \in Nat /\ Len(rows') \in Nat /\ Len(rows) <= Len(rows')
    BY RowsFacts DEF Inv, RowsStay
  <2>2. \A i \in 1..Len(rows) : rows'[i].kind = rows[i].kind /\ rows'[i].name = rows[i].name
    BY DEF RowsStay
  <2>3. QED
    BY <2>1, <2>2, Kept
<1>2. FoundMatches'
  <2> SUFFICES ASSUME NEW u \in Jobs, phase'[u] = "commit", found'[u] # None
               PROVE  IsRow(rows, found'[u], Plan[at'[u]].kind, Plan[at'[u]].name)
    BY <1>1 DEF FoundMatches
  <2>1. CASE u = j
    BY <2>1
  <2>2. CASE u # j
    BY <2>2 DEF Inv, FoundMatches
  <2>3. QED
    BY <2>1, <2>2
<1>3. Collected'
  <2> SUFFICES ASSUME NEW u \in Jobs, NEW i \in 1..Len(Plan), Behind(u, i)'
               PROVE  IsRow(rows, ids'[u][Plan[i].name], Plan[i].kind, Plan[i].name)
    BY <1>1 DEF Collected
  <2>1. CASE u = j
    BY <2>1 DEF Inv, Collected
  <2>2. CASE u # j
    BY <2>2 DEF Inv, Collected, Behind
  <2>3. QED
    BY <2>1, <2>2
<1>4. SlicesComplete'
  <2> SUFFICES ASSUME NEW d \in 1..Len(rows)
               PROVE  IF rows'[d].kind = "dashboard" THEN Complete(rows', rows'[d].slices)
                                                     ELSE rows'[d].slices = {}
    BY DEF SlicesComplete, RowsStay
  <2>1. /\ rows'[d].kind = rows[d].kind /\ rows'[d].slices = rows[d].slices
        /\ IF rows[d].kind = "dashboard" THEN Complete(rows, rows[d].slices) ELSE rows[d].slices = {}
    BY DEF RowsStay, Inv, SlicesComplete
  <2>2. QED
    BY <1>1, <2>1
<1>5. QED
  BY <1>2, <1>3, <1>4 DEF Inv

\* The same without other jobs.
LEMMA UncommittedSerial ==
  ASSUME TypeOK, SerialInv, NEW j \in Jobs, RowsStay, serial' => serial,
         \A u \in Jobs \ {j} : UNCHANGED <<phase[u], at[u], found[u]>>,
         serial' => phase[j] # "down" \/ \A u \in Jobs : phase[u] = "down",
         phase'[j] = "commit" /\ found'[j] = None =>
           \A i \in 1..Len(rows) : ~IsRow(rows, i, Plan[at'[j]].kind, Plan[at'[j]].name)
  PROVE  SerialInv'
<1> SUFFICES ASSUME serial' PROVE (Alone /\ Distinct /\ MissingIsMissing)'
  BY DEF SerialInv
<1>1. Alone /\ Distinct /\ MissingIsMissing
  BY DEF SerialInv
<1>2. \A u \in Jobs \ {j} : phase'[u] = "down"
  BY <1>1 DEF Alone
<1>3. Alone'
  BY <1>2 DEF Alone
<1>4. MissingIsMissing'
  BY <1>2 DEF MissingIsMissing, RowsStay, IsRow
<1>5. Distinct'
  BY <1>1 DEF Distinct, RowsStay
<1>6. QED
  BY <1>3, <1>4, <1>5

LEMMA RefreshStays ==
  ASSUME Inv, NEW j \in Jobs, RefreshColumns(j)
  PROVE  rows' \in Seq(Row) /\ RowsStay
<1> DEFINE id == ids[j][Plan[at[j]].name]
<1>1. id \in 1..Len(rows)
  <2>1. phase[j] = "refresh" /\ at[j] \in 1..Len(Plan)
    BY AtFacts DEF RefreshColumns, Inv
  <2>2. QED
    BY <2>1 DEF Inv, Collected, Behind, IsRow
<1>2. Len(rows) \in Nat /\ DOMAIN rows = 1..Len(rows) /\ \A i \in 1..Len(rows) : rows[i] \in Row
  BY RowsFacts DEF Inv
<1>3. rows' = [rows EXCEPT ![id] = [rows[id] EXCEPT !.columns = rows[id].release]]
  BY DEF RefreshColumns
<1> HIDE DEF id
<1> DEFINE w == [rows[id] EXCEPT !.columns = rows[id].release]
<1>4. w \in Row /\ w.kind = rows[id].kind /\ w.name = rows[id].name /\ w.slices = rows[id].slices
  BY <1>1, <1>2 DEF Row
<1> HIDE DEF w
<1>5. rows' = [rows EXCEPT ![id] = w]
  BY <1>3 DEF w
<1>6. rows' \in Seq(Row) /\ Len(rows') = Len(rows)
  BY <1>1, <1>4, <1>5 DEF Inv, TypeOK
<1>7. \A i \in 1..Len(rows) : rows'[i] = IF i = id THEN w ELSE rows[i]
  BY <1>1, <1>2, <1>5
<1>8. QED
  BY <1>4, <1>6, <1>7 DEF RowsStay

LEMMA StepInv ==
  ASSUME Inv, SerialInv, [Next]_vars
  PROVE  Inv' /\ SerialInv'
<1> USE DEF Inv
<1>0. rows' = rows => RowsStay
  BY DEF RowsStay
<1>1. ASSUME NEW j \in Jobs, NEW v \in Releases, Start(j, v) PROVE Inv' /\ SerialInv'
  <2>1. /\ phase[j] = "down" /\ phase' = [phase EXCEPT ![j] = "ddl"] /\ at' = [at EXCEPT ![j] = 1]
        /\ ids' = [ids EXCEPT ![j] = NoIds] /\ release' = [release EXCEPT ![j] = v]
        /\ serial' = (serial /\ \A k \in Jobs : phase[k] = "down")
        /\ UNCHANGED <<rows, found>>
    BY <1>1 DEF Start
  <2>2. 1 \in 1..Len(Plan) /\ NoIds \in [Names -> Nat \cup {None}] /\ v \in Nat
    <3>1. Len(Plan) \in Nat \ {0}
      BY PlanFacts
    <3>2. NoIds \in [Names -> Nat \cup {None}]
      BY DEF NoIds, Names
    <3>3. QED
      BY <3>1, <3>2, ReleaseAssumption
  <2>3. TypeOK'
    BY <2>1, <2>2 DEF TypeOK, Phases
  <2>4. \A u \in Jobs \ {j} : UNCHANGED <<phase[u], at[u], found[u], ids[u]>>
    BY <2>1 DEF TypeOK
  <2>5. phase'[j] = "ddl" /\ at'[j] = 1
    BY <2>1 DEF TypeOK
  <2>6. \A i \in 1..Len(Plan) : ~Behind(j, i)'
    <3>1. Len(Plan) \in Nat
      BY PlanFacts
    <3> DEFINE n == Len(Plan)
    <3> HIDE DEF n
    <3>2. \A i \in 1..n : ~(i < 1)
      BY <3>1 DEF n
    <3>3. QED
      BY <2>5, <3>2 DEF Behind, n
  <2>7. Inv'
    BY <2>1, <2>3, <2>4, <2>5, <2>6, <1>0, Uncommitted
  <2>8. SerialInv'
    BY <2>1, <2>4, <2>5, <1>0, UncommittedSerial
  <2>9. QED
    BY <2>7, <2>8
<1>2. ASSUME NEW j \in Jobs, RunDdl(j) PROVE Inv' /\ SerialInv'
  <2>1. /\ phase[j] = "ddl" /\ phase' = [phase EXCEPT ![j] = "query"]
        /\ UNCHANGED <<rows, at, found, ids, release, serial>>
    BY <1>2 DEF RunDdl, carried
  <2>2. TypeOK'
    BY <2>1 DEF TypeOK, Phases
  <2>3. \A u \in Jobs \ {j} : UNCHANGED <<phase[u], at[u], found[u], ids[u]>>
    BY <2>1 DEF TypeOK
  <2>4. phase'[j] = "query"
    BY <2>1 DEF TypeOK
  <2>5. \A i \in 1..Len(Plan) : Behind(j, i)' => Behind(j, i) /\ ids' = ids
    BY <2>1, <2>4 DEF Behind
  <2>6. Inv'
    BY <2>1, <2>2, <2>3, <2>4, <2>5, <1>0, Uncommitted
  <2>7. SerialInv'
    BY <2>1, <2>3, <2>4, <1>0, UncommittedSerial
  <2>8. QED
    BY <2>6, <2>7
<1>3. ASSUME NEW j \in Jobs, Query(j) PROVE Inv' /\ SerialInv'
  <2> DEFINE o == Plan[at[j]]
  <2>1. /\ phase[j] = "query" /\ phase' = [phase EXCEPT ![j] = "commit"]
        /\ UNCHANGED <<rows, at, ids, release, serial>>
    BY <1>3 DEF Query, carried
  <2>2. Hits(j) = {i \in 1..Len(rows) : rows[i].kind = o.kind /\ rows[i].name = o.name}
    BY RowsFacts DEF Hits, Matching
  <2>3. \/ Hits(j) = {} /\ found' = [found EXCEPT ![j] = None]
        \/ \E i \in Hits(j) : found' = [found EXCEPT ![j] = i]
    BY <1>3 DEF Query
  <2>4. /\ found' \in [Jobs -> Nat \cup {None}]
        /\ \A u \in Jobs \ {j} : found'[u] = found[u]
        /\ found'[j] # None => IsRow(rows, found'[j], o.kind, o.name)
        /\ found'[j] = None => \A i \in 1..Len(rows) : ~IsRow(rows, i, o.kind, o.name)
    <3>1. CASE Hits(j) = {} /\ found' = [found EXCEPT ![j] = None]
      <4>1. \A i \in 1..Len(rows) : ~IsRow(rows, i, o.kind, o.name)
        BY <2>2, <3>1 DEF IsRow
      <4>2. QED
        BY <3>1, <4>1 DEF TypeOK
    <3>2. CASE \E i \in Hits(j) : found' = [found EXCEPT ![j] = i]
      <4>1. PICK i \in Hits(j) : found' = [found EXCEPT ![j] = i]
        BY <3>2
      <4>2. i \in Nat /\ i # None /\ IsRow(rows, i, o.kind, o.name)
        BY <2>2, RowsFacts, NoneAssumption DEF IsRow
      <4>3. QED
        BY <4>1, <4>2 DEF TypeOK
    <3>3. QED
      BY <2>3, <3>1, <3>2
  <2>5. TypeOK'
    BY <2>1, <2>4 DEF TypeOK, Phases
  <2>6. \A u \in Jobs \ {j} : UNCHANGED <<phase[u], at[u], found[u], ids[u]>>
    BY <2>1, <2>4 DEF TypeOK
  <2>7. phase'[j] = "commit" /\ at'[j] = at[j]
    BY <2>1 DEF TypeOK
  <2>8. \A i \in 1..Len(Plan) : Behind(j, i)' => Behind(j, i) /\ ids' = ids
    BY <2>1, <2>7 DEF Behind
  <2>9. Inv'
    BY <2>1, <2>4, <2>5, <2>6, <2>7, <2>8, <1>0, Uncommitted
  <2>10. SerialInv'
    BY <2>1, <2>4, <2>6, <2>7, <1>0, UncommittedSerial
  <2>11. QED
    BY <2>9, <2>10
<1>4. ASSUME NEW j \in Jobs, Update(j) PROVE Inv' /\ SerialInv'
  BY <1>4, UpdateCommits, CommitInv, CommitSerial
<1>5. ASSUME NEW j \in Jobs, Insert(j) PROVE Inv' /\ SerialInv'
  BY <1>5, InsertCommits, CommitInv, CommitSerial
<1>6. ASSUME NEW j \in Jobs, phase[j] = "refresh", NextObject(j), rows' \in Seq(Row), RowsStay,
             UNCHANGED <<found, ids, release, serial>>
      PROVE  Inv' /\ SerialInv'
  <2>1. at[j] \in 1..Len(Plan) /\ at[j] \in Nat /\ Len(Plan) \in Nat /\ at[j] < Len(Plan)
    BY <1>6, AtFacts, PlanFacts DEF TypeOK
  <2>2. phase' = [phase EXCEPT ![j] = "query"] /\ at' = [at EXCEPT ![j] = at[j] + 1]
    BY <1>6 DEF NextObject
  <2>3. at[j] + 1 \in 1..Len(Plan)
    BY <2>1
  <2>4. TypeOK'
    <3>1. phase' \in [Jobs -> Phases] /\ at' \in [Jobs -> 1..Len(Plan)]
      BY <2>2, <2>3 DEF TypeOK, Phases
    <3>2. \A u \in Jobs : phase'[u] = "refresh" => at'[u] < Len(Plan)
      BY <2>2 DEF TypeOK
    <3>3. QED
      BY <1>6, <3>1, <3>2 DEF TypeOK
  <2>5. \A u \in Jobs \ {j} : UNCHANGED <<phase[u], at[u], found[u], ids[u]>>
    BY <1>6, <2>2 DEF TypeOK
  <2>6. phase'[j] = "query" /\ at'[j] = at[j] + 1
    BY <2>2 DEF TypeOK
  <2>7. \A i \in 1..Len(Plan) : Behind(j, i)' => Behind(j, i) /\ ids' = ids
    <3>1. \A i \in 1..Len(Plan) : i < at[j] + 1 => i < at[j] \/ i = at[j]
      BY <2>1
    <3>2. QED
      BY <1>6, <2>6, <3>1 DEF Behind
  <2>8. Inv'
    BY <1>6, <2>4, <2>5, <2>6, <2>7, Uncommitted
  <2>9. SerialInv'
    BY <1>6, <2>5, <2>6, UncommittedSerial
  <2>10. QED
    BY <2>8, <2>9
<1>7. ASSUME NEW j \in Jobs, RefreshColumns(j) PROVE Inv' /\ SerialInv'
  <2>1. phase[j] = "refresh" /\ NextObject(j) /\ UNCHANGED <<found, ids, release, serial>>
    BY <1>7 DEF RefreshColumns, carried
  <2>2. rows' \in Seq(Row) /\ RowsStay
    BY <1>7, RefreshStays
  <2>3. QED
    BY <1>6, <2>1, <2>2
<1>8. ASSUME NEW j \in Jobs, RefreshFails(j) PROVE Inv' /\ SerialInv'
  <2>1. phase[j] = "refresh" /\ NextObject(j) /\ UNCHANGED <<rows, found, ids, release, serial>>
    BY <1>8 DEF RefreshFails, carried
  <2>2. rows' \in Seq(Row)
    BY <2>1 DEF TypeOK
  <2>3. QED
    BY <1>0, <1>6, <2>1, <2>2
<1>9. ASSUME NEW j \in Jobs, Fail(j) PROVE Inv' /\ SerialInv'
  <2>1. /\ phase[j] # "down" /\ phase' = [phase EXCEPT ![j] = "down"]
        /\ UNCHANGED <<rows, at, found, ids, release, serial>>
    BY <1>9 DEF Fail, carried
  <2>2. TypeOK'
    BY <2>1 DEF TypeOK, Phases
  <2>3. \A u \in Jobs \ {j} : UNCHANGED <<phase[u], at[u], found[u], ids[u]>>
    BY <2>1 DEF TypeOK
  <2>4. phase'[j] = "down"
    BY <2>1 DEF TypeOK
  <2>5. \A i \in 1..Len(Plan) : Behind(j, i)' => Behind(j, i) /\ ids' = ids
    BY <2>4 DEF Behind
  <2>6. Inv'
    BY <2>1, <2>2, <2>3, <2>4, <2>5, <1>0, Uncommitted
  <2>7. SerialInv'
    BY <2>1, <2>3, <2>4, <1>0, UncommittedSerial
  <2>8. QED
    BY <2>6, <2>7
<1>10. CASE UNCHANGED vars
  <2>1. UNCHANGED <<rows, phase, at, found, ids, release, serial>>
    BY <1>10 DEF vars, carried
  <2>2. QED
    BY <2>1 DEF TypeOK, FoundMatches, Collected, Behind, SlicesComplete, SerialInv, Alone, Distinct,
                MissingIsMissing
<1>11. QED
  BY <1>1, <1>2, <1>3, <1>4, <1>5, <1>7, <1>8, <1>9, <1>10 DEF Next, Step, AllDown

LEMMA InvIsInvariant == Spec => [](Inv /\ SerialInv)
BY InitInv, StepInv, PTL DEF Spec

-----------------------------------------------------------------------------
(* The theorems.                                                            *)

\* Wherever jobs die and however many overlap, the dashboard in Superset shows
\* one committed chart of every name.
THEOREM DashboardIsWhole == Spec => []DashboardComplete
<1>1. Inv => DashboardComplete
  <2> SUFFICES ASSUME Inv, NEW d \in Dashboards
               PROVE  /\ rows[d].slices \subseteq DOMAIN rows
                      /\ {rows[i].name : i \in rows[d].slices} = ChartNames
                      /\ Cardinality(rows[d].slices) = Cardinality(ChartNames)
    BY DEF DashboardComplete
  <2>1. d \in 1..Len(rows) /\ DOMAIN rows = 1..Len(rows) /\ rows[d].kind = "dashboard"
    BY RowsFacts DEF Dashboards, Inv
  <2>2. Complete(rows, rows[d].slices)
    BY <2>1 DEF Inv, SlicesComplete
  <2>3. PICK f \in [ChartNames -> 1..Len(rows)] :
           /\ rows[d].slices = {f[n] : n \in ChartNames}
           /\ \A n \in ChartNames : rows[f[n]].name = n
    BY <2>2 DEF Complete, IsRow
  <2>4. f \in Surjection(ChartNames, rows[d].slices)
    BY <2>3 DEF Surjection
  <2>5. f \in Injection(ChartNames, rows[d].slices)
    <3>1. f \in [ChartNames -> rows[d].slices]
      BY <2>3
    <3>2. \A m, n \in ChartNames : f[m] = f[n] => m = n
      BY <2>3
    <3>3. QED
      BY <3>1, <3>2 DEF Injection, IsInjective
  <2>6. IsFiniteSet(ChartNames)
    BY PlanObjects
  <2>7. Cardinality(rows[d].slices) = Cardinality(ChartNames)
    BY <2>4, <2>5, <2>6, FS_Surjection
  <2>8. QED
    BY <2>1, <2>3, <2>7
<1>2. QED
  BY <1>1, InvIsInvariant, PTL

\* Jobs that do not overlap never write an object twice, whatever the jobs
\* before them died in the middle of.
THEOREM RerunsDoNotDuplicate == Spec => []SerialNoDuplicates
<1>1. Inv /\ SerialInv => SerialNoDuplicates
  <2> SUFFICES ASSUME Inv, Distinct, NEW i \in DOMAIN Plan
               PROVE  Cardinality(Matching(Plan[i])) <= 1
    BY DEF SerialNoDuplicates, SerialInv
  <2>1. Matching(Plan[i]) = {k \in 1..Len(rows) : rows[k].kind = Plan[i].kind /\ rows[k].name = Plan[i].name}
    BY RowsFacts DEF Matching, Inv
  <2>2. CASE Matching(Plan[i]) = {}
    BY <2>2, FS_EmptySet
  <2>3. CASE Matching(Plan[i]) # {}
    <3>1. PICK k \in Matching(Plan[i]) : TRUE
      BY <2>3
    <3>2. Matching(Plan[i]) = {k}
      BY <2>1, <3>1 DEF Distinct
    <3>3. Cardinality(Matching(Plan[i])) = 1
      BY <3>2, FS_Singleton
    <3>4. QED
      BY <3>3
  <2>4. QED
    BY <2>2, <2>3
<1>2. QED
  BY <1>1, InvIsInvariant, PTL

\* An update finds the row it updates as it would write it.
LEMMA UpdateIsStable ==
  ASSUME Inv, Distinct, NEW j \in Jobs, Update(j)
  PROVE  RowsStay
<1> USE DEF Inv
<1>1. PICK id \in Nat, c \in Nat : CommitOf(j, id, c) /\ id \in 1..Len(rows)
  BY UpdateCommits
<1>2. /\ phase[j] = "commit" /\ rows'[id] = Written(j, c)
      /\ IsRow(rows, id, Plan[at[j]].kind, Plan[at[j]].name)
      /\ \A i \in 1..Len(rows) : i # id => rows'[i] = rows[i]
  BY <1>1 DEF CommitOf
<1> DEFINE w == Written(j, c)
<1>3. /\ w.kind = Plan[at[j]].kind /\ w.name = Plan[at[j]].name
      /\ IF w.kind = "dashboard"
         THEN Complete(rows, w.slices) ELSE w.slices = {}
  BY <1>2, WrittenFacts
<1> HIDE DEF w
<1>4. rows[id].kind = w.kind /\ rows[id].name = w.name
  BY <1>2, <1>3 DEF IsRow
<1>5. w.slices = rows[id].slices
  <2>1. CASE w.kind # "dashboard"
    BY <1>1, <1>3, <1>4, <2>1 DEF SlicesComplete
  <2>2. CASE w.kind = "dashboard"
    <3>1. Complete(rows, w.slices) /\ Complete(rows, rows[id].slices)
      BY <1>1, <1>3, <1>4, <2>2 DEF SlicesComplete
    <3>2. PICK f \in [ChartNames -> 1..Len(rows)] :
             w.slices = {f[n] : n \in ChartNames} /\ \A n \in ChartNames : IsRow(rows, f[n], "chart", n)
      BY <3>1 DEF Complete
    <3>3. PICK g \in [ChartNames -> 1..Len(rows)] :
             /\ rows[id].slices = {g[n] : n \in ChartNames}
             /\ \A n \in ChartNames : IsRow(rows, g[n], "chart", n)
      BY <3>1 DEF Complete
    <3>4. \A n \in ChartNames : f[n] = g[n]
      BY <3>2, <3>3 DEF IsRow, Distinct
    <3>5. QED
      BY <3>2, <3>3, <3>4
  <2>3. QED
    BY <2>1, <2>2
<1>6. Len(rows') = Len(rows)
  <2>1. Len(rows) \in Nat
    BY RowsFacts
  <2>2. rows' = [rows EXCEPT ![found[j]] = Written(j, rows[found[j]].columns)] /\ rows \in Seq(Row)
    BY DEF Update, Updated, TypeOK
  <2>3. Len([rows EXCEPT ![found[j]] = Written(j, rows[found[j]].columns)]) = Len(rows)
    BY <2>2
  <2>4. QED
    BY <2>2, <2>3
<1>7. \A i \in 1..Len(rows) : /\ rows'[i].kind = rows[i].kind /\ rows'[i].name = rows[i].name
                             /\ rows'[i].slices = rows[i].slices
  <2> SUFFICES ASSUME NEW i \in 1..Len(rows)
               PROVE  /\ rows'[i].kind = rows[i].kind /\ rows'[i].name = rows[i].name
                      /\ rows'[i].slices = rows[i].slices
    OBVIOUS
  <2>1. CASE i = id
    BY <1>2, <1>4, <1>5, <2>1 DEF w
  <2>2. CASE i # id
    BY <1>2, <2>2
  <2>3. QED
    BY <2>1, <2>2
<1>8. QED
  BY <1>6, <1>7 DEF RowsStay

\* Without overlaps a row stays what it is and a dashboard keeps its charts.
THEOREM IdsAreStable == Spec => SerialStableIds
<1> DEFINE Stable ==
  serial' => \A i \in DOMAIN rows : rows'[i].name = rows[i].name /\ rows'[i].slices = rows[i].slices
<1>1. ASSUME Inv, SerialInv, Next PROVE Stable
  <2>1. DOMAIN rows = 1..Len(rows)
    BY <1>1, RowsFacts DEF Inv
  <2>2. RowsStay => Stable
    BY <2>1 DEF RowsStay
  <2>3. ASSUME NEW j \in Jobs, Update(j) PROVE Stable
    <3>1. serial' = serial
      BY <2>3 DEF Update, Advance, carried
    <3>2. CASE serial
      BY <1>1, <2>2, <2>3, <3>2, UpdateIsStable DEF SerialInv
    <3>3. QED
      BY <3>1, <3>2
  <2>4. ASSUME NEW j \in Jobs, Insert(j) PROVE Stable
    BY <1>1, <2>1, <2>4, InsertCommits
  <2>5. ASSUME NEW j \in Jobs, RefreshColumns(j) PROVE Stable
    BY <1>1, <2>2, <2>5, RefreshStays
  <2>6. CASE rows' = rows
    BY <2>6
  <2>7. ASSUME NEW j \in Jobs,
               \/ \E v \in Releases : Start(j, v)
               \/ RunDdl(j) \/ Query(j) \/ RefreshFails(j) \/ Fail(j)
        PROVE  rows' = rows
    BY <2>7 DEF Start, RunDdl, Query, RefreshFails, Fail
  <2>8. AllDown => rows' = rows
    BY DEF AllDown, vars
  <2>9. QED
    BY <1>1, <2>3, <2>4, <2>5, <2>6, <2>7, <2>8 DEF Next, Step
<1>2. Inv /\ SerialInv /\ [Next]_vars =>
        [serial' => \A i \in DOMAIN rows :
             /\ rows'[i].name = rows[i].name
             /\ rows'[i].slices = rows[i].slices]_vars
  BY <1>1
<1>3. QED
  BY <1>2, InvIsInvariant, PTL DEF Spec, SerialStableIds
-----------------------------------------------------------------------------
(* Releases.  A job that runs alone carries the newest release; what it has *)
(* behind it is at that release, and datasets come before charts in a plan. *)

\* No chart stands before a dataset.
InOrder(s) ==
  \A i \in 1..Len(s), k \in 1..Len(s) : s[i].kind = "dataset" /\ s[k].kind = "chart" => i < k

LEMMA ConcatInOrder ==
  ASSUME NEW s \in Seq(Object), NEW t \in Seq(Object), InOrder(s), InOrder(t),
         \/ \A i \in 1..Len(s) : s[i].kind # "chart"
         \/ \A i \in 1..Len(t) : t[i].kind # "dataset"
  PROVE  s \o t \in Seq(Object) /\ InOrder(s \o t)
<1>1. /\ Len(s) \in Nat /\ Len(t) \in Nat
      /\ s \o t \in Seq(Object) /\ Len(s \o t) = Len(s) + Len(t)
      /\ \A i \in 1..Len(s) + Len(t) : (s \o t)[i] = IF i <= Len(s) THEN s[i] ELSE t[i - Len(s)]
  BY ConcatProperties
<1>2. ASSUME NEW i \in 1..Len(s) + Len(t), NEW k \in 1..Len(s) + Len(t),
             (s \o t)[i].kind = "dataset", (s \o t)[k].kind = "chart", ~(i < k)
      PROVE  FALSE
  <2>1. CASE i <= Len(s)
    <3>1. i \in 1..Len(s) /\ k \in 1..Len(s) /\ k <= Len(s)
      BY <1>1, <1>2, <2>1
    <3>2. s[i].kind = "dataset" /\ s[k].kind = "chart"
      BY <1>1, <1>2, <2>1, <3>1
    <3>3. QED
      BY <1>2, <3>1, <3>2 DEF InOrder
  <2>2. CASE ~(i <= Len(s)) /\ k <= Len(s)
    <3>1. k \in 1..Len(s) /\ i - Len(s) \in 1..Len(t)
      BY <1>1, <2>2
    <3>2. s[k].kind = "chart" /\ t[i - Len(s)].kind = "dataset"
      BY <1>1, <1>2, <2>2
    <3>3. QED
      BY <3>1, <3>2
  <2>3. CASE ~(i <= Len(s)) /\ ~(k <= Len(s))
    <3>1. i - Len(s) \in 1..Len(t) /\ k - Len(s) \in 1..Len(t) /\ ~(i - Len(s) < k - Len(s))
      BY <1>1, <1>2, <2>3
    <3>2. t[i - Len(s)].kind = "dataset" /\ t[k - Len(s)].kind = "chart"
      BY <1>1, <1>2, <2>3
    <3>3. QED
      BY <3>1, <3>2 DEF InOrder
  <2>4. QED
    BY <2>1, <2>2, <2>3
<1>3. QED
  BY <1>1, <1>2 DEF InOrder

LEMMA PlanInOrder == InOrder(Plan)
<1> DEFINE D == Objects("dataset", Datasets)
           C == Objects("chart", Charts)
<1>1. /\ Database \in Seq(Object) /\ Dashboard \in Seq(Object)
      /\ \A i \in 1..Len(Database) : Database[i].kind = "database"
      /\ \A i \in 1..Len(Dashboard) : Dashboard[i].kind = "dashboard"
  BY DEF Database, Dashboard, Object, Kinds, Labels
<1>2. /\ D \in Seq(Object) /\ \A i \in 1..Len(D) : D[i].kind = "dataset"
      /\ C \in Seq(Object) /\ \A i \in 1..Len(C) : C[i].kind = "chart"
  BY ObjectsPlain DEF Kinds, Plain
<1> HIDE DEF D, C
<1>3. InOrder(Database) /\ InOrder(Dashboard) /\ InOrder(D) /\ InOrder(C)
  BY <1>1, <1>2 DEF InOrder
<1>4. Database \o D \in Seq(Object) /\ InOrder(Database \o D)
  BY <1>1, <1>2, <1>3, ConcatInOrder
<1>5. (Database \o D) \o C \in Seq(Object) /\ InOrder((Database \o D) \o C)
  BY <1>2, <1>3, <1>4, ConcatInOrder
<1>6. InOrder(((Database \o D) \o C) \o Dashboard)
  BY <1>1, <1>3, <1>5, ConcatInOrder
<1>7. QED
  BY <1>6 DEF Plan, D, C

\* Every row is that of an object of the plan.
PlanRows ==
  \A k \in 1..Len(rows) : \E i \in 1..Len(Plan) : IsRow(rows, k, Plan[i].kind, Plan[i].name)

\* Nothing is of a release that no job carried.
Carried(r) == \E u \in Jobs : r <= release[u]

Bounded ==
  /\ finished \subseteq Nat
  /\ \A k \in 1..Len(rows) : Carried(rows[k].release)
  /\ \A r \in finished : Carried(r)

ReleaseInv == PlanRows /\ Bounded

Newest == \A j \in Jobs, k \in Jobs : phase[j] # "down" => release[k] <= release[j]

AtRelease ==
  \A j \in Jobs, i \in 1..Len(Plan) :
    Behind(j, i) =>
      LET row == rows[ids[j][Plan[i].name]] IN
      /\ row.release = release[j]
      /\ Plan[i].kind = "dataset" /\ ids[j][Plan[i].name] \notin lagged /\ i < at[j]
           => row.columns = release[j]

Converged ==
  \A r \in finished, i \in 1..Len(Plan) :
    \E k \in 1..Len(rows) :
      /\ IsRow(rows, k, Plan[i].kind, Plan[i].name)
      /\ rows[k].release >= r
      /\ rows[k].kind = "dataset" /\ k \notin lagged => rows[k].columns >= r

ChartsBehind ==
  \A c \in 1..Len(rows), d \in 1..Len(rows) :
    rows[c].kind = "chart" /\ rows[d].kind = "dataset" => rows[c].release <= rows[d].release

SerialRelease == serial => Newest /\ AtRelease /\ Converged /\ ChartsBehind

\* There is no row and no finished job.
LEMMA InitRelease == Init => ReleaseInv /\ SerialRelease
<1> SUFFICES ASSUME Init PROVE ReleaseInv /\ SerialRelease
  OBVIOUS
<1>1. Len(rows) = 0 /\ finished = {} /\ \A j \in Jobs : phase[j] = "down"
  BY DEF Init
<1>2. ReleaseInv
  BY <1>1 DEF ReleaseInv, PlanRows, Bounded
<1>3. Newest /\ AtRelease /\ Converged /\ ChartsBehind
  BY <1>1 DEF Newest, AtRelease, Behind, Converged, ChartsBehind
<1>4. QED
  BY <1>2, <1>3 DEF SerialRelease

\* A step that commits no object: at most it refreshes columns.
QuietRows ==
  /\ Len(rows') = Len(rows)
  /\ \A k \in 1..Len(rows) :
       /\ rows'[k].kind = rows[k].kind /\ rows'[k].name = rows[k].name
       /\ rows'[k].release = rows[k].release
       /\ rows'[k].columns \in {rows[k].columns, rows[k].release}

LEMMA QuietRelease ==
  ASSUME Inv, ReleaseInv, SerialRelease, QuietRows,
         UNCHANGED <<release, ids, finished>>, serial' => serial,
         \A k \in 1..Len(rows) :
           k \in lagged => k \in lagged' \/ rows'[k].columns = rows[k].release,
         \A u \in Jobs : phase'[u] # "down" => phase[u] # "down",
         \A u \in Jobs : \A i \in 1..Len(Plan) : Behind(u, i)' =>
           /\ Behind(u, i)
           /\ \/ i < at'[u] => i < at[u]
              \/ LET id == ids[u][Plan[i].name] IN
                 id \in lagged' \/ rows'[id].columns = rows[id].release
  PROVE  ReleaseInv' /\ SerialRelease'
<1> USE DEF Inv
<1>1. Len(rows) \in Nat /\ \A k \in 1..Len(rows) : rows[k].release \in Nat /\ rows[k].columns \in Nat
  BY RowsFacts DEF Row
<1>2. \A k, kind, name : IsRow(rows', k, kind, name) <=> IsRow(rows, k, kind, name)
  BY DEF QuietRows, IsRow
<1>3. PlanRows'
  BY <1>2 DEF ReleaseInv, PlanRows, QuietRows
<1>4. Bounded'
  BY DEF ReleaseInv, Bounded, Carried, QuietRows
<1>5. ASSUME serial'
      PROVE  Newest' /\ AtRelease' /\ Converged' /\ ChartsBehind'
  <2>1. Newest /\ AtRelease /\ Converged /\ ChartsBehind
    BY <1>5 DEF SerialRelease
  <2>2. Newest'
    BY <2>1 DEF Newest
  <2>3. AtRelease'
    <3> SUFFICES ASSUME NEW j \in Jobs, NEW i \in 1..Len(Plan), Behind(j, i)'
                 PROVE  LET row == rows'[ids[j][Plan[i].name]] IN
                        /\ row.release = release[j]
                        /\ Plan[i].kind = "dataset" /\ ids[j][Plan[i].name] \notin lagged' /\ i < at'[j]
                             => row.columns = release[j]
      BY DEF AtRelease
    <3> DEFINE id == ids[j][Plan[i].name]
    <3>1. Behind(j, i)
      OBVIOUS
    <3>2. id \in 1..Len(rows) /\ rows[id].release = release[j]
      BY <2>1, <3>1 DEF Collected, IsRow, AtRelease
    <3>3. rows'[id].release = release[j] /\ rows'[id].columns \in {rows[id].columns, rows[id].release}
      BY <3>2 DEF QuietRows
    <3>4. CASE i < at'[j] => i < at[j]
      <4>1. Plan[i].kind = "dataset" /\ id \notin lagged /\ i < at[j] => rows[id].columns = release[j]
        BY <2>1, <3>1 DEF AtRelease
      <4>2. id \in lagged => id \in lagged' \/ rows'[id].columns = release[j]
        BY <3>2
      <4> HIDE DEF id
      <4>3. Plan[i].kind = "dataset" /\ id \notin lagged' /\ i < at'[j] => rows'[id].columns = release[j]
        BY <3>2, <3>3, <3>4, <4>1, <4>2
      <4>4. QED
        BY <3>3, <4>3 DEF id
    <3>5. CASE id \in lagged' \/ rows'[id].columns = rows[id].release
      BY <3>2, <3>3, <3>5
    <3>6. QED
      BY <3>4, <3>5
  <2>4. Converged'
    <3> SUFFICES ASSUME NEW r \in finished, NEW i \in 1..Len(Plan)
                 PROVE  \E k \in 1..Len(rows) :
                          /\ IsRow(rows', k, Plan[i].kind, Plan[i].name)
                          /\ rows'[k].release >= r
                          /\ rows'[k].kind = "dataset" /\ k \notin lagged' => rows'[k].columns >= r
      BY DEF Converged, QuietRows
    <3>1. PICK k \in 1..Len(rows) :
             /\ IsRow(rows, k, Plan[i].kind, Plan[i].name)
             /\ rows[k].release >= r
             /\ rows[k].kind = "dataset" /\ k \notin lagged => rows[k].columns >= r
      BY <2>1 DEF Converged
    <3>2. QED
      BY <1>2, <3>1 DEF QuietRows
  <2>5. ChartsBehind'
    BY <2>1 DEF ChartsBehind, QuietRows
  <2>6. QED
    BY <2>2, <2>3, <2>4, <2>5
<1>6. QED
  BY <1>3, <1>4, <1>5 DEF ReleaseInv, SerialRelease

\* A job starts with a release no older than any other.
LEMMA StartRelease ==
  ASSUME Inv, ReleaseInv, SerialRelease, NEW j \in Jobs, NEW v \in Releases, Start(j, v)
  PROVE  ReleaseInv' /\ SerialRelease'
<1> USE DEF Inv
<1>1. /\ phase' = [phase EXCEPT ![j] = "ddl"] /\ at' = [at EXCEPT ![j] = 1]
      /\ release' = [release EXCEPT ![j] = v]
      /\ serial' = (serial /\ \A k \in Jobs : phase[k] = "down")
      /\ UNCHANGED <<rows, finished, lagged>>
      /\ \A u \in Jobs : release[u] <= v
  BY DEF Start
<1>2. v \in Nat /\ \A u \in Jobs : release[u] \in Nat
  BY ReleaseAssumption DEF TypeOK
<1>3. release'[j] = v /\ \A u \in Jobs : release'[u] <= v
  BY <1>1, <1>2 DEF TypeOK
<1>4. \A k \in 1..Len(rows) : rows[k].release \in Nat
  BY RowsFacts DEF Row
<1>5. \A r \in Nat : Carried(r) => Carried(r)'
  BY <1>1, <1>2, <1>3 DEF Carried
<1>6. PlanRows' /\ Bounded'
  BY <1>1, <1>4, <1>5 DEF ReleaseInv, PlanRows, Bounded
<1>7. ASSUME serial'
      PROVE  Newest' /\ AtRelease' /\ Converged' /\ ChartsBehind'
  <2>1. Newest /\ AtRelease /\ Converged /\ ChartsBehind /\ \A u \in Jobs : u # j => phase'[u] = "down"
    BY <1>1, <1>7 DEF SerialRelease, TypeOK
  <2>2. Newest'
    BY <1>3, <2>1 DEF Newest
  <2>3. phase'[j] = "ddl" /\ at'[j] = 1
    BY <1>1 DEF TypeOK
  <2>4. \A i \in 1..Len(Plan) : ~(i < 1)
    <3>1. Len(Plan) \in Nat
      BY PlanFacts
    <3> DEFINE n == Len(Plan)
    <3> HIDE DEF n
    <3>2. \A i \in 1..n : ~(i < 1)
      BY <3>1 DEF n
    <3>3. QED
      BY <3>2 DEF n
  <2>5. \A u \in Jobs : \A i \in 1..Len(Plan) : ~Behind(u, i)'
    BY <2>1, <2>3, <2>4 DEF Behind
  <2>6. AtRelease'
    BY <2>5 DEF AtRelease
  <2>7. Converged' /\ ChartsBehind'
    BY <1>1, <2>1 DEF Converged, ChartsBehind
  <2>8. QED
    BY <2>2, <2>6, <2>7
<1>8. QED
  BY <1>6, <1>7 DEF ReleaseInv, SerialRelease

\* What Advance records: the last object finishes the job, and only a dataset
\* is refreshed before the next object.
LEMMA AdvancedHow ==
  ASSUME TypeOK, NEW j \in Jobs, NEW id, Advance(j, id), phase[j] = "commit"
  PROVE  /\ UNCHANGED <<lagged, release, serial>>
         /\ \A u \in Jobs \ {j} : phase'[u] = phase[u] /\ at'[u] = at[u] /\ ids'[u] = ids[u]
         /\ \A i \in 1..Len(Plan) : i # at[j] => ids'[j][Plan[i].name] = ids[j][Plan[i].name]
         /\ ids'[j][Plan[at[j]].name] = id
         /\ \/ phase'[j] = "down" /\ at[j] = Len(Plan) /\ finished' = finished \cup {release[j]}
            \/ phase'[j] = "refresh" /\ at'[j] = at[j] /\ finished' = finished
            \/ phase'[j] = "query" /\ at'[j] = at[j] + 1 /\ finished' = finished
               /\ Plan[at[j]].kind # "dataset"
<1>1. at[j] \in 1..Len(Plan) /\ Plan[at[j]].name \in Names
  BY AtFacts
<1>2. \A i \in 1..Len(Plan) : Plan[i].name \in Names /\ (Plan[i].name = Plan[at[j]].name => i = at[j])
  BY <1>1, PlanObjects
<1>3. /\ ids' = [ids EXCEPT ![j][Plan[at[j]].name] = id]
      /\ UNCHANGED <<lagged, release, serial>>
  BY DEF Advance, carried
<1>4. /\ \A i \in 1..Len(Plan) : i # at[j] => ids'[j][Plan[i].name] = ids[j][Plan[i].name]
      /\ ids'[j][Plan[at[j]].name] = id
      /\ \A u \in Jobs \ {j} : ids'[u] = ids[u]
  BY <1>1, <1>2, <1>3 DEF TypeOK
<1>5. CASE at[j] = Len(Plan)
  BY <1>3, <1>4, <1>5 DEF Advance, TypeOK
<1>6. CASE at[j] # Len(Plan) /\ Refreshes(j)
  BY <1>3, <1>4, <1>6 DEF Advance, TypeOK
<1>7. CASE at[j] # Len(Plan) /\ ~Refreshes(j)
  <2>1. phase' = [phase EXCEPT ![j] = "query"] /\ at' = [at EXCEPT ![j] = at[j] + 1] /\ finished' = finished
    BY <1>7 DEF Advance, NextObject
  <2>2. Plan[at[j]].kind # "dataset"
    BY <1>7 DEF Refreshes
  <2>3. QED
    BY <1>3, <1>4, <2>1, <2>2 DEF TypeOK
<1>8. QED
  BY <1>5, <1>6, <1>7

\* A commit writes the job's release.
LEMMA CommitRelease ==
  ASSUME Inv, SerialInv, ReleaseInv, SerialRelease,
         NEW j \in Jobs, NEW id \in Nat, NEW c \in Nat, CommitOf(j, id, c)
  PROVE  ReleaseInv' /\ SerialRelease'
<1> USE DEF Inv
<1> DEFINE o == Plan[at[j]]
<1>1. /\ phase[j] = "commit" /\ rows' \in Seq(Row) /\ Len(rows) <= Len(rows') /\ id \in 1..Len(rows')
      /\ \A k \in 1..Len(rows) : k # id => rows'[k] = rows[k]
      /\ \A k \in 1..Len(rows') : k \in 1..Len(rows) \/ k = id
      /\ id \in 1..Len(rows) => IsRow(rows, id, o.kind, o.name) /\ c = rows[id].columns
  BY DEF CommitOf
<1>2. rows'[id].release = release[j] /\ rows'[id].columns = c
  <2>1. Written(j, c).release = release[j] /\ Written(j, c).columns = c
    BY DEF Written
  <2>2. QED
    BY <2>1 DEF CommitOf
<1>3. /\ \A k, kind, name : IsRow(rows, k, kind, name) => IsRow(rows', k, kind, name)
      /\ IsRow(rows', id, o.kind, o.name)
      /\ \A k \in 1..Len(rows) : rows'[k].kind = rows[k].kind /\ rows'[k].name = rows[k].name
  BY CommitKeeps
<1>4. /\ UNCHANGED <<lagged, release, serial>>
      /\ \A u \in Jobs \ {j} : phase'[u] = phase[u] /\ at'[u] = at[u] /\ ids'[u] = ids[u]
      /\ \A i \in 1..Len(Plan) : i # at[j] => ids'[j][Plan[i].name] = ids[j][Plan[i].name]
      /\ ids'[j][o.name] = id
  BY AdvancedHow DEF CommitOf
<1>5. \/ phase'[j] = "down" /\ at[j] = Len(Plan) /\ finished' = finished \cup {release[j]}
      \/ phase'[j] = "refresh" /\ at'[j] = at[j] /\ finished' = finished
      \/ phase'[j] = "query" /\ at'[j] = at[j] + 1 /\ finished' = finished /\ o.kind # "dataset"
  BY AdvancedHow DEF CommitOf
<1>6. /\ at[j] \in 1..Len(Plan) /\ at[j] \in Nat /\ o.kind \in Kinds /\ Len(Plan) \in Nat
      /\ \A i \in 1..Len(Plan) : i \in Nat /\ (Plan[i].name = o.name => i = at[j])
      /\ o.kind = "dashboard" <=> at[j] = Len(Plan)
  <2>1. at[j] \in 1..Len(Plan) /\ at[j] \in Nat /\ o.kind \in Kinds /\ Len(Plan) \in Nat
    BY AtFacts, PlanFacts
  <2>2. \A i \in 1..Len(Plan) : i \in Nat
    BY <2>1
  <2>3. QED
    BY <2>1, <2>2, PlanObjects, PlanFacts
<1>7. release[j] \in Nat /\ Len(rows) \in Nat /\ \A k \in 1..Len(rows) : rows[k].release \in Nat
  BY RowsFacts DEF TypeOK, Row
<1> HIDE DEF o
<1>8. PlanRows'
  <2> SUFFICES ASSUME NEW k \in 1..Len(rows')
               PROVE  \E i \in 1..Len(Plan) : IsRow(rows', k, Plan[i].kind, Plan[i].name)
    BY DEF PlanRows
  <2>1. CASE k = id
    BY <1>3, <1>6, <2>1 DEF o
  <2>2. CASE k # id
    <3>1. PICK i \in 1..Len(Plan) : IsRow(rows, k, Plan[i].kind, Plan[i].name)
      BY <1>1, <2>2 DEF ReleaseInv, PlanRows
    <3>2. QED
      BY <1>3, <3>1
  <2>3. QED
    BY <2>1, <2>2
<1>9. Bounded'
  <2>1. Carried(release[j])
    BY <1>7 DEF Carried
  <2>2. \A r : Carried(r) => Carried(r)'
    BY <1>4 DEF Carried
  <2>3. \A k \in 1..Len(rows') : Carried(rows'[k].release)
    BY <1>1, <1>2, <2>1 DEF ReleaseInv, Bounded
  <2>4. finished' \subseteq Nat /\ \A r \in finished' : Carried(r)
    BY <1>5, <1>7, <2>1 DEF ReleaseInv, Bounded
  <2>5. QED
    BY <1>4, <2>3, <2>4 DEF Bounded, Carried
<1>10. ASSUME serial'
       PROVE  Newest' /\ AtRelease' /\ Converged' /\ ChartsBehind'
  <2>1. /\ Newest /\ AtRelease /\ Converged /\ ChartsBehind
        /\ Alone /\ Distinct
    BY <1>4, <1>10 DEF SerialRelease, SerialInv
  <2>2. \A u \in Jobs : u # j => phase[u] = "down" /\ phase'[u] = "down"
    BY <1>1, <1>4, <2>1 DEF Alone
  <2>3. \A u \in Jobs : release[u] <= release[j] /\ release[u] \in Nat
    BY <1>1, <2>1 DEF Newest, TypeOK
  <2>4. \A r \in Nat : Carried(r) => r <= release[j]
    BY <1>7, <2>3 DEF Carried
  <2>5. Newest'
    BY <1>4, <2>2, <2>3 DEF Newest
  <2>6. ASSUME NEW i \in 1..Len(Plan), i < at[j]
        PROVE  LET k == ids[j][Plan[i].name] IN
               /\ k # id /\ k \in 1..Len(rows) /\ rows'[k] = rows[k]
               /\ IsRow(rows, k, Plan[i].kind, Plan[i].name)
               /\ rows[k].release = release[j]
               /\ Plan[i].kind = "dataset" /\ k \notin lagged => rows[k].columns = release[j]
    <3> DEFINE k == ids[j][Plan[i].name]
    <3>1. Behind(j, i)
      BY <1>1, <2>6 DEF Behind
    <3>2. IsRow(rows, k, Plan[i].kind, Plan[i].name) /\ k \in 1..Len(rows)
      BY <3>1 DEF Collected, IsRow
    <3>3. /\ rows[k].release = release[j]
          /\ Plan[i].kind = "dataset" /\ k \notin lagged => rows[k].columns = release[j]
      BY <2>1, <2>6, <3>1 DEF AtRelease
    <3>4. i # at[j]
      BY <1>6, <2>6
    <3>5. k # id
      <4>1. rows'[k].name = Plan[i].name
        BY <1>3, <3>2 DEF IsRow
      <4>2. rows'[id].name = o.name
        BY <1>3 DEF IsRow
      <4>3. Plan[i].name # o.name
        BY <1>6, <3>4
      <4>4. QED
        BY <4>1, <4>2, <4>3
    <3> HIDE DEF k
    <3>6. rows'[k] = rows[k]
      BY <1>1, <3>2, <3>5
    <3>7. QED
      BY <3>2, <3>3, <3>5, <3>6 DEF k
  <2>7. AtRelease'
    <3> SUFFICES ASSUME NEW i \in 1..Len(Plan), phase'[j] # "down",
                        i < at'[j] \/ (phase'[j] = "refresh" /\ i = at'[j])
                 PROVE  LET row == rows'[ids'[j][Plan[i].name]] IN
                        /\ row.release = release[j]
                        /\ Plan[i].kind = "dataset" /\ ids'[j][Plan[i].name] \notin lagged /\ i < at'[j]
                             => row.columns = release[j]
      BY <1>4, <2>2 DEF AtRelease, Behind
    <3>1. i < at[j] \/ i = at[j]
      <4>1. i \in Nat
        BY <1>6
      <4>2. QED
        BY <1>5, <1>6, <4>1
    <3>2. CASE i = at[j]
      <4>1. ids'[j][Plan[i].name] = id
        BY <1>4, <3>2 DEF o
      <4>2. i < at'[j] => Plan[i].kind # "dataset"
        BY <1>5, <1>6, <3>2 DEF o
      <4>3. QED
        BY <1>2, <4>1, <4>2
    <3>3. CASE i < at[j]
      <4>1. ids'[j][Plan[i].name] = ids[j][Plan[i].name]
        BY <1>4, <1>6, <3>3
      <4>2. QED
        BY <2>6, <3>3, <4>1
    <3>4. QED
      BY <3>1, <3>2, <3>3
  <2>8. Converged'
    <3> SUFFICES ASSUME NEW r \in finished', NEW i \in 1..Len(Plan)
                 PROVE  \E k \in 1..Len(rows') :
                          /\ IsRow(rows', k, Plan[i].kind, Plan[i].name)
                          /\ rows'[k].release >= r
                          /\ rows'[k].kind = "dataset" /\ k \notin lagged => rows'[k].columns >= r
      BY <1>4 DEF Converged
    <3>1. CASE r \in finished
      <4>1. PICK k \in 1..Len(rows) :
               /\ IsRow(rows, k, Plan[i].kind, Plan[i].name)
               /\ rows[k].release >= r
               /\ rows[k].kind = "dataset" /\ k \notin lagged => rows[k].columns >= r
        BY <2>1, <3>1 DEF Converged
      <4>2. r <= release[j] /\ r \in Nat
        BY <2>4, <3>1 DEF ReleaseInv, Bounded
      <4>3. k \in 1..Len(rows') /\ IsRow(rows', k, Plan[i].kind, Plan[i].name)
        BY <1>3, <4>1 DEF IsRow
      <4>4. CASE k = id
        BY <1>1, <1>2, <1>3, <1>7, <4>1, <4>2, <4>3, <4>4
      <4>5. CASE k # id
        <5>1. rows'[k] = rows[k]
          BY <1>1, <4>5
        <5>2. QED
          BY <4>1, <4>3, <5>1
      <4>6. QED
        BY <4>4, <4>5
    <3>2. CASE r \notin finished
      <4>1. r = release[j] /\ at[j] = Len(Plan) /\ o.kind = "dashboard"
        BY <1>5, <1>6, <3>2
      <4>2. CASE i = at[j]
        <5>1. IsRow(rows', id, Plan[i].kind, Plan[i].name) /\ rows'[id].kind = "dashboard"
          BY <1>3, <4>1, <4>2 DEF o, IsRow
        <5>2. QED
          BY <1>1, <1>2, <1>7, <4>1, <5>1
      <4>3. CASE i # at[j]
        <5>1. i < at[j]
          BY <1>6, <4>1, <4>3
        <5> DEFINE k == ids[j][Plan[i].name]
        <5>2. /\ k \in 1..Len(rows) /\ rows'[k] = rows[k]
              /\ IsRow(rows, k, Plan[i].kind, Plan[i].name)
              /\ rows[k].release = release[j]
              /\ Plan[i].kind = "dataset" /\ k \notin lagged => rows[k].columns = release[j]
          BY <2>6, <5>1
        <5> HIDE DEF k
        <5>3. k \in 1..Len(rows') /\ IsRow(rows', k, Plan[i].kind, Plan[i].name)
          BY <1>3, <5>2 DEF IsRow
        <5>4. rows[k].kind = Plan[i].kind
          BY <5>2 DEF IsRow
        <5>5. QED
          BY <1>7, <4>1, <5>2, <5>3, <5>4
      <4>4. QED
        BY <4>2, <4>3
    <3>3. QED
      BY <3>1, <3>2
  <2>9. ChartsBehind'
    <3> SUFFICES ASSUME NEW x \in 1..Len(rows'), NEW d \in 1..Len(rows'),
                        rows'[x].kind = "chart", rows'[d].kind = "dataset"
                 PROVE  rows'[x].release <= rows'[d].release
      BY DEF ChartsBehind
    <3>1. x # d
      OBVIOUS
    <3>2. CASE x = id
      <4>1. d \in 1..Len(rows) /\ rows'[d] = rows[d] /\ o.kind = "chart"
        BY <1>1, <1>3, <3>1, <3>2 DEF IsRow
      <4>2. PICK i \in 1..Len(Plan) : IsRow(rows, d, Plan[i].kind, Plan[i].name)
        BY <4>1 DEF ReleaseInv, PlanRows
      <4>3. i < at[j]
        <5>1. Plan[i].kind = "dataset"
          BY <4>1, <4>2 DEF IsRow
        <5>2. QED
          BY <1>6, <4>1, <5>1, PlanInOrder DEF InOrder, o
      <4> DEFINE k == ids[j][Plan[i].name]
      <4>4. k \in 1..Len(rows) /\ IsRow(rows, k, Plan[i].kind, Plan[i].name) /\ rows[k].release = release[j]
        BY <2>6, <4>3
      <4> HIDE DEF k
      <4>5. d = k
        BY <2>1, <4>1, <4>2, <4>4 DEF IsRow, Distinct
      <4>6. QED
        BY <1>2, <1>7, <3>2, <4>1, <4>4, <4>5
    <3>3. CASE d = id
      <4>1. x \in 1..Len(rows) /\ rows'[x] = rows[x]
        BY <1>1, <3>1, <3>3
      <4>2. rows[x].release <= release[j]
        BY <1>7, <2>4, <4>1 DEF ReleaseInv, Bounded
      <4>3. QED
        BY <1>2, <3>3, <4>1, <4>2
    <3>4. CASE x # id /\ d # id
      BY <1>1, <2>1, <3>4 DEF ChartsBehind
    <3>5. QED
      BY <3>2, <3>3, <3>4
  <2>10. QED
    BY <2>5, <2>7, <2>8, <2>9
<1>11. QED
  BY <1>8, <1>9, <1>10 DEF ReleaseInv, SerialRelease

\* Every step keeps releases where they should be.
LEMMA StepRelease ==
  ASSUME Inv, SerialInv, ReleaseInv, SerialRelease, [Next]_vars
  PROVE  ReleaseInv' /\ SerialRelease'
<1> USE DEF Inv
<1>0. rows' = rows => QuietRows
  BY DEF QuietRows
<1>1. ASSUME NEW j \in Jobs, RunDdl(j) \/ Query(j) \/ Fail(j)
      PROVE  ReleaseInv' /\ SerialRelease'
  <2>1. /\ UNCHANGED <<rows, at, ids, release, finished, lagged, serial>>
        /\ phase[j] # "down" /\ phase'[j] \in {"down", "query", "commit"}
        /\ \A u \in Jobs \ {j} : phase'[u] = phase[u]
    BY <1>1 DEF RunDdl, Query, Fail, carried, TypeOK
  <2>2. /\ \A u \in Jobs : phase'[u] # "down" => phase[u] # "down"
        /\ \A u \in Jobs : \A i \in 1..Len(Plan) : Behind(u, i)' => Behind(u, i)
    BY <2>1 DEF Behind
  <2>3. QED
    BY <1>0, <2>1, <2>2, QuietRelease
<1>2. ASSUME NEW j \in Jobs, RefreshColumns(j) \/ RefreshFails(j)
      PROVE  ReleaseInv' /\ SerialRelease'
  <2> DEFINE id == ids[j][Plan[at[j]].name]
  <2>1. /\ phase[j] = "refresh" /\ phase'[j] = "query" /\ at'[j] = at[j] + 1 /\ at[j] \in 1..Len(Plan)
        /\ UNCHANGED <<ids, release, finished, serial>> 
        /\ \A u \in Jobs \ {j} : phase'[u] = phase[u] /\ at'[u] = at[u]
    BY <1>2, AtFacts DEF RefreshColumns, RefreshFails, NextObject, carried, TypeOK
  <2>2. /\ QuietRows
        /\ id \in lagged' \/ rows'[id].columns = rows[id].release
        /\ \A k \in lagged : k = id \/ k \in lagged'
    <3>1. CASE RefreshFails(j)
      <4>1. rows' = rows /\ lagged' = lagged \cup {id}
        BY <3>1 DEF RefreshFails
      <4>2. QED
        BY <1>0, <4>1
    <3>2. CASE RefreshColumns(j)
      <4>1. id \in 1..Len(rows)
        BY <2>1 DEF Collected, Behind, IsRow
      <4>2. Len(rows) \in Nat /\ DOMAIN rows = 1..Len(rows) /\ \A i \in 1..Len(rows) : rows[i] \in Row
        BY RowsFacts
      <4>3. /\ rows' = [rows EXCEPT ![id] = [rows[id] EXCEPT !.columns = rows[id].release]]
            /\ lagged' = lagged \ {id}
        BY <3>2 DEF RefreshColumns
      <4>4. Len(rows') = Len(rows)
        BY <3>2, RefreshStays DEF RowsStay
      <4> HIDE DEF id
      <4> DEFINE w == [rows[id] EXCEPT !.columns = rows[id].release]
      <4>5. /\ w.kind = rows[id].kind /\ w.name = rows[id].name
            /\ w.release = rows[id].release /\ w.columns = rows[id].release
        BY <4>1, <4>2 DEF Row
      <4> HIDE DEF w
      <4>6. rows' = [rows EXCEPT ![id] = w]
        BY <4>3 DEF w
      <4>7. \A k \in 1..Len(rows) : rows'[k] = IF k = id THEN w ELSE rows[k]
        BY <4>1, <4>2, <4>6
      <4>8. QED
        BY <4>1, <4>3, <4>4, <4>5, <4>7 DEF QuietRows
    <3>3. QED
      BY <1>2, <3>1, <3>2
  <2>3. \A u \in Jobs : phase'[u] # "down" => phase[u] # "down"
    BY <2>1
  <2>4. ASSUME NEW u \in Jobs, NEW i \in 1..Len(Plan), Behind(u, i)'
        PROVE  /\ Behind(u, i)
               /\ \/ i < at'[u] => i < at[u]
                  \/ LET k == ids[u][Plan[i].name] IN
                     k \in lagged' \/ rows'[k].columns = rows[k].release
    <3>1. CASE u # j
      BY <2>1, <2>4, <3>1 DEF Behind
    <3>2. CASE u = j
      <4>1. i \in Nat /\ at[j] \in Nat
        <5>1. Len(Plan) \in Nat
          BY PlanFacts
        <5>2. QED
          BY <2>1, <5>1
      <4>2. i < at[j] \/ i = at[j]
        BY <2>1, <2>4, <3>2, <4>1 DEF Behind
      <4>3. QED
        BY <2>1, <2>2, <3>2, <4>2 DEF Behind
    <3>3. QED
      BY <3>1, <3>2
  <2> HIDE DEF id
  <2>5. QED
    BY <2>1, <2>2, <2>3, <2>4, QuietRelease
<1>3. ASSUME NEW j \in Jobs, Update(j) \/ Insert(j)
      PROVE  ReleaseInv' /\ SerialRelease'
  BY <1>3, UpdateCommits, InsertCommits, CommitRelease
<1>4. CASE UNCHANGED vars
  <2>1. UNCHANGED <<rows, phase, at, ids, release, finished, lagged, serial>>
    BY <1>4 DEF vars, carried
  <2>2. \A u \in Jobs : \A i \in 1..Len(Plan) : Behind(u, i)' => Behind(u, i)
    BY <2>1 DEF Behind
  <2>3. QED
    BY <1>0, <2>1, <2>2, QuietRelease
<1>5. QED
  BY <1>1, <1>2, <1>3, <1>4, StartRelease DEF Next, Step, AllDown

LEMMA ReleaseIsInvariant == Spec => [](Inv /\ ReleaseInv /\ SerialRelease)
<1>1. Init => Inv /\ SerialInv /\ ReleaseInv /\ SerialRelease
  BY InitInv, InitRelease
<1>2. Inv /\ SerialInv /\ ReleaseInv /\ SerialRelease /\ [Next]_vars
        => (Inv /\ SerialInv /\ ReleaseInv /\ SerialRelease)'
  BY StepInv, StepRelease
<1>3. QED
  BY <1>1, <1>2, PTL DEF Spec

\* Without overlaps no chart is of a newer release than a dataset, however many
\* upgrades died half way.
THEOREM ChartsWaitForDatasets == Spec => []SerialChartsNotAhead
<1>1. Inv /\ SerialRelease => SerialChartsNotAhead
  <2>1. Inv => DOMAIN rows = 1..Len(rows)
    BY RowsFacts DEF Inv
  <2>2. QED
    BY <2>1 DEF SerialRelease, ChartsBehind, SerialChartsNotAhead
<1>2. QED
  BY <1>1, ReleaseIsInvariant, PTL

\* Without overlaps a job that exits 0 has brought every object to its release,
\* the columns of a dataset included unless its latest refresh failed, and no
\* later job takes it back.
THEOREM RerunsConverge == Spec => []SerialConverges
<1>1. Inv /\ SerialRelease => SerialConverges
  <2> SUFFICES ASSUME Inv, Converged, NEW r \in finished, NEW i \in DOMAIN Plan
               PROVE  \E k \in Matching(Plan[i]) :
                        /\ rows[k].release >= r
                        /\ rows[k].kind = "dataset" /\ k \notin lagged => rows[k].columns >= r
    BY DEF SerialRelease, SerialConverges
  <2>1. i \in 1..Len(Plan)
    BY PlanFacts
  <2>2. PICK k \in 1..Len(rows) :
           /\ IsRow(rows, k, Plan[i].kind, Plan[i].name)
           /\ rows[k].release >= r
           /\ rows[k].kind = "dataset" /\ k \notin lagged => rows[k].columns >= r
    BY <2>1 DEF Converged
  <2>3. k \in Matching(Plan[i])
    BY <2>2, RowsFacts DEF Matching, IsRow, Inv
  <2>4. QED
    BY <2>2, <2>3
<1>2. QED
  BY <1>1, ReleaseIsInvariant, PTL
=============================================================================
