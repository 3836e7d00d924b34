--------------------------- MODULE ListenerProofs ---------------------------
(* Theorems about Listener, for any identities, any depth of nesting, any   *)
(* number of runs of one instance and any hooks that raise.                 *)
EXTENDS Listener, SequenceTheorems, FiniteSetTheorems, TLAPS

Hooks == Kind \cup {"run"}
Item == [kind : Kind, id : Ids, began : Nat, before : Nat, stamped : SUBSET Hooks]
Result == [ended : Status, told : BOOLEAN, now : Status]

TypeOK ==
  /\ open \in Seq(Item)
  /\ results \in Seq(Result)
  /\ calls \in Nat
  /\ keyword_events \in BOOLEAN
  /\ _suite_depth \in Int
  /\ _run_started_ns \in Nat \cup {None}
  /\ started \in [Kind -> [Ids -> Nat \cup {None}]]
  /\ runs \in Nat
  /\ runStarts \in Nat
  /\ runEnds \in Nat

-----------------------------------------------------------------------------
(* The depth.                                                               *)

\* Suites hold everything else: the open ones come first.
SuitesFirst ==
  /\ open # <<>> => open[1].kind = "suite"
  /\ \A i, j \in 1..Len(open) : i < j /\ open[j].kind = "suite" => open[i].kind = "suite"

\* The listener's depth is the number of open suites; once on_suite_end raised
\* it is more than that.
DepthCounts ==
  /\ "depth" \notin slips =>
       /\ _suite_depth \in 0..Len(open)
       /\ \A i \in 1..Len(open) : open[i].kind = "suite" <=> i <= _suite_depth
  /\ "depth" \in slips =>
       /\ _suite_depth >= 1
       /\ \A i \in 1..Len(open) : open[i].kind = "suite" => i < _suite_depth

\* The run's stamp is its outermost suite's beginning, if on_run_start got to
\* it; otherwise there is none.
RunStamped ==
  "depth" \notin slips /\ open # <<>> =>
    IF "run" \in open[1].stamped THEN _run_started_ns = open[1].began
                                 ELSE OneSlip => _run_started_ns = None

NoRunStampLeft == slips \cap {"pop", "depth"} = {} /\ _run_started_ns # None => open # <<>>

DepthInv == SuitesFirst /\ DepthCounts /\ RunStamped /\ NoRunStampLeft /\ RunEventsOnce

-----------------------------------------------------------------------------
(* The stamps.                                                              *)

Past ==
  /\ \A j \in 1..Len(open) : open[j].began < Now
  /\ \A k \in Kind, i \in Ids : started[k][i] # None => started[k][i] < Now

Same(j, kind, id) == open[j].kind = kind /\ open[j].id = id

Innermost(j, kind, id) ==
  Same(j, kind, id) /\ \A n \in 1..Len(open) : Same(n, kind, id) => n <= j

\* A stamp kept under the kind and identity of something open is that of the
\* innermost such item ...
StampsMatch ==
  OneSlip => \A k \in Kind, i \in Ids : \A j \in 1..Len(open) :
    Innermost(j, k, i) /\ started[k][i] # None =>
      started[k][i] = open[j].began /\ k \in open[j].stamped

\* ... and there is no other while every end hook takes its stamp away.
StampsOpen ==
  "pop" \notin slips => \A k \in Kind, i \in Ids : started[k][i] # None =>
    \E j \in 1..Len(open) : Same(j, k, i)

NoKeywordStamps == ~keyword_events => \A i \in Ids : started["keyword"][i] = None

\* Items the listener stamps; with keyword_events off keywords are not.
Tracked(kind) == kind = "keyword" => keyword_events

Distinct ==
  "id" \notin slips => \A i, j \in 1..Len(open) :
    i # j /\ open[i].kind = open[j].kind /\ Tracked(open[i].kind) => open[i].id # open[j].id

\* What its start hook stamped, it finds at its end.
Stamped ==
  "id" \notin slips => \A j \in 1..Len(open) :
    open[j].kind \in open[j].stamped => started[open[j].kind][open[j].id] # None

StampInv == Past /\ StampsMatch /\ StampsOpen /\ NoKeywordStamps /\ Distinct /\ Stamped

Inv == TypeOK /\ DepthInv /\ StampInv

-----------------------------------------------------------------------------
(* What the callbacks do to the nesting.                                    *)

LEMMA PushFacts ==
  ASSUME TypeOK, NEW k \in Kind, NEW i \in Ids, NEW s \in SUBSET Hooks, Push(k, i, s)
  PROVE  /\ open' \in Seq(Item)
         /\ Len(open) \in Nat
         /\ Len(open') = Len(open) + 1
         /\ \A j \in 1..Len(open) : open'[j] = open[j]
         /\ open'[Len(open) + 1].kind = k
         /\ open'[Len(open) + 1].id = i
         /\ open'[Len(open) + 1].began = Now
         /\ open'[Len(open) + 1].stamped = s
         /\ open' # <<>>
<1> DEFINE e == [kind |-> k, id |-> i, began |-> Now, before |-> Len(results), stamped |-> s]
<1>1. e \in Item /\ e.kind = k /\ e.id = i /\ e.began = Now /\ e.stamped = s
  BY DEF TypeOK, Item, Now
<1>2. open \in Seq(Item) /\ open' = Append(open, e)
  BY DEF TypeOK, Push
<1> HIDE DEF e
<1>3. /\ open' \in Seq(Item) /\ Len(open') = Len(open) + 1 /\ Len(open) \in Nat
      /\ \A j \in 1..Len(open) : open'[j] = open[j]
      /\ open'[Len(open) + 1] = e
  BY <1>1, <1>2, AppendProperties
<1>4. open' # <<>>
  BY <1>1, <1>2
<1>5. QED
  BY <1>1, <1>3, <1>4

LEMMA PopFacts ==
  ASSUME TypeOK, open # <<>>, Pop
  PROVE  /\ open' \in Seq(Item)
         /\ Len(open) \in Nat \ {0}
         /\ Len(open') = Len(open) - 1
         /\ \A j \in 1..(Len(open) - 1) : open'[j] = open[j]
         /\ open' # <<>> <=> Len(open) > 1
<1> DEFINE n == Len(open) - 1
<1>1. open \in Seq(Item) /\ Len(open) \in Nat \ {0} /\ n \in Nat
  BY DEF TypeOK
<1>2. \A j \in 1..n : open[j] \in Item
  BY <1>1
<1>3. open' = SubSeq(open, 1, n)
  BY DEF Pop
<1> HIDE DEF n
<1>4. /\ open' \in Seq(Item) /\ Len(open') = IF 1 <= n THEN n - 1 + 1 ELSE 0
      /\ \A j \in 1..(n - 1 + 1) : open'[j] = open[1 + j - 1]
  BY <1>1, <1>2, <1>3, SubSeqProperties
<1>5. Len(open') = n /\ \A j \in 1..n : open'[j] = open[j]
  BY <1>1, <1>4
<1>6. open' # <<>> <=> Len(open') > 0
  BY <1>4
<1>7. QED
  BY <1>1, <1>4, <1>5, <1>6 DEF n

\* The innermost item, when there is one.
LEMMA TopFacts ==
  ASSUME TypeOK, open # <<>>
  PROVE  /\ Len(open) \in Nat \ {0} /\ Top = open[Len(open)] /\ Top \in Item
         /\ Len(open) \in 1..Len(open)
         /\ \A j \in 1..Len(open) : open[j] \in Item
<1>1. open \in Seq(Item) /\ Len(open) \in Nat \ {0}
  BY DEF TypeOK
<1>2. \A j \in 1..Len(open) : open[j] \in Item
  BY <1>1
<1>3. QED
  BY <1>1, <1>2 DEF Top

LEMMA StampFacts ==
  ASSUME TypeOK, NEW k \in Kind, NEW i \in Ids, NEW ns \in Nat \cup {None}, Stamp(k, i, ns)
  PROVE  /\ started' \in [Kind -> [Ids -> Nat \cup {None}]]
         /\ started'[k][i] = ns
         /\ \A m \in Kind, n \in Ids : m # k \/ n # i => started'[m][n] = started[m][n]
BY DEF TypeOK, Stamp

\* Robot's tree stays well-formed.
LEMMA RewrittenFacts ==
  ASSUME TypeOK, NEW teardown \in Teardown
  PROVE  /\ Rewritten(teardown) \in Seq(Result)
         /\ DOMAIN Rewritten(teardown) = DOMAIN results
         /\ \A i \in DOMAIN results :
              /\ Rewritten(teardown)[i].ended = results[i].ended
              /\ Rewritten(teardown)[i].told = results[i].told
              /\ Rewritten(teardown)[i].now \in {results[i].now, "FAIL", "SKIP"}
<1>1. /\ Len(results) \in Nat /\ DOMAIN results = 1..Len(results)
      /\ \A i \in DOMAIN results : results[i] \in Result
  BY DEF TypeOK
<1> DEFINE r == Rewritten(teardown)
<1>2. DOMAIN r = DOMAIN results
  BY DEF Rewritten
<1>3. ASSUME NEW i \in DOMAIN results
      PROVE  /\ r[i] \in Result /\ r[i].ended = results[i].ended /\ r[i].told = results[i].told
             /\ r[i].now \in {results[i].now, "FAIL", "SKIP"}
  <2> DEFINE s == Override(results[i].now, teardown)
  <2>1. results[i] \in Result /\ results[i].now \in Status
    BY <1>1, <1>3 DEF Result
  <2>2. s \in Status /\ s \in {results[i].now, "FAIL", "SKIP"}
    BY <2>1 DEF Override, Status
  <2> HIDE DEF s
  <2>3. r[i] = results[i] \/ r[i] = [results[i] EXCEPT !.now = s]
    BY <1>3 DEF Rewritten, s
  <2> HIDE DEF r
  <2>4. CASE r[i] = results[i]
    BY <2>1, <2>4 DEF Result
  <2>5. CASE r[i] = [results[i] EXCEPT !.now = s]
    BY <2>1, <2>2, <2>5 DEF Result
  <2>6. QED
    BY <2>3, <2>4, <2>5
<1> HIDE DEF r
<1>4. r \in Seq(Result)
  <2>1. r \in [1..Len(results) -> Result]
    <3>1. r = [i \in DOMAIN results |-> r[i]]
      BY <1>2 DEF r, Rewritten
    <3>2. QED
      BY <1>1, <1>3, <3>1
  <2>2. QED
    BY <1>1, <2>1, SeqDef
<1>5. QED
  BY <1>2, <1>3, <1>4 DEF r

-----------------------------------------------------------------------------
(* Type correctness.                                                        *)

LEMMA InitInv == Init => Inv
<1> SUFFICES ASSUME Init PROVE Inv
  OBVIOUS
<1>1. open = <<>> /\ Len(open) = 0 /\ open \in Seq(Item) /\ results \in Seq(Result)
  BY DEF Init
<1>2. TypeOK
  <2>1. started \in [Kind -> [Ids -> Nat \cup {None}]]
    BY DEF Init
  <2>2. keyword_events \in BOOLEAN
    BY DEF Init
  <2>3. /\ calls \in Nat /\ _suite_depth \in Int /\ _run_started_ns \in Nat \cup {None}
        /\ runs \in Nat /\ runStarts \in Nat /\ runEnds \in Nat
    BY DEF Init
  <2>4. QED
    BY <1>1, <2>1, <2>2, <2>3 DEF TypeOK
<1>3. DepthInv
  BY <1>1 DEF Init, DepthInv, SuitesFirst, DepthCounts, RunStamped, NoRunStampLeft, RunEventsOnce
<1>4. StampInv
  BY <1>1 DEF Init, StampInv, Past, StampsMatch, StampsOpen, NoKeywordStamps, Distinct, Stamped,
    Kind
<1>5. QED
  BY <1>2, <1>3, <1>4 DEF Inv

LEMMA Clock ==
  ASSUME TypeOK
  PROVE  Now \in Nat /\ Later \in Nat /\ Now < Later
BY DEF TypeOK, Now, Later

LEMMA OnlyIfHooks ==
  ASSUME NEW k \in Hooks, NEW happened
  PROVE  OnlyIf(k, happened) \in SUBSET Hooks
BY DEF OnlyIf

\* What the start and end hooks do to the stamps.
LEMMA HookTypes ==
  ASSUME TypeOK, NEW k \in Kind, NEW i \in Ids, NEW how, OnStart(k, i, how) \/ OnEnd(k, i, how)
  PROVE  started' \in [Kind -> [Ids -> Nat \cup {None}]]
<1>1. CASE UNCHANGED started
  BY <1>1 DEF TypeOK
<1>2. CASE Stamp(k, i, Now) \/ Stamp(k, i, None)
  BY <1>2, StampFacts, Clock
<1>3. QED
  BY <1>1, <1>2 DEF OnStart, OnEnd, Unstamp

LEMMA OpenTypes ==
  ASSUME TypeOK, NEW id \in Ids, NEW s \in SUBSET Hooks, OpenSuite(id, s)
  PROVE  /\ open' \in Seq(Item) /\ results' \in Seq(Result) /\ runs' \in Nat
         /\ _suite_depth' \in Int /\ keyword_events' \in BOOLEAN /\ runEnds' \in Nat
<1>1. open' \in Seq(Item)
  BY PushFacts DEF OpenSuite, Kind
<1>2. results' \in Seq(Result)
  BY DEF OpenSuite, TypeOK
<1>3. QED
  BY <1>1, <1>2 DEF OpenSuite, TypeOK

LEMMA CloseTypes ==
  ASSUME TypeOK, NEW teardown \in Teardown, CloseSuite(teardown)
  PROVE  /\ open' \in Seq(Item) /\ results' \in Seq(Result) /\ runs' \in Nat
         /\ runStarts' \in Nat /\ keyword_events' \in BOOLEAN
         /\ open # <<>> /\ Top.kind = "suite" /\ Top.id \in Ids /\ Pop
<1>1. open # <<>> /\ Top.kind = "suite"
  BY DEF CloseSuite, Inside
<1>2. open' \in Seq(Item)
  BY <1>1, PopFacts DEF CloseSuite
<1>3. Top.id \in Ids
  BY <1>1, TopFacts DEF Item
<1>4. results' \in Seq(Result)
  BY RewrittenFacts DEF CloseSuite
<1>5. QED
  BY <1>1, <1>2, <1>3, <1>4 DEF CloseSuite, TypeOK

LEMMA StepTypeOK ==
  ASSUME TypeOK, [Next]_vars
  PROVE  TypeOK'
<1> USE DEF Callback
<1>1. "suite" \in Kind /\ "test" \in Kind /\ "keyword" \in Kind
  BY DEF Kind
<1>2. /\ \A c : OnlyIf("suite", c) \in SUBSET Hooks /\ OnlyIf("test", c) \in SUBSET Hooks
      /\ \A c : OnlyIf("keyword", c) \in SUBSET Hooks /\ OnlyIf("run", c) \in SUBSET Hooks
      /\ \A c : {"run"} \cup OnlyIf("suite", c) \in SUBSET Hooks
      /\ {} \in SUBSET Hooks
  BY OnlyIfHooks DEF Hooks, Kind
<1>3. ASSUME NEW id \in Ids, NEW how \in Outcome, StartSuite(id, how) PROVE TypeOK'
  BY <1>1, <1>2, <1>3, OpenTypes, HookTypes DEF StartSuite, TypeOK
<1>4. ASSUME NEW id \in Ids, NEW how \in Outcome, StartRun(id, how) PROVE TypeOK'
  <2> DEFINE st == {"run"} \cup OnlyIf("suite", Acted(how))
  <2>1. st \in SUBSET Hooks /\ OpenSuite(id, st)
    BY <1>2, <1>4 DEF StartRun
  <2> HIDE DEF st
  <2>2. /\ open' \in Seq(Item) /\ results' \in Seq(Result) /\ runs' \in Nat
        /\ _suite_depth' \in Int /\ keyword_events' \in BOOLEAN /\ runEnds' \in Nat
    BY <2>1, OpenTypes
  <2>3. started' \in [Kind -> [Ids -> Nat \cup {None}]]
    BY <1>1, <1>4, HookTypes DEF StartRun
  <2>4. calls' \in Nat /\ _run_started_ns' \in Nat \cup {None} /\ runStarts' \in Nat
    BY <1>4, Clock DEF StartRun, TypeOK
  <2>5. QED
    BY <2>2, <2>3, <2>4 DEF TypeOK
<1>5. ASSUME NEW id \in Ids, NEW how \in Outcome, StartRunRaises(id, how) PROVE TypeOK'
  <2>1. _run_started_ns' \in Nat \cup {None}
    BY <1>5, Clock DEF StartRunRaises, TypeOK
  <2>2. QED
    BY <1>1, <1>2, <1>5, <2>1, OpenTypes DEF StartRunRaises, TypeOK
<1>6. ASSUME NEW id \in Ids, NEW how \in Outcome, StartTest(id, how) PROVE TypeOK'
  <2>1. open' \in Seq(Item)
    BY <1>1, <1>2, <1>6, PushFacts DEF StartTest
  <2>2. QED
    BY <1>1, <1>6, <2>1, HookTypes DEF StartTest, TypeOK, run
<1>7. ASSUME NEW id \in Ids, NEW how \in Outcome, StartKeyword(id, how) PROVE TypeOK'
  <2>1. open' \in Seq(Item)
    BY <1>1, <1>2, <1>7, PushFacts DEF StartKeyword
  <2>2. QED
    BY <1>1, <1>7, <2>1, HookTypes DEF StartKeyword, TypeOK, run
<1>8. ASSUME NEW teardown \in Teardown, EndSuite(teardown) PROVE TypeOK'
  BY <1>1, <1>8, CloseTypes, HookTypes DEF EndSuite, TypeOK
<1>9. ASSUME NEW teardown \in Teardown, NEW how \in Outcome, EndRun(teardown, how) PROVE TypeOK'
  <2>1. _run_started_ns' \in Nat \cup {None}
    BY <1>9 DEF EndRun, TypeOK
  <2>2. QED
    BY <1>1, <1>9, <2>1, CloseTypes, HookTypes DEF EndRun, TypeOK
<1>10. ASSUME NEW teardown \in Teardown, NEW how \in Outcome, EndSuiteRaises(teardown, how)
       PROVE  TypeOK'
  BY <1>1, <1>10, CloseTypes, HookTypes DEF EndSuiteRaises, TypeOK
<1>11. ASSUME open # <<>> PROVE Top.kind \in Kind /\ Top.id \in Ids
  BY <1>11, TopFacts DEF Item
<1>12. ASSUME NEW status \in Status, NEW how \in Outcome, EndTest(status, how) PROVE TypeOK'
  <2>1. open' \in Seq(Item)
    BY <1>12, PopFacts DEF EndTest, Inside
  <2>2. [ended |-> status, told |-> Told(how), now |-> status] \in Result
    BY DEF Result, Told
  <2>3. results' \in Seq(Result)
    BY <1>12, <2>2, AppendProperties DEF EndTest, TypeOK
  <2>4. QED
    BY <1>1, <1>11, <1>12, <2>1, <2>3, HookTypes DEF EndTest, Inside, TypeOK, run
<1>13. ASSUME NEW how \in Outcome, EndKeyword(how) PROVE TypeOK'
  <2>1. open' \in Seq(Item)
    BY <1>13, PopFacts DEF EndKeyword, Inside
  <2>2. QED
    BY <1>1, <1>11, <1>13, <2>1, HookTypes DEF EndKeyword, Inside, TypeOK, run
<1>14. ASSUME NEW id \in Ids, SkipKeyword(id) PROVE TypeOK'
  <2>1. open' \in Seq(Item)
    BY <1>1, <1>2, <1>14, PushFacts, PopFacts DEF SkipKeyword, Inside
  <2>2. QED
    BY <1>14, <2>1 DEF SkipKeyword, TypeOK, run
<1>15. CASE UNCHANGED vars
  BY <1>15 DEF vars, run, TypeOK
<1>16. QED
  BY <1>3, <1>4, <1>5, <1>6, <1>7, <1>8, <1>9, <1>10, <1>12, <1>13, <1>14, <1>15 DEF Next, Quiet
-----------------------------------------------------------------------------
(* The depth and the run events.                                            *)

\* What has confused the stamps stays on record; a new run forgets only ids.
Kept == slips \subseteq slips' \/ (open = <<>> /\ slips \ {"id"} \subseteq slips')

LEMMA Grows ==
  ASSUME slips \subseteq slips'
  PROVE  OneSlip' => OneSlip
BY DEF OneSlip

\* A callback that opens a test or a keyword.
LEMMA PushInner ==
  ASSUME TypeOK, DepthInv, NEW k \in Kind \ {"suite"}, NEW i \in Ids, NEW s \in SUBSET Hooks,
         Push(k, i, s), open # <<>>, UNCHANGED <<run, runs>>,
         slips \subseteq slips', "depth" \in slips' <=> "depth" \in slips
  PROVE  DepthInv'
<1>1. /\ open' \in Seq(Item) /\ Len(open') = Len(open) + 1
      /\ \A j \in 1..Len(open) : open'[j] = open[j]
      /\ open'[Len(open) + 1].kind = k /\ open' # <<>>
  BY PushFacts
<1>2. Len(open) \in Nat \ {0} /\ \A j \in 1..Len(open') : j \in 1..Len(open) \/ j = Len(open) + 1
  BY <1>1, TopFacts
<1>3. SuitesFirst'
  BY <1>1, <1>2 DEF DepthInv, SuitesFirst
<1>4. DepthCounts'
  <2>1. _suite_depth' = _suite_depth /\ _suite_depth \in Int
    BY DEF run, TypeOK
  <2>2. CASE "depth" \in slips
    BY <1>1, <1>2, <2>1, <2>2 DEF DepthInv, DepthCounts
  <2>3. CASE "depth" \notin slips
    BY <1>1, <1>2, <2>1, <2>3 DEF DepthInv, DepthCounts
  <2>4. QED
    BY <2>2, <2>3
<1>5. RunStamped'
  <2>1. open'[1] = open[1] /\ _run_started_ns' = _run_started_ns
    BY <1>1, <1>2 DEF run
  <2>2. QED
    BY <2>1, Grows DEF DepthInv, RunStamped
<1>6. NoRunStampLeft'
  BY <1>1 DEF NoRunStampLeft
<1>7. RunEventsOnce'
  BY <1>1 DEF DepthInv, RunEventsOnce, run
<1>8. QED
  BY <1>3, <1>4, <1>5, <1>6, <1>7 DEF DepthInv

\* A callback that closes one.
LEMMA PopInner ==
  ASSUME TypeOK, DepthInv, open # <<>>, Top.kind # "suite", Pop, UNCHANGED <<run, runs>>,
         slips \subseteq slips', "depth" \in slips' <=> "depth" \in slips
  PROVE  DepthInv'
<1>1. /\ open' \in Seq(Item) /\ Len(open) \in Nat \ {0} /\ Len(open') = Len(open) - 1
      /\ \A j \in 1..(Len(open) - 1) : open'[j] = open[j]
      /\ open' # <<>> <=> Len(open) > 1
  BY PopFacts
<1>2. open[Len(open)].kind # "suite" /\ Len(open) > 1
  BY <1>1, TopFacts DEF DepthInv, SuitesFirst
<1>3. SuitesFirst'
  BY <1>1, <1>2 DEF DepthInv, SuitesFirst
<1>4. DepthCounts'
  BY <1>1, <1>2 DEF DepthInv, DepthCounts, run, TypeOK
<1>5. RunStamped'
  <2>1. open'[1] = open[1] /\ _run_started_ns' = _run_started_ns
    BY <1>1, <1>2 DEF run
  <2>2. QED
    BY <2>1, Grows DEF DepthInv, RunStamped
<1>6. NoRunStampLeft'
  BY <1>1, <1>2 DEF NoRunStampLeft
<1>7. RunEventsOnce'
  BY <1>1, <1>2 DEF DepthInv, RunEventsOnce, run
<1>8. QED
  BY <1>3, <1>4, <1>5, <1>6, <1>7 DEF DepthInv

\* Where a suite begins or ends, suites are all there is.
LEMMA OnlySuites ==
  ASSUME TypeOK, DepthInv, open # <<>> => Top.kind = "suite"
  PROVE  /\ \A j \in 1..Len(open) : open[j].kind = "suite"
         /\ "depth" \notin slips => _suite_depth = Len(open)
         /\ "depth" \in slips => Len(open) < _suite_depth
<1>1. CASE open = <<>>
  BY <1>1 DEF DepthInv, DepthCounts, TypeOK
<1>2. CASE open # <<>>
  <2>1. Len(open) \in Nat \ {0} /\ open[Len(open)].kind = "suite"
    BY <1>2, TopFacts
  <2>2. \A j \in 1..Len(open) : open[j].kind = "suite"
    BY <2>1 DEF DepthInv, SuitesFirst
  <2>3. Len(open) \in 1..Len(open)
    BY <2>1
  <2>4. "depth" \notin slips => _suite_depth = Len(open)
    BY <2>1, <2>3 DEF DepthInv, DepthCounts, TypeOK
  <2>5. "depth" \in slips => Len(open) < _suite_depth
    BY <2>1, <2>3 DEF DepthInv, DepthCounts, TypeOK
  <2>6. QED
    BY <2>2, <2>4, <2>5
<1>3. QED
  BY <1>1, <1>2

\* A suite opens: the depth is 1 exactly when it is the run, unless on_suite_
\* end had raised.
LEMMA OpenDepth ==
  ASSUME TypeOK, DepthInv, NEW id \in Ids, NEW s \in SUBSET Hooks, OpenSuite(id, s),
         "depth" \in slips' <=> "depth" \in slips
  PROVE  /\ open' \in Seq(Item) /\ Len(open) \in Nat /\ Len(open') = Len(open) + 1
         /\ \A j \in 1..Len(open) : open'[j] = open[j]
         /\ open'[Len(open) + 1].began = Now /\ open'[Len(open) + 1].stamped = s
         /\ open' # <<>> /\ (open = <<>> <=> Len(open) = 0)
         /\ "depth" \notin slips => (_suite_depth' = 1 <=> open = <<>>)
         /\ "depth" \in slips => _suite_depth' # 1
         /\ SuitesFirst' /\ DepthCounts'
<1>1. /\ open' \in Seq(Item) /\ Len(open') = Len(open) + 1
      /\ \A j \in 1..Len(open) : open'[j] = open[j]
      /\ open'[Len(open) + 1].kind = "suite" /\ open'[Len(open) + 1].began = Now
      /\ open'[Len(open) + 1].stamped = s /\ open' # <<>>
  BY PushFacts DEF OpenSuite, Kind
<1>2. /\ Len(open) \in Nat /\ (open = <<>> <=> Len(open) = 0)
      /\ \A j \in 1..Len(open') : j \in 1..Len(open) \/ j = Len(open) + 1
  BY <1>1 DEF TypeOK
<1>3. /\ \A j \in 1..Len(open) : open[j].kind = "suite"
      /\ "depth" \notin slips => _suite_depth = Len(open)
      /\ "depth" \in slips => Len(open) < _suite_depth
  BY OnlySuites DEF OpenSuite, Inside
<1>4. SuitesFirst'
  BY <1>1, <1>2, <1>3 DEF SuitesFirst
<1>5. _suite_depth' = _suite_depth + 1 /\ _suite_depth \in Int
  BY DEF OpenSuite, TypeOK
<1>6. DepthCounts'
  BY <1>1, <1>2, <1>3, <1>5 DEF DepthCounts
<1>7. /\ "depth" \notin slips => (_suite_depth' = 1 <=> open = <<>>)
      /\ "depth" \in slips => _suite_depth' # 1
  BY <1>2, <1>3, <1>5
<1>8. QED
  BY <1>1, <1>2, <1>4, <1>6, <1>7

\* ... and closes.
LEMMA CloseDepth ==
  ASSUME TypeOK, DepthInv, NEW teardown \in Teardown, CloseSuite(teardown)
  PROVE  /\ open' \in Seq(Item) /\ Len(open) \in Nat \ {0} /\ Len(open') = Len(open) - 1
         /\ \A j \in 1..(Len(open) - 1) : open'[j] = open[j]
         /\ open' # <<>> <=> Len(open) > 1
         /\ open # <<>>
         /\ \A j \in 1..Len(open) : open[j].kind = "suite"
         /\ "depth" \notin slips => _suite_depth = Len(open)
         /\ "depth" \in slips => Len(open) < _suite_depth
         /\ _suite_depth \in Int
         /\ SuitesFirst'
<1>1. open # <<>> /\ Top.kind = "suite" /\ Pop
  BY CloseTypes
<1>2. /\ open' \in Seq(Item) /\ Len(open) \in Nat \ {0} /\ Len(open') = Len(open) - 1
      /\ \A j \in 1..(Len(open) - 1) : open'[j] = open[j]
      /\ open' # <<>> <=> Len(open) > 1
  BY <1>1, PopFacts
<1>3. /\ \A j \in 1..Len(open) : open[j].kind = "suite"
      /\ "depth" \notin slips => _suite_depth = Len(open)
      /\ "depth" \in slips => Len(open) < _suite_depth
  BY <1>1, OnlySuites
<1>4. SuitesFirst'
  BY <1>2, <1>3 DEF SuitesFirst
<1>5. QED
  BY <1>1, <1>2, <1>3, <1>4 DEF TypeOK

LEMMA StepDepth ==
  ASSUME TypeOK, DepthInv, [Next]_vars
  PROVE  DepthInv'
<1>1. /\ \A c : OnlyIf("suite", c) \in SUBSET Hooks /\ OnlyIf("test", c) \in SUBSET Hooks
      /\ \A c : OnlyIf("keyword", c) \in SUBSET Hooks /\ OnlyIf("run", c) \in SUBSET Hooks
      /\ \A c : {"run"} \cup OnlyIf("suite", c) \in SUBSET Hooks
      /\ {} \in SUBSET Hooks
  BY OnlyIfHooks DEF Hooks, Kind
<1>2. /\ Carried \subseteq slips /\ slips \ {"id"} \subseteq Carried
      /\ open # <<>> => Carried = slips
      /\ "depth" \in Carried <=> "depth" \in slips
      /\ "pop" \in Carried <=> "pop" \in slips
      /\ \A c : "depth" \notin OnlyIf("stamp", c) /\ "depth" \notin OnlyIf("pop", c)
      /\ \A c : "depth" \notin OnlyIf("id", c) /\ "pop" \notin OnlyIf("stamp", c)
  BY DEF Carried, OnlyIf
<1>3. ASSUME NEW id \in Ids, NEW how \in Outcome, StartSuite(id, how) PROVE DepthInv'
  <2> DEFINE s == OnlyIf("suite", Acted(how))
  <2>1. /\ s \in SUBSET Hooks /\ OpenSuite(id, s) /\ _suite_depth' # 1
        /\ UNCHANGED <<_run_started_ns, runStarts>>
        /\ slips' = Carried \cup OnlyIf("stamp", ~Acted(how))
    BY <1>1, <1>3 DEF StartSuite
  <2> HIDE DEF s
  <2>2. "depth" \in slips' <=> "depth" \in slips
    BY <1>2, <2>1
  <2>3. /\ open' \in Seq(Item) /\ Len(open) \in Nat /\ Len(open') = Len(open) + 1
        /\ \A j \in 1..Len(open) : open'[j] = open[j]
        /\ open' # <<>> /\ (open = <<>> <=> Len(open) = 0)
        /\ "depth" \notin slips => open # <<>>
        /\ SuitesFirst' /\ DepthCounts'
    BY <2>1, <2>2, OpenDepth
  <2>4. RunStamped'
    <3>1. CASE "depth" \in slips
      BY <2>2, <3>1 DEF RunStamped
    <3>2. CASE "depth" \notin slips
      <4>1. open # <<>> /\ open'[1] = open[1]
        BY <2>3, <3>2
      <4>2. slips \subseteq slips'
        BY <1>2, <2>1, <4>1
      <4>3. QED
        BY <2>1, <3>2, <4>1, <4>2, Grows DEF DepthInv, RunStamped
    <3>3. QED
      BY <3>1, <3>2
  <2>5. NoRunStampLeft'
    BY <2>3 DEF NoRunStampLeft
  <2>6. RunEventsOnce'
    BY <2>1, <2>2, <2>3 DEF OpenSuite, RunEventsOnce, DepthInv, TypeOK
  <2>7. QED
    BY <2>3, <2>4, <2>5, <2>6 DEF DepthInv
<1>4. ASSUME NEW id \in Ids, NEW s \in SUBSET Hooks, NEW acted \in BOOLEAN, OpenSuite(id, s),
             _suite_depth' = 1, runStarts' = runStarts + 1,
             IF acted THEN "run" \in s /\ _run_started_ns' = Now
                      ELSE "run" \notin s /\ _run_started_ns' = _run_started_ns,
             Carried \subseteq slips', "depth" \in slips' <=> "depth" \in slips,
             "pop" \in slips' <=> "pop" \in slips,
             ~acted => "stamp" \in slips'
      PROVE  DepthInv'
  <2>1. /\ open' \in Seq(Item) /\ Len(open) \in Nat /\ Len(open') = Len(open) + 1
        /\ open'[Len(open) + 1].began = Now /\ open'[Len(open) + 1].stamped = s
        /\ open' # <<>> /\ (open = <<>> <=> Len(open) = 0)
        /\ open = <<>> /\ "depth" \notin slips
        /\ SuitesFirst' /\ DepthCounts'
    BY <1>4, OpenDepth
  <2>2. open'[1].began = Now /\ open'[1].stamped = s
    BY <2>1
  <2>3. ~acted /\ OneSlip' => "pop" \notin slips
    BY <1>4 DEF OneSlip
  <2>4. "pop" \notin slips => _run_started_ns = None
    BY <2>1 DEF DepthInv, NoRunStampLeft
  <2>5. RunStamped'
    <3>1. CASE acted
      BY <1>4, <2>2, <3>1 DEF RunStamped
    <3>2. CASE ~acted
      BY <1>4, <2>2, <2>3, <2>4, <3>2 DEF RunStamped
    <3>3. QED
      BY <3>1, <3>2
  <2>6. NoRunStampLeft'
    BY <2>1 DEF NoRunStampLeft
  <2>7. RunEventsOnce'
    BY <1>4, <2>1 DEF OpenSuite, RunEventsOnce, DepthInv, TypeOK
  <2>8. QED
    BY <2>1, <2>5, <2>6, <2>7 DEF DepthInv
<1>5. ASSUME NEW id \in Ids, NEW how \in Outcome, StartRun(id, how) PROVE DepthInv'
  <2> DEFINE s == {"run"} \cup OnlyIf("suite", Acted(how))
  <2>1. /\ s \in SUBSET Hooks /\ OpenSuite(id, s) /\ "run" \in s /\ _run_started_ns' = Now
        /\ _suite_depth' = 1 /\ runStarts' = runStarts + 1
        /\ slips' = Carried \cup OnlyIf("stamp", ~Acted(how))
    BY <1>1, <1>5 DEF StartRun
  <2> HIDE DEF s
  <2>2. /\ Carried \subseteq slips' /\ "depth" \in slips' <=> "depth" \in slips
        /\ "pop" \in slips' <=> "pop" \in slips
    BY <1>2, <2>1
  <2>3. TRUE \in BOOLEAN
    OBVIOUS
  <2>4. QED
    BY <1>4, <2>1, <2>2, <2>3
<1>6. ASSUME NEW id \in Ids, NEW how \in Outcome, StartRunRaises(id, how) PROVE DepthInv'
  <2> DEFINE s == OnlyIf("run", Acted(how))
  <2>1. /\ s \in SUBSET Hooks /\ OpenSuite(id, s)
        /\ _run_started_ns' = IF Acted(how) THEN Now ELSE _run_started_ns
        /\ _suite_depth' = 1 /\ runStarts' = runStarts + 1
        /\ slips' = Carried \cup {"stamp"}
    BY <1>1, <1>6 DEF StartRunRaises
  <2>2. IF Acted(how) THEN "run" \in s ELSE "run" \notin s
    BY DEF OnlyIf
  <2> HIDE DEF s
  <2>3. /\ Carried \subseteq slips' /\ "depth" \in slips' <=> "depth" \in slips
        /\ "pop" \in slips' <=> "pop" \in slips
        /\ "stamp" \in slips'
    BY <1>2, <2>1
  <2>4. Acted(how) \in BOOLEAN
    BY DEF Acted
  <2>5. QED
    BY <1>4, <2>1, <2>2, <2>3, <2>4
<1>7. ASSUME NEW id \in Ids, NEW how \in Outcome, StartTest(id, how) PROVE DepthInv'
  <2>1. slips \subseteq slips' /\ ("depth" \in slips' <=> "depth" \in slips)
    BY <1>2, <1>7 DEF StartTest
  <2>2. QED
    BY <1>1, <1>7, <2>1, PushInner DEF StartTest, Inside, Kind
<1>8. ASSUME NEW id \in Ids, NEW how \in Outcome, StartKeyword(id, how) PROVE DepthInv'
  <2>1. slips \subseteq slips' /\ ("depth" \in slips' <=> "depth" \in slips)
    BY <1>2, <1>8 DEF StartKeyword
  <2>2. QED
    BY <1>1, <1>8, <2>1, PushInner DEF StartKeyword, Inside, Kind
<1>9. ASSUME NEW id \in Ids, SkipKeyword(id) PROVE DepthInv'
  <2>1. CASE Inside(Kind) /\ Push("keyword", id, {})
    BY <1>1, <1>9, <2>1, PushInner DEF SkipKeyword, Inside, Kind
  <2>2. CASE Inside({"keyword"}) /\ Pop
    BY <1>9, <2>2, PopInner DEF SkipKeyword, Inside
  <2>3. QED
    BY <1>9, <2>1, <2>2 DEF SkipKeyword
<1>10. ASSUME NEW teardown \in Teardown, EndSuite(teardown) PROVE DepthInv'
  <2>1. /\ CloseSuite(teardown) /\ _suite_depth' = _suite_depth - 1 /\ ~RunOver
        /\ UNCHANGED <<_run_started_ns, runEnds, slips>> /\ UNCHANGED <<runs, runStarts>>
    BY <1>10 DEF EndSuite, CloseSuite
  <2>2. DepthCounts'
    BY <2>1, CloseDepth DEF DepthCounts
  <2>3. "depth" \notin slips => open' # <<>> /\ open'[1] = open[1] /\ open # <<>>
    BY <2>1, CloseDepth DEF RunOver
  <2>4. RunStamped'
    BY <2>1, <2>3, Grows DEF RunStamped, DepthInv
  <2>5. NoRunStampLeft'
    BY <2>1, <2>3 DEF NoRunStampLeft
  <2>6. RunEventsOnce'
    BY <2>1, <2>3 DEF RunEventsOnce, DepthInv
  <2>7. SuitesFirst'
    BY <2>1, CloseDepth
  <2>8. QED
    BY <2>2, <2>4, <2>5, <2>6, <2>7 DEF DepthInv
<1>11. ASSUME NEW teardown \in Teardown, NEW how \in Outcome, EndRun(teardown, how)
       PROVE  DepthInv'
  <2>1. /\ CloseSuite(teardown) /\ _suite_depth' = _suite_depth - 1 /\ RunOver
        /\ UNCHANGED <<runs, runStarts>> /\ runEnds' = runEnds + 1
        /\ _run_started_ns' = IF Told(how) THEN None ELSE _run_started_ns
        /\ slips' = slips \cup OnlyIf("pop", ~Told(how))
    BY <1>11 DEF EndRun, CloseSuite
  <2>2. "depth" \in slips' <=> "depth" \in slips
    BY <1>2, <2>1
  <2>3. "depth" \notin slips /\ open' = <<>> /\ open # <<>> /\ _suite_depth' = 0
    BY <2>1, CloseDepth DEF RunOver
  <2>4. DepthCounts'
    BY <2>2, <2>3 DEF DepthCounts
  <2>5. RunStamped'
    BY <2>3 DEF RunStamped
  <2>6. NoRunStampLeft'
    <3>1. CASE Told(how)
      BY <2>1, <3>1 DEF NoRunStampLeft
    <3>2. CASE ~Told(how)
      BY <2>1, <3>2 DEF NoRunStampLeft, OnlyIf
    <3>3. QED
      BY <3>1, <3>2
  <2>7. RunEventsOnce'
    BY <2>1, <2>2, <2>3 DEF RunEventsOnce, DepthInv, TypeOK
  <2>8. SuitesFirst'
    BY <2>1, CloseDepth
  <2>9. QED
    BY <2>4, <2>5, <2>6, <2>7, <2>8 DEF DepthInv
<1>12. ASSUME NEW teardown \in Teardown, NEW how \in Outcome, EndSuiteRaises(teardown, how)
       PROVE  DepthInv'
  <2>1. /\ CloseSuite(teardown) /\ "depth" \in slips'
        /\ UNCHANGED <<_suite_depth, _run_started_ns, runEnds>> /\ UNCHANGED <<runs, runStarts>>
    BY <1>12 DEF EndSuiteRaises, CloseSuite
  <2>2. DepthCounts'
    BY <2>1, CloseDepth DEF DepthCounts
  <2>3. RunEventsOnce'
    BY <2>1 DEF RunEventsOnce, DepthInv
  <2>4. SuitesFirst'
    BY <2>1, CloseDepth
  <2>5. QED
    BY <2>1, <2>2, <2>3, <2>4 DEF DepthInv, RunStamped, NoRunStampLeft
<1>13. ASSUME NEW status \in Status, NEW how \in Outcome, EndTest(status, how) PROVE DepthInv'
  <2>1. slips \subseteq slips' /\ ("depth" \in slips' <=> "depth" \in slips)
    BY <1>2, <1>13 DEF EndTest
  <2>2. QED
    BY <1>13, <2>1, PopInner DEF EndTest, Inside
<1>14. ASSUME NEW how \in Outcome, EndKeyword(how) PROVE DepthInv'
  <2>1. slips \subseteq slips' /\ ("depth" \in slips' <=> "depth" \in slips)
    BY <1>2, <1>14 DEF EndKeyword
  <2>2. QED
    BY <1>14, <2>1, PopInner DEF EndKeyword, Inside
<1>15. CASE UNCHANGED vars
  BY <1>15 DEF vars, run, DepthInv, SuitesFirst, DepthCounts, RunStamped, NoRunStampLeft, OneSlip,
    RunEventsOnce
<1>16. QED
  BY <1>3, <1>5, <1>6, <1>7, <1>8, <1>9, <1>10, <1>11, <1>12, <1>13, <1>14, <1>15
  DEF Next, Quiet
-----------------------------------------------------------------------------
(* The stamps.                                                              *)

LEMMA PastStep ==
  ASSUME TypeOK, Past, calls' = calls + 1, open' \in Seq(Item),
         \A j \in 1..Len(open') :
           \/ j \in 1..Len(open) /\ open'[j] = open[j]
           \/ open'[j].began = Now,
         \A k \in Kind, i \in Ids : started'[k][i] \in {None, started[k][i], Now}
  PROVE  Past'
<1>1. Now \in Nat /\ Now' \in Nat /\ Now < Now'
  BY DEF TypeOK, Now
<1>2. \A j \in 1..Len(open) : open[j].began \in Nat /\ open[j].began < Now
  <2>1. \A j \in 1..Len(open) : open[j] \in Item
    BY DEF TypeOK
  <2>2. QED
    BY <2>1 DEF Past, Item
<1>3. \A j \in 1..Len(open') : open'[j].began < Now'
  BY <1>1, <1>2
<1>4. ASSUME NEW k \in Kind, NEW i \in Ids, started'[k][i] # None PROVE started'[k][i] < Now'
  <2>1. CASE started'[k][i] = Now
    BY <1>1, <2>1
  <2>2. CASE started'[k][i] = started[k][i]
    <3>1. started[k][i] \in Nat
      BY <1>4, <2>2 DEF TypeOK
    <3>2. started[k][i] < Now
      BY <1>4, <2>2 DEF Past
    <3>3. QED
      BY <1>1, <2>2, <3>1, <3>2
  <2>3. QED
    BY <1>4, <2>1, <2>2
<1>5. QED
  BY <1>3, <1>4 DEF Past

\* A callback that opens an item and stamps it, or leaves the stamps alone.
LEMMA PushStamps ==
  ASSUME TypeOK, StampInv, NEW k \in Kind, NEW i \in Ids, NEW s \in SUBSET Hooks, Push(k, i, s),
         calls' = calls + 1, keyword_events' = keyword_events, Kept,
         Tracked(k) /\ "id" \notin slips' => Free(k, i),
         \/ Stamp(k, i, Now) /\ k \in s /\ Tracked(k)
         \/ UNCHANGED started /\ k \notin s /\ (Tracked(k) => "stamp" \in slips')
  PROVE  StampInv'
<1>1. /\ open' \in Seq(Item) /\ Len(open') = Len(open) + 1 /\ Len(open) \in Nat
      /\ \A j \in 1..Len(open) : open'[j] = open[j]
      /\ open'[Len(open) + 1].kind = k /\ open'[Len(open) + 1].id = i
      /\ open'[Len(open) + 1].began = Now /\ open'[Len(open) + 1].stamped = s
  BY PushFacts
<1>2. /\ \A j \in 1..Len(open) : open[j] \in Item /\ open # <<>>
      /\ DOMAIN open = 1..Len(open)
  BY DEF TypeOK
<1>3. /\ \A j \in 1..Len(open') : j \in 1..Len(open) \/ j = Len(open) + 1
      /\ Len(open) + 1 \in 1..Len(open')
      /\ \A j \in 1..Len(open) : j \in 1..Len(open') /\ j # Len(open) + 1
      /\ \A j \in 1..Len(open') : j <= Len(open) + 1
      /\ \A j \in 1..Len(open) : ~(Len(open) + 1 <= j)
  BY <1>1, <1>2
<1>4. Now \in Nat /\ Now # None
  BY NoneAssumption, Clock
<1>5. \/ Tracked(k) /\ started'[k][i] = Now /\ k \in s
      \/ started'[k][i] = started[k][i] /\ k \notin s /\ (Tracked(k) => "stamp" \in slips')
  BY <1>4, StampFacts
<1>6. \A m \in Kind, n \in Ids : m # k \/ n # i => started'[m][n] = started[m][n]
  BY <1>4, StampFacts
<1>7. /\ "pop" \notin slips' => "pop" \notin slips
      /\ open # <<>> => slips \subseteq slips'
  BY DEF Kept
<1>8. Free(k, i) => \A j \in 1..Len(open) : ~Same(j, k, i)
  BY <1>2 DEF Free, Same
<1>9. ~Tracked(k) => started[k][i] = None
  BY DEF StampInv, NoKeywordStamps, Tracked
<1>10. Past'
  <2>1. \A m \in Kind, n \in Ids : started'[m][n] \in {None, started[m][n], Now}
    BY <1>5, <1>6
  <2>2. QED
    BY <1>1, <1>3, <2>1, PastStep DEF StampInv
<1>11. \A m, n : \A j \in 1..Len(open) : Same(j, m, n)' <=> Same(j, m, n)
  BY <1>1 DEF Same
<1>12. \A j \in {Len(open) + 1} : \A m, n : Same(j, m, n)' <=> m = k /\ n = i
  BY <1>1 DEF Same
<1>13. StampsMatch'
  <2> SUFFICES ASSUME OneSlip', NEW m \in Kind, NEW n \in Ids, NEW j \in 1..Len(open'),
                      Innermost(j, m, n)', started'[m][n] # None
               PROVE  started'[m][n] = open'[j].began /\ m \in open'[j].stamped
    BY DEF StampsMatch
  <2>1. CASE m = k /\ n = i
    <3>1. j = Len(open) + 1
      BY <1>1, <1>3, <1>12, <2>1 DEF Innermost
    <3>2. CASE started'[k][i] = Now /\ k \in s
      BY <1>1, <2>1, <3>1, <3>2
    <3>3. CASE started'[k][i] = started[k][i] /\ (Tracked(k) => "stamp" \in slips')
      <4>1. CASE ~Tracked(k)
        BY <1>9, <2>1, <3>3, <4>1
      <4>2. CASE Tracked(k)
        <5>1. "pop" \notin slips' /\ "id" \notin slips'
          BY <3>3, <4>2 DEF OneSlip
        <5>2. \A l \in 1..Len(open) : ~Same(l, k, i)
          BY <1>8, <4>2, <5>1
        <5>3. started[k][i] = None
          BY <1>7, <5>1, <5>2 DEF StampInv, StampsOpen
        <5>4. QED
          BY <2>1, <3>3, <5>3
      <4>3. QED
        BY <4>1, <4>2
    <3>4. QED
      BY <1>5, <3>2, <3>3
  <2>2. CASE m # k \/ n # i
    <3>1. j \in 1..Len(open)
      BY <1>3, <1>12, <2>2 DEF Innermost
    <3>2. OneSlip
      BY <1>2, <1>7, <3>1, Grows
    <3>3. Innermost(j, m, n)
      BY <1>3, <1>11, <3>1 DEF Innermost
    <3>4. QED
      BY <1>1, <1>6, <2>2, <3>1, <3>2, <3>3 DEF StampInv, StampsMatch
  <2>3. QED
    BY <2>1, <2>2
<1>14. StampsOpen'
  <2> SUFFICES ASSUME "pop" \notin slips', NEW m \in Kind, NEW n \in Ids, started'[m][n] # None
               PROVE  \E j \in 1..Len(open') : Same(j, m, n)'
    BY DEF StampsOpen
  <2>1. CASE m = k /\ n = i
    BY <1>3, <1>12, <2>1
  <2>2. CASE m # k \/ n # i
    <3>1. PICK j \in 1..Len(open) : Same(j, m, n)
      BY <1>6, <1>7, <2>2 DEF StampInv, StampsOpen
    <3>2. QED
      BY <1>3, <1>11, <3>1
  <2>3. QED
    BY <2>1, <2>2
<1>15. NoKeywordStamps'
  <2>1. ASSUME ~keyword_events, NEW n \in Ids PROVE started'["keyword"][n] = None
    <3>1. started["keyword"][n] = None /\ ~Tracked("keyword") /\ "keyword" \in Kind
      BY <2>1 DEF StampInv, NoKeywordStamps, Tracked, Kind
    <3>2. CASE k = "keyword" /\ n = i
      BY <1>5, <3>1, <3>2
    <3>3. CASE k # "keyword" \/ n # i
      BY <1>6, <3>1, <3>3
    <3>4. QED
      BY <3>2, <3>3
  <2>2. QED
    BY <2>1 DEF NoKeywordStamps
<1>16. \A m : Tracked(m)' <=> Tracked(m)
  BY DEF Tracked
<1>17. Distinct'
  <2> SUFFICES ASSUME "id" \notin slips', NEW l \in 1..Len(open'), NEW j \in 1..Len(open'), l # j,
                      open'[l].kind = open'[j].kind, Tracked(open'[l].kind)
               PROVE  open'[l].id # open'[j].id
    BY <1>16 DEF Distinct
  <2>1. CASE l \in 1..Len(open) /\ j \in 1..Len(open)
    <3>1. "id" \notin slips
      BY <1>2, <1>7, <2>1
    <3>2. open'[l] = open[l] /\ open'[j] = open[j]
      BY <1>1, <2>1
    <3>3. QED
      BY <2>1, <3>1, <3>2 DEF StampInv, Distinct
  <2>2. CASE l = Len(open) + 1 /\ j \in 1..Len(open)
    BY <1>1, <1>8, <2>2 DEF Same
  <2>3. CASE l \in 1..Len(open) /\ j = Len(open) + 1
    BY <1>1, <1>8, <2>3 DEF Same
  <2>4. QED
    BY <1>3, <2>1, <2>2, <2>3
<1>18. Stamped'
  <2> SUFFICES ASSUME "id" \notin slips', NEW j \in 1..Len(open'),
                      open'[j].kind \in open'[j].stamped
               PROVE  started'[open'[j].kind][open'[j].id] # None
    BY DEF Stamped
  <2>1. CASE j = Len(open) + 1
    <3>1. k \in s
      BY <1>1, <2>1
    <3>2. QED
      BY <1>1, <1>4, <1>5, <2>1, <3>1
  <2>2. CASE j \in 1..Len(open)
    <3>1. open'[j] = open[j] /\ open[j].kind \in Kind /\ open[j].id \in Ids
      BY <1>1, <1>2, <2>2 DEF Item
    <3>2. started[open[j].kind][open[j].id] # None
      BY <1>2, <1>7, <2>2, <3>1 DEF StampInv, Stamped
    <3>3. CASE open[j].kind = k /\ open[j].id = i
      BY <1>4, <1>5, <3>1, <3>2, <3>3
    <3>4. CASE open[j].kind # k \/ open[j].id # i
      BY <1>6, <3>1, <3>2, <3>4
    <3>5. QED
      BY <3>3, <3>4
  <2>3. QED
    BY <1>3, <2>1, <2>2
<1>19. QED
  BY <1>10, <1>13, <1>14, <1>15, <1>17, <1>18 DEF StampInv

\* A callback that closes the innermost item and takes its stamp away, or
\* leaves the stamps alone.
LEMMA PopStamps ==
  ASSUME TypeOK, StampInv, open # <<>>, Pop, calls' = calls + 1,
         keyword_events' = keyword_events, slips \subseteq slips',
         \/ Stamp(Top.kind, Top.id, None)
         \/ UNCHANGED started /\ (Tracked(Top.kind) => "pop" \in slips')
  PROVE  StampInv'
<1>1. /\ open' \in Seq(Item) /\ Len(open) \in Nat \ {0} /\ Len(open') = Len(open) - 1
      /\ \A j \in 1..(Len(open) - 1) : open'[j] = open[j]
  BY PopFacts
<1>2. /\ Top = open[Len(open)] /\ Top.kind \in Kind /\ Top.id \in Ids
      /\ \A j \in 1..Len(open) : open[j] \in Item
  BY TopFacts DEF Item
<1>3. /\ \A j \in 1..Len(open') : j \in 1..Len(open) /\ j # Len(open) /\ open'[j] = open[j]
      /\ \A j \in 1..Len(open) : j \in 1..Len(open') \/ j = Len(open)
      /\ Len(open) \in 1..Len(open)
  BY <1>1
<1>4. \/ started'[Top.kind][Top.id] = None
      \/ started'[Top.kind][Top.id] = started[Top.kind][Top.id] /\ "pop" \in slips'
  <2>1. CASE Stamp(Top.kind, Top.id, None)
    BY <1>2, <2>1 DEF Stamp, TypeOK
  <2>2. CASE UNCHANGED started /\ Tracked(Top.kind) /\ "pop" \in slips'
    BY <2>2
  <2>3. CASE UNCHANGED started /\ ~Tracked(Top.kind)
    BY <1>2, <2>3 DEF StampInv, NoKeywordStamps, Tracked
  <2>4. QED
    BY <2>1, <2>2, <2>3
<1>5. \A m \in Kind, n \in Ids :
        m # Top.kind \/ n # Top.id => started'[m][n] = started[m][n]
  BY <1>2, StampFacts
<1>6. \A m \in Kind, n \in Ids : started'[m][n] \in {None, started[m][n]}
  BY <1>4, <1>5
<1>7. \A j \in 1..Len(open') : \A m, n : Same(j, m, n)' <=> Same(j, m, n)
  BY <1>3 DEF Same
<1>8. Same(Len(open), Top.kind, Top.id)
  BY <1>2 DEF Same
<1>9. Past'
  BY <1>1, <1>3, <1>6, PastStep DEF StampInv
<1>10. StampsMatch'
  <2> SUFFICES ASSUME OneSlip', NEW m \in Kind, NEW n \in Ids, NEW j \in 1..Len(open'),
                      Innermost(j, m, n)', started'[m][n] # None
               PROVE  started'[m][n] = open'[j].began /\ m \in open'[j].stamped
    BY DEF StampsMatch
  <2>1. started'[m][n] = started[m][n] /\ OneSlip
    BY <1>6, Grows
  <2>2. Same(j, m, n) /\ j \in 1..Len(open) /\ j # Len(open) /\ open'[j] = open[j]
    BY <1>3, <1>7 DEF Innermost
  <2>3. m # Top.kind \/ n # Top.id
    <3> SUFFICES ASSUME m = Top.kind, n = Top.id PROVE FALSE
      OBVIOUS
    <3>1. "pop" \in slips'
      BY <1>4
    <3>2. "id" \notin slips
      BY <3>1 DEF OneSlip
    <3>3. Tracked(m)
      BY <2>1 DEF StampInv, NoKeywordStamps, Tracked
    <3>4. open[j].kind = open[Len(open)].kind /\ open[j].id = open[Len(open)].id
      BY <1>2, <2>2 DEF Same
    <3>5. Tracked(open[j].kind)
      BY <2>2, <3>3 DEF Same
    <3>6. QED
      BY <1>3, <2>2, <3>2, <3>4, <3>5 DEF StampInv, Distinct
  <2>4. ~Same(Len(open), m, n)
    BY <1>2, <2>3 DEF Same
  <2>5. Innermost(j, m, n)
    BY <1>3, <1>7, <2>2, <2>4 DEF Innermost
  <2>6. QED
    BY <2>1, <2>2, <2>5 DEF StampInv, StampsMatch
<1>11. StampsOpen'
  <2> SUFFICES ASSUME "pop" \notin slips', NEW m \in Kind, NEW n \in Ids, started'[m][n] # None
               PROVE  \E j \in 1..Len(open') : Same(j, m, n)'
    BY DEF StampsOpen
  <2>1. m # Top.kind \/ n # Top.id
    BY <1>4
  <2>2. PICK j \in 1..Len(open) : Same(j, m, n)
    BY <1>6 DEF StampInv, StampsOpen
  <2>3. j # Len(open)
    BY <1>2, <2>1, <2>2 DEF Same
  <2>4. QED
    BY <1>3, <1>7, <2>2, <2>3
<1>12. NoKeywordStamps'
  <2>1. ASSUME ~keyword_events, NEW n \in Ids PROVE started'["keyword"][n] = None
    BY <1>6, <2>1 DEF StampInv, NoKeywordStamps, Kind
  <2>2. QED
    BY <2>1 DEF NoKeywordStamps
<1>13. Distinct'
  <2>1. \A m : Tracked(m)' <=> Tracked(m)
    BY DEF Tracked
  <2>2. QED
    BY <1>3, <2>1 DEF StampInv, Distinct
<1>14. Stamped'
  <2> SUFFICES ASSUME "id" \notin slips', NEW j \in 1..Len(open'),
                      open'[j].kind \in open'[j].stamped
               PROVE  started'[open'[j].kind][open'[j].id] # None
    BY DEF Stamped
  <2>1. open'[j] = open[j] /\ j # Len(open) /\ j \in 1..Len(open) /\ "id" \notin slips
    BY <1>3
  <2>2. open[j].kind \in Kind /\ open[j].id \in Ids
    BY <1>2, <2>1 DEF Item
  <2>3. started[open[j].kind][open[j].id] # None
    BY <2>1 DEF StampInv, Stamped
  <2>4. Tracked(open[j].kind)
    BY <2>2, <2>3 DEF StampInv, NoKeywordStamps, Tracked
  <2>5. open[j].kind # Top.kind \/ open[j].id # Top.id
    BY <1>2, <1>3, <2>1, <2>4 DEF StampInv, Distinct
  <2>6. QED
    BY <1>5, <2>1, <2>2, <2>3, <2>5
<1>15. QED
  BY <1>9, <1>10, <1>11, <1>12, <1>13, <1>14 DEF StampInv

LEMMA StepStamps ==
  ASSUME TypeOK, DepthInv, StampInv, [Next]_vars
  PROVE  StampInv'
<1>1. /\ \A c : OnlyIf("suite", c) \in SUBSET Hooks /\ OnlyIf("test", c) \in SUBSET Hooks
      /\ \A c : OnlyIf("keyword", c) \in SUBSET Hooks /\ OnlyIf("run", c) \in SUBSET Hooks
      /\ \A c : {"run"} \cup OnlyIf("suite", c) \in SUBSET Hooks
      /\ {} \in SUBSET Hooks
  BY OnlyIfHooks DEF Hooks, Kind
<1>2. slips \ {"id"} \subseteq Carried /\ (open # <<>> => Carried = slips)
  BY DEF Carried
<1>3. /\ Tracked("suite") /\ Tracked("test") /\ (Tracked("keyword") <=> keyword_events)
      /\ "suite" \in Kind /\ "test" \in Kind /\ "keyword" \in Kind
  BY DEF Tracked, Kind
<1>4. ASSUME NEW k \in Kind, NEW i \in Ids, NEW how, OnStart(k, i, how), Tracked(k)
      PROVE  \/ Acted(how) /\ Stamp(k, i, Now)
             \/ ~Acted(how) /\ UNCHANGED started
  BY <1>4 DEF OnStart
<1>5. ASSUME NEW id \in Ids, NEW how \in Outcome, StartSuite(id, how) \/ StartRun(id, how)
      PROVE  StampInv'
  <2>1. PICK s \in SUBSET Hooks :
          /\ OpenSuite(id, s) /\ (Acted(how) <=> "suite" \in s)
    <3>1. CASE StartSuite(id, how)
      BY <1>1, <3>1 DEF StartSuite, OnlyIf
    <3>2. CASE StartRun(id, how)
      BY <1>1, <3>2 DEF StartRun, OnlyIf
    <3>3. QED
      BY <1>5, <3>1, <3>2
  <2>2. /\ calls' = calls + 1 /\ OnStart("suite", id, how)
        /\ slips' = Carried \cup OnlyIf("stamp", ~Acted(how))
    BY <1>5 DEF StartSuite, StartRun, Callback
  <2>3. /\ Push("suite", id, s) /\ Free("suite", id) /\ keyword_events' = keyword_events
    BY <2>1 DEF OpenSuite
  <2>4. Kept
    BY <1>2, <2>2 DEF Kept
  <2>5. \/ Stamp("suite", id, Now) /\ "suite" \in s
        \/ UNCHANGED started /\ "suite" \notin s /\ "stamp" \in slips'
    BY <1>3, <1>4, <2>1, <2>2 DEF OnlyIf
  <2>6. QED
    BY <1>3, <2>2, <2>3, <2>4, <2>5, PushStamps
<1>6. ASSUME NEW id \in Ids, NEW how \in Outcome, StartRunRaises(id, how) PROVE StampInv'
  <2> DEFINE s == OnlyIf("run", Acted(how))
  <2>1. /\ s \in SUBSET Hooks /\ OpenSuite(id, s) /\ "suite" \notin s
        /\ calls' = calls + 1 /\ UNCHANGED started /\ slips' = Carried \cup {"stamp"}
    BY <1>1, <1>6 DEF StartRunRaises, Callback, OnlyIf
  <2> HIDE DEF s
  <2>2. /\ Push("suite", id, s) /\ Free("suite", id) /\ keyword_events' = keyword_events
    BY <2>1 DEF OpenSuite
  <2>3. Kept /\ "stamp" \in slips'
    BY <1>2, <2>1 DEF Kept
  <2>4. QED
    BY <1>3, <2>1, <2>2, <2>3, PushStamps
<1>7. ASSUME NEW id \in Ids, NEW how \in Outcome, StartTest(id, how) PROVE StampInv'
  <2>1. OnlyIf("test", Acted(how)) \in SUBSET Hooks /\ Kept
    BY <1>1, <1>7 DEF StartTest, Kept
  <2>2. \/ Stamp("test", id, Now) /\ "test" \in OnlyIf("test", Acted(how))
        \/ UNCHANGED started /\ "test" \notin OnlyIf("test", Acted(how)) /\ "stamp" \in slips'
    BY <1>3, <1>4, <1>7 DEF StartTest, OnlyIf
  <2>3. QED
    BY <1>3, <1>7, <2>1, <2>2, PushStamps DEF StartTest, Callback
<1>8. ASSUME NEW id \in Ids, NEW how \in Outcome, StartKeyword(id, how) PROVE StampInv'
  <2>1. OnlyIf("keyword", Acted(how)) \in SUBSET Hooks /\ Kept
    BY <1>1, <1>8 DEF StartKeyword, Kept
  <2>2. \/ Stamp("keyword", id, Now) /\ "keyword" \in OnlyIf("keyword", Acted(how))
        \/ UNCHANGED started /\ "keyword" \notin OnlyIf("keyword", Acted(how)) /\ "stamp" \in slips'
    BY <1>3, <1>4, <1>8 DEF StartKeyword, OnlyIf
  <2>3. "id" \notin slips' => Free("keyword", id)
    BY <1>8 DEF StartKeyword, OnlyIf
  <2>4. QED
    BY <1>3, <1>8, <2>1, <2>2, <2>3, PushStamps DEF StartKeyword, Callback
<1>9. ASSUME NEW id \in Ids, SkipKeyword(id) PROVE StampInv'
  <2>1. /\ calls' = calls + 1 /\ UNCHANGED <<keyword_events, started, slips>> /\ ~keyword_events
    BY <1>9 DEF SkipKeyword, Callback
  <2>2. CASE Push("keyword", id, {})
    BY <1>1, <1>3, <2>1, <2>2, PushStamps DEF Kept
  <2>3. CASE Inside({"keyword"}) /\ Pop
    BY <1>3, <2>1, <2>3, PopStamps DEF Inside
  <2>4. QED
    BY <1>9, <2>2, <2>3 DEF SkipKeyword
<1>10. ASSUME NEW k \in Kind, NEW how, OnEnd(k, Top.id, how), Top.kind = k
       PROVE  \/ Acted(how) /\ Stamp(Top.kind, Top.id, None)
              \/ ~Acted(how) /\ UNCHANGED started
  BY <1>10 DEF OnEnd, Unstamp
<1>11. ASSUME NEW teardown \in Teardown,
              \/ EndSuite(teardown)
              \/ \E how \in Outcome : EndRun(teardown, how)
       PROVE  StampInv'
  <2>1. /\ CloseSuite(teardown) /\ OnEnd("suite", Top.id, "returns") /\ calls' = calls + 1
        /\ slips \subseteq slips' /\ keyword_events' = keyword_events
    BY <1>11 DEF EndSuite, EndRun, Callback, CloseSuite
  <2>2. open # <<>> /\ Top.kind = "suite" /\ Pop
    BY <2>1, CloseTypes
  <2>3. Stamp(Top.kind, Top.id, None)
    BY <1>3, <1>10, <2>1, <2>2 DEF Acted
  <2>4. QED
    BY <2>1, <2>2, <2>3, PopStamps
<1>12. ASSUME NEW teardown \in Teardown, NEW how \in Outcome, EndSuiteRaises(teardown, how)
       PROVE  StampInv'
  <2>1. /\ CloseSuite(teardown) /\ OnEnd("suite", Top.id, how) /\ calls' = calls + 1
        /\ slips \subseteq slips' /\ (~Acted(how) => "pop" \in slips')
        /\ keyword_events' = keyword_events
    BY <1>12 DEF EndSuiteRaises, Callback, CloseSuite, OnlyIf
  <2>2. open # <<>> /\ Top.kind = "suite" /\ Pop
    BY <2>1, CloseTypes
  <2>3. QED
    BY <1>3, <1>10, <2>1, <2>2, PopStamps
<1>13. ASSUME NEW status \in Status, NEW how \in Outcome, EndTest(status, how) PROVE StampInv'
  <2>1. /\ open # <<>> /\ Top.kind = "test" /\ Pop /\ calls' = calls + 1
        /\ OnEnd("test", Top.id, how) /\ keyword_events' = keyword_events
        /\ slips \subseteq slips' /\ (~Acted(how) => "pop" \in slips')
    BY <1>13 DEF EndTest, Inside, Callback, OnlyIf
  <2>2. QED
    BY <1>3, <1>10, <2>1, PopStamps
<1>14. ASSUME NEW how \in Outcome, EndKeyword(how) PROVE StampInv'
  <2>1. /\ open # <<>> /\ Top.kind = "keyword" /\ Pop /\ calls' = calls + 1
        /\ OnEnd("keyword", Top.id, how) /\ keyword_events' = keyword_events
        /\ slips \subseteq slips' /\ (~Acted(how) => "pop" \in slips')
    BY <1>14 DEF EndKeyword, Inside, Callback, OnlyIf
  <2>2. QED
    BY <1>3, <1>10, <2>1, PopStamps
<1>15. CASE UNCHANGED vars
  BY <1>15 DEF vars, StampInv, Past, Now, StampsMatch, StampsOpen, OneSlip, Innermost, Same,
    NoKeywordStamps, Distinct, Tracked, Stamped
<1>16. QED
  BY <1>5, <1>6, <1>7, <1>8, <1>9, <1>11, <1>12, <1>13, <1>14, <1>15 DEF Next, Quiet
-----------------------------------------------------------------------------
(* The reported durations.                                                  *)

\* DurationsExact and DistinctEndsArePaired, of one event.
Sound(e) ==
  e.type[2] = "end" => /\ OneSlip => e.duration \in {-1, e.actual}
                       /\ "id" \notin slips /\ e.actual # -1 => e.duration # -1

Reports == DurationsExact /\ DistinctEndsArePaired

LEMMA SoundReports ==
  ASSUME slips \subseteq slips', \A i \in DOMAIN last' : Sound(last'[i])
  PROVE  Reports'
<1>1. (OneSlip' => OneSlip) /\ ("id" \notin slips' => "id" \notin slips)
  BY Grows
<1>2. \A e \in Ends' : Sound(e) /\ e.type[2] = "end"
  BY DEF Ends
<1>3. QED
  BY <1>1, <1>2 DEF Reports, DurationsExact, DistinctEndsArePaired, Sound

LEMMA NoEndReports ==
  ASSUME \A i \in DOMAIN last' : last'[i].type[2] # "end"
  PROVE  Reports'
<1>1. Ends' = {}
  BY DEF Ends
<1>2. QED
  BY <1>1 DEF Reports, DurationsExact, DistinctEndsArePaired

\* The lists of events a callback emits.
LEMMA Single ==
  ASSUME NEW a, NEW how
  PROVE  \/ Emitted(how, <<a>>) = <<>>
         \/ /\ Emitted(how, <<a>>) = <<a>> /\ DOMAIN <<a>> = {1} /\ <<a>>[1] = a
BY DEF Emitted

LEMMA TwoEvents ==
  ASSUME NEW a, NEW b
  PROVE  LET s == <<a>> \o <<b>>
         IN  Len(s) = 2 /\ DOMAIN s = {1, 2} /\ s[1] = a /\ s[2] = b
OBVIOUS

LEMMA OneEvent ==
  ASSUME NEW a
  PROVE  LET s == <<a>> \o <<>>
         IN  Len(s) = 1 /\ DOMAIN s = {1} /\ s[1] = a
OBVIOUS

LEMMA Pair ==
  ASSUME NEW a, NEW b, NEW how
  PROVE  LET s == <<a>> \o Emitted(how, <<b>>)
         IN  \/ Len(s) = 1 /\ DOMAIN s = {1} /\ s[1] = a
             \/ Len(s) = 2 /\ DOMAIN s = {1, 2} /\ s[1] = a /\ s[2] = b
<1>1. CASE Emitted(how, <<b>>) = <<>>
  BY <1>1, OneEvent
<1>2. CASE Emitted(how, <<b>>) = <<b>>
  <2> DEFINE s == <<a>> \o <<b>>
  <2>1. Len(s) = 2 /\ DOMAIN s = {1, 2} /\ s[1] = a /\ s[2] = b
    BY TwoEvents
  <2>2. <<a>> \o Emitted(how, <<b>>) = s
    BY <1>2
  <2> HIDE DEF s
  <2>3. QED
    BY <2>1, <2>2
<1>3. QED
  BY <1>1, <1>2, Single

\* What the end callback of the innermost item reports.
LEMMA PoppedIsSound ==
  ASSUME TypeOK, StampInv, open # <<>>
  PROVE  LET e == Event(Top.kind, "end", Since(started[Top.kind][Top.id], Now),
                        IF Top.kind \in Top.stamped THEN Now - Top.began ELSE -1)
         IN  Popped(Top.kind, Top.id, Now) = <<e>> /\ Sound(e)
<1> DEFINE s == started[Top.kind][Top.id]
           d == Since(s, Now)
           t == IF Top.kind \in Top.stamped THEN Now - Top.began ELSE -1
<1>1. /\ Len(open) \in 1..Len(open) /\ Len(open) \in Nat \ {0} /\ Top = open[Len(open)]
      /\ Top.kind \in Kind /\ Top.id \in Ids /\ Top.began \in Nat
  BY TopFacts DEF Item
<1>2. Now \in Nat /\ Top.began < Now
  BY <1>1, Clock DEF StampInv, Past
<1>3. Innermost(Len(open), Top.kind, Top.id)
  BY <1>1 DEF Innermost, Same
<1>4. OneSlip /\ s # None => s = Top.began /\ Top.kind \in Top.stamped
  BY <1>1, <1>3 DEF StampInv, StampsMatch
<1>5. "id" \notin slips /\ Top.kind \in Top.stamped => s # None
  BY <1>1 DEF StampInv, Stamped
<1>6. s \in Nat \cup {None} /\ (s # None => s < Now)
  BY <1>1 DEF TypeOK, StampInv, Past
<1> HIDE DEF s
<1>7. s # None => d = Now - s /\ d # -1
  BY <1>2, <1>6 DEF Since
<1>8. s = None => d = -1
  BY DEF Since
<1> HIDE DEF d
<1>9. OneSlip => d \in {-1, t}
  BY <1>4, <1>7, <1>8
<1>10. "id" \notin slips /\ t # -1 => d # -1
  BY <1>5, <1>7
<1> DEFINE e == Event(Top.kind, "end", d, t)
<1>11. e.duration = d /\ e.actual = t
  BY DEF Event
<1>12. Sound(e)
  BY <1>9, <1>10, <1>11 DEF Sound
<1>13. Popped(Top.kind, Top.id, Now) = <<e>>
  BY DEF Popped, d, s
<1>14. QED
  BY <1>12, <1>13 DEF d, s

\* What robot.run.end reports.
LEMMA RunEndIsSound ==
  ASSUME TypeOK, DepthInv, StampInv, open # <<>>, "depth" \notin slips, NEW tree
  PROVE  Sound(RunEnd(tree))
<1>1. Len(open) \in Nat \ {0} /\ 1 \in 1..Len(open) /\ open[1] \in Item
  BY TopFacts
<1>2. open[1].began \in Nat /\ open[1].began < Now
  BY <1>1 DEF Item, StampInv, Past
<1>3. Later \in Nat /\ open[1].began < Later
  BY <1>2, Clock
<1> DEFINE e == RunEnd(tree)
<1>4. /\ e.duration = Since(_run_started_ns, Later)
      /\ e.actual = IF "run" \in open[1].stamped THEN Later - open[1].began ELSE -1
  BY DEF RunEnd
<1> HIDE DEF e
<1>5. CASE "run" \in open[1].stamped
  <2>1. _run_started_ns = open[1].began
    BY <1>5 DEF DepthInv, RunStamped
  <2>2. e.duration = Later - open[1].began /\ e.duration # -1 /\ e.actual = e.duration
    BY <1>2, <1>3, <1>4, <1>5, <2>1, NoneAssumption DEF Since
  <2>3. QED
    BY <2>2 DEF Sound, e
<1>6. CASE "run" \notin open[1].stamped
  <2>1. OneSlip => _run_started_ns = None
    BY <1>6 DEF DepthInv, RunStamped
  <2>2. OneSlip => e.duration = -1
    BY <1>4, <2>1 DEF Since
  <2>3. e.actual = -1
    BY <1>4, <1>6
  <2>4. QED
    BY <2>2, <2>3 DEF Sound, e
<1>7. QED
  BY <1>5, <1>6

LEMMA StepReports ==
  ASSUME Inv, Reports, [Next]_vars
  PROVE  Reports'
<1> USE DEF Inv
<1>1. \A k, i : Started(k, i) = <<Event(k, "start", -1, -1)>>
  BY DEF Started
<1>2. \A k : Event(k, "start", -1, -1).type[2] # "end"
  BY DEF Event
<1>3. ASSUME NEW k, NEW how, last' = Emitted(how, <<Event(k, "start", -1, -1)>>)
      PROVE  Reports'
  BY <1>2, <1>3, Single, NoEndReports
<1>4. ASSUME last' = <<>> PROVE Reports'
  BY <1>4, NoEndReports
<1>5. ASSUME NEW id \in Ids, NEW how \in Outcome, StartSuite(id, how) PROVE Reports'
  BY <1>1, <1>3, <1>5 DEF StartSuite
<1>6. ASSUME NEW id \in Ids, NEW how \in Outcome, StartRun(id, how) PROVE Reports'
  <2> DEFINE r == Event("run", "start", -1, -1)
             e == Event("suite", "start", -1, -1)
  <2>1. last' = <<r>> \o Emitted(how, <<e>>) /\ r.type[2] # "end" /\ e.type[2] # "end"
    BY <1>1, <1>2, <1>6 DEF StartRun
  <2> HIDE DEF r, e
  <2>2. QED
    BY <2>1, Pair, NoEndReports
<1>7. ASSUME NEW id \in Ids, NEW how \in Outcome, StartRunRaises(id, how) PROVE Reports'
  BY <1>3, <1>7 DEF StartRunRaises
<1>8. ASSUME NEW id \in Ids, NEW how \in Outcome, StartTest(id, how) PROVE Reports'
  BY <1>1, <1>3, <1>8 DEF StartTest
<1>9. ASSUME NEW id \in Ids, NEW how \in Outcome, StartKeyword(id, how) PROVE Reports'
  BY <1>1, <1>3, <1>9 DEF StartKeyword
<1>10. ASSUME NEW id \in Ids, SkipKeyword(id) PROVE Reports'
  BY <1>4, <1>10 DEF SkipKeyword
<1>11. ASSUME open # <<>>, slips \subseteq slips', NEW how,
              last' = Emitted(how, Popped(Top.kind, Top.id, Now))
       PROVE  Reports'
  <2> DEFINE e == Event(Top.kind, "end", Since(started[Top.kind][Top.id], Now),
                        IF Top.kind \in Top.stamped THEN Now - Top.began ELSE -1)
  <2>1. Popped(Top.kind, Top.id, Now) = <<e>> /\ Sound(e)
    BY <1>11, PoppedIsSound
  <2> HIDE DEF e
  <2>2. QED
    BY <1>11, <2>1, Single, SoundReports
<1>12. ASSUME NEW teardown \in Teardown, EndSuite(teardown) PROVE Reports'
  <2>1. open # <<>> /\ Top.kind = "suite" /\ slips \subseteq slips'
    BY <1>12, CloseTypes DEF EndSuite
  <2>2. last' = Emitted("returns", Popped(Top.kind, Top.id, Now))
    BY <1>12, <2>1 DEF EndSuite, Emitted, Told
  <2>3. QED
    BY <1>11, <2>1, <2>2
<1>13. ASSUME NEW teardown \in Teardown, NEW how \in Outcome, EndRun(teardown, how)
       PROVE  Reports'
  <2> DEFINE e == Event(Top.kind, "end", Since(started[Top.kind][Top.id], Now),
                        IF Top.kind \in Top.stamped THEN Now - Top.began ELSE -1)
             r == RunEnd(Rewritten(teardown))
  <2>1. /\ CloseSuite(teardown) /\ _suite_depth' = _suite_depth - 1 /\ RunOver
        /\ slips \subseteq slips'
    BY <1>13 DEF EndRun
  <2>2. open # <<>> /\ Top.kind = "suite" /\ "depth" \notin slips
    BY <2>1, CloseTypes, CloseDepth DEF RunOver
  <2>3. Popped(Top.kind, Top.id, Now) = <<e>> /\ Sound(e)
    BY <2>2, PoppedIsSound
  <2>4. Sound(r)
    BY <2>2, RunEndIsSound
  <2>5. last' = Popped(Top.kind, Top.id, Now) \o Emitted(how, <<r>>)
    BY <1>13, <2>2 DEF EndRun
  <2> HIDE DEF e, r
  <2>6. last' = <<e>> \o Emitted(how, <<r>>)
    BY <2>3, <2>5
  <2>7. QED
    BY <2>1, <2>3, <2>4, <2>6, Pair, SoundReports
<1>14. ASSUME NEW teardown \in Teardown, NEW how \in Outcome, EndSuiteRaises(teardown, how)
       PROVE  Reports'
  <2>1. open # <<>> /\ Top.kind = "suite" /\ slips \subseteq slips'
    BY <1>14, CloseTypes DEF EndSuiteRaises
  <2>2. QED
    BY <1>11, <1>14, <2>1 DEF EndSuiteRaises
<1>15. ASSUME NEW status \in Status, NEW how \in Outcome, EndTest(status, how) PROVE Reports'
  <2>1. open # <<>> /\ Top.kind = "test" /\ slips \subseteq slips'
    BY <1>15 DEF EndTest, Inside
  <2>2. QED
    BY <1>11, <1>15, <2>1 DEF EndTest
<1>16. ASSUME NEW how \in Outcome, EndKeyword(how) PROVE Reports'
  <2>1. open # <<>> /\ Top.kind = "keyword" /\ slips \subseteq slips'
    BY <1>16 DEF EndKeyword, Inside
  <2>2. QED
    BY <1>11, <1>16, <2>1 DEF EndKeyword
<1>17. CASE UNCHANGED vars
  BY <1>17 DEF vars, Reports, DurationsExact, DistinctEndsArePaired, OneSlip, Ends
<1>18. QED
  BY <1>5, <1>6, <1>7, <1>8, <1>9, <1>10, <1>12, <1>13, <1>14, <1>15, <1>16, <1>17
  DEF Next, Quiet
-----------------------------------------------------------------------------
(* The level of robot.run.end.                                              *)

\* No test that ended FAIL counts as passed: a teardown only fails or skips.
FailuresStay ==
  \A i \in DOMAIN results : results[i].ended = "FAIL" => results[i].now # "PASS"

LEMMA StepFailures ==
  ASSUME TypeOK, FailuresStay, [Next]_vars
  PROVE  FailuresStay'
<1>1. ASSUME UNCHANGED results PROVE FailuresStay'
  BY <1>1 DEF FailuresStay
<1>2. ASSUME NEW id, NEW s, OpenSuite(id, s) PROVE FailuresStay'
  BY <1>2 DEF OpenSuite, FailuresStay
<1>3. ASSUME NEW teardown \in Teardown, CloseSuite(teardown) PROVE FailuresStay'
  <2> DEFINE r == Rewritten(teardown)
  <2>1. /\ DOMAIN r = DOMAIN results
        /\ \A i \in DOMAIN results : /\ r[i].ended = results[i].ended
                                     /\ r[i].now \in {results[i].now, "FAIL", "SKIP"}
    BY RewrittenFacts
  <2>2. results' = r
    BY <1>3 DEF CloseSuite
  <2> HIDE DEF r
  <2>3. \A i \in DOMAIN r : r[i].ended = "FAIL" => r[i].now # "PASS"
    BY <2>1 DEF FailuresStay
  <2>4. QED
    BY <2>2, <2>3 DEF FailuresStay
<1>4. ASSUME NEW status \in Status, NEW how \in Outcome, EndTest(status, how) PROVE FailuresStay'
  <2> DEFINE e == [ended |-> status, told |-> Told(how), now |-> status]
  <2>1. e \in Result /\ e.ended = e.now
    BY DEF Result, Told
  <2>2. results' = Append(results, e)
    BY <1>4 DEF EndTest
  <2> HIDE DEF e
  <2>3. /\ Len(results) \in Nat /\ results' \in Seq(Result) /\ Len(results') = Len(results) + 1
        /\ \A i \in 1..Len(results) : results'[i] = results[i]
        /\ results'[Len(results) + 1] = e
    BY <2>1, <2>2, AppendProperties DEF TypeOK
  <2>4. \A i \in 1..Len(results') : i \in 1..Len(results) \/ results'[i] = e
    BY <2>3
  <2>5. DOMAIN results = 1..Len(results) /\ DOMAIN results' = 1..Len(results')
    BY <2>3 DEF TypeOK
  <2>6. QED
    BY <2>1, <2>3, <2>4, <2>5 DEF FailuresStay
<1>5. QED
  BY <1>1, <1>2, <1>3, <1>4
  DEF Next, vars, StartSuite, StartRun, StartRunRaises, StartTest, StartKeyword, SkipKeyword,
      EndSuite, EndRun, EndSuiteRaises, EndKeyword, Quiet

LEMMA IntervalFinite ==
  ASSUME NEW n \in Nat
  PROVE  IsFiniteSet(1..n)
BY FS_Interval

\* Failures in the tree, and tests that reported ERROR.
LEMMA Agreement ==
  ASSUME NEW r \in Seq(Result),
         \A i \in DOMAIN r : r[i].ended = "FAIL" => r[i].now # "PASS"
  PROVE  LET failed == RunTotals(r).failed
             errors == Cardinality({i \in DOMAIN r : r[i].told /\ r[i].ended = "FAIL"}) IN
         /\ (\A t \in DOMAIN r : r[t].now = "SKIP" => r[t].ended = "SKIP")
              => errors <= failed
         /\ (\A t \in DOMAIN r : r[t].told /\ r[t].now = r[t].ended)
              => errors = failed
<1> DEFINE F == {i \in DOMAIN r : r[i].now \in Status \ {"PASS", "SKIP"}}
           E == {i \in DOMAIN r : r[i].told /\ r[i].ended = "FAIL"}
<1>1. RunTotals(r).failed = Cardinality(F)
  BY DEF RunTotals, Counted
<1>2. /\ Len(r) \in Nat /\ DOMAIN r = 1..Len(r)
      /\ \A i \in DOMAIN r : r[i] \in Result
  OBVIOUS
<1>3. \A i \in DOMAIN r : r[i].now \in Status
  BY <1>2 DEF Result
<1>4. IsFiniteSet(F)
  <2>1. F \in SUBSET (1..Len(r)) /\ IsFiniteSet(1..Len(r))
    BY <1>2, IntervalFinite
  <2> HIDE DEF F
  <2>2. QED
    BY <2>1, FS_Subset
<1>5. ASSUME \A t \in DOMAIN r : r[t].now = "SKIP" => r[t].ended = "SKIP"
      PROVE  Cardinality(E) <= Cardinality(F)
  <2>1. E \in SUBSET F
    BY <1>3, <1>5 DEF Status
  <2> HIDE DEF E, F
  <2>2. QED
    BY <1>4, <2>1, FS_Subset
<1>6. ASSUME \A t \in DOMAIN r : r[t].told /\ r[t].now = r[t].ended
      PROVE  E = F
  BY <1>3, <1>6 DEF Status
<1> HIDE DEF E, F
<1>7. QED
  BY <1>1, <1>5, <1>6 DEF E

\* No callback but the one that ends the run emits a robot.run.end.
LEMMA NotTheRunEnd ==
  ASSUME NEW kind \in Kind, NEW phase, NEW duration, NEW actual, NEW e,
         e = Event(kind, phase, duration, actual) \/ e = Event("run", "start", -1, -1)
  PROVE  e.type # <<"run", "end">>
BY DEF Event, Kind

LEMMA StepRunEnd ==
  ASSUME TypeOK, TypeOK', FailuresStay', RunEndAgrees, [Next]_vars
  PROVE  RunEndAgrees'
<1>1. ASSUME \A i \in DOMAIN last' : last'[i].type # <<"run", "end">> PROVE RunEndAgrees'
  BY <1>1 DEF RunEndAgrees
<1>2. ASSUME NEW e, NEW how, last' = Emitted(how, <<e>>), e.type # <<"run", "end">>
      PROVE  RunEndAgrees'
  BY <1>1, <1>2, Single
<1>3. ASSUME last' = <<>> PROVE RunEndAgrees'
  BY <1>1, <1>3
<1>4. ASSUME NEW kind \in Kind, NEW id, NEW how, last' = Emitted(how, Started(kind, id))
      PROVE  RunEndAgrees'
  BY <1>2, <1>4, NotTheRunEnd DEF Started
<1>5. ASSUME NEW kind \in Kind, NEW id, NEW ns, NEW how, last' = Emitted(how, Popped(kind, id, ns))
      PROVE  RunEndAgrees'
  BY <1>2, <1>5, NotTheRunEnd DEF Popped
<1>6. "suite" \in Kind /\ "test" \in Kind /\ "keyword" \in Kind
  BY DEF Kind
<1>7. ASSUME NEW id \in Ids, NEW how \in Outcome, StartSuite(id, how) PROVE RunEndAgrees'
  BY <1>4, <1>6, <1>7 DEF StartSuite
<1>8. ASSUME NEW id \in Ids, NEW how \in Outcome, StartRun(id, how) PROVE RunEndAgrees'
  <2> DEFINE r == Event("run", "start", -1, -1)
             e == Event("suite", "start", -1, -1)
  <2>1. last' = <<r>> \o Emitted(how, <<e>>)
    BY <1>8 DEF StartRun, Started
  <2>2. r.type # <<"run", "end">> /\ e.type # <<"run", "end">>
    BY DEF Event
  <2> HIDE DEF r, e
  <2>3. QED
    BY <1>1, <2>1, <2>2, Pair
<1>9. ASSUME NEW id \in Ids, NEW how \in Outcome, StartRunRaises(id, how) PROVE RunEndAgrees'
  <2>1. Event("run", "start", -1, -1).type # <<"run", "end">>
    BY DEF Event
  <2>2. QED
    BY <1>2, <1>9, <2>1 DEF StartRunRaises
<1>10. ASSUME NEW teardown \in Teardown, EndSuite(teardown) PROVE RunEndAgrees'
  <2>1. last' = Emitted("returns", Popped("suite", Top.id, Now))
    BY <1>10 DEF EndSuite, Emitted, Told
  <2>2. QED
    BY <1>5, <1>6, <2>1
<1>11. ASSUME NEW teardown \in Teardown, NEW how \in Outcome, EndRun(teardown, how)
       PROVE  RunEndAgrees'
  <2> DEFINE t == IF "suite" \in Top.stamped THEN Now - Top.began ELSE -1
             e == Event("suite", "end", Since(started["suite"][Top.id], Now), t)
             r == RunEnd(Rewritten(teardown))
  <2>1. Popped("suite", Top.id, Now) = <<e>> /\ e.type # <<"run", "end">>
    BY DEF Popped, Event
  <2>2. results' = Rewritten(teardown)
    BY <1>11 DEF EndRun, CloseSuite
  <2>3. r.failed = RunTotals(results').failed
    BY <2>2 DEF RunEnd
  <2>4. last' = Popped("suite", Top.id, Now) \o Emitted(how, <<r>>)
    BY <1>11 DEF EndRun
  <2> HIDE DEF e, r
  <2>5. last' = <<e>> \o Emitted(how, <<r>>)
    BY <2>1, <2>4
  <2>6. \/ DOMAIN last' = {1} /\ last'[1] = e
        \/ Len(last') = 2 /\ DOMAIN last' = {1, 2} /\ last'[1] = e /\ last'[2] = r
    BY <2>5, Pair
  <2>7. /\ results' \in Seq(Result)
        /\ \A i \in DOMAIN results' : results'[i].ended = "FAIL" => results'[i].now # "PASS"
        /\ Errors' = Cardinality({i \in DOMAIN results' :
                                    results'[i].told /\ results'[i].ended = "FAIL"})
    BY DEF TypeOK, FailuresStay, Errors
  <2>8. /\ (\A i \in DOMAIN results' : results'[i].now = "SKIP" => results'[i].ended = "SKIP")
             => Errors' <= r.failed
        /\ (\A i \in DOMAIN results' : results'[i].told /\ results'[i].now = results'[i].ended)
             => Errors' = r.failed
    BY <2>3, <2>7, Agreement
  <2>9. QED
    BY <2>1, <2>6, <2>8 DEF RunEndAgrees
<1>12. ASSUME NEW teardown \in Teardown, NEW how \in Outcome, EndSuiteRaises(teardown, how)
       PROVE  RunEndAgrees'
  BY <1>5, <1>6, <1>12 DEF EndSuiteRaises
<1>13. ASSUME NEW id \in Ids, NEW how \in Outcome, StartTest(id, how) PROVE RunEndAgrees'
  BY <1>4, <1>6, <1>13 DEF StartTest
<1>14. ASSUME NEW id \in Ids, NEW how \in Outcome, StartKeyword(id, how) PROVE RunEndAgrees'
  BY <1>4, <1>6, <1>14 DEF StartKeyword
<1>15. ASSUME NEW status \in Status, NEW how \in Outcome, EndTest(status, how) PROVE RunEndAgrees'
  BY <1>5, <1>6, <1>15 DEF EndTest
<1>16. ASSUME NEW how \in Outcome, EndKeyword(how) PROVE RunEndAgrees'
  BY <1>5, <1>6, <1>16 DEF EndKeyword
<1>17. ASSUME NEW id \in Ids, SkipKeyword(id) PROVE RunEndAgrees'
  BY <1>3, <1>17 DEF SkipKeyword
<1>18. CASE UNCHANGED vars
  BY <1>18 DEF vars, RunEndAgrees, Errors
<1>19. QED
  BY <1>7, <1>8, <1>9, <1>10, <1>11, <1>12, <1>13, <1>14, <1>15, <1>16, <1>17, <1>18
  DEF Next, Quiet

-----------------------------------------------------------------------------
(* The theorems.                                                            *)

LEMMA InvIsInvariant == Spec => [](Inv /\ Reports)
<1>1. Init => Inv /\ Reports
  <2>1. Init => Ends = {}
    BY DEF Init, Ends
  <2>2. QED
    BY <2>1, InitInv DEF Reports, DurationsExact, DistinctEndsArePaired
<1>2. Inv /\ Reports /\ [Next]_vars => (Inv /\ Reports)'
  BY StepTypeOK, StepDepth, StepStamps, StepReports DEF Inv
<1>3. QED
  BY <1>1, <1>2, PTL DEF Spec

\* on_run_start and on_run_end are called once for each run, however many runs
\* an instance serves, until on_suite_end raises; after that, not once more.
THEOREM OneRunEventEach == Spec => []RunEventsOnce
<1>1. Inv => RunEventsOnce
  BY DEF Inv, DepthInv
<1>2. QED
  BY <1>1, InvIsInvariant, PTL

\* While every end hook gets as far as its stamp, a stamp belongs to something
\* that is open.
THEOREM StampsDoNotLeak == Spec => []NoStampLeft
<1>1. Inv => NoStampLeft
  <2>1. open \in Seq(Item) => DOMAIN open = 1..Len(open)
    OBVIOUS
  <2>2. QED
    BY <2>1 DEF Inv, TypeOK, StampInv, StampsOpen, Same, DepthInv, NoRunStampLeft, NoStampLeft
<1>2. QED
  BY <1>1, InvIsInvariant, PTL

\* A duration in an end event is the time since the start of what ended, unless
\* two of the things that confuse the stamps came together.
THEOREM DurationsAreExact == Spec => []DurationsExact
<1>1. Reports => DurationsExact
  BY DEF Reports
<1>2. QED
  BY <1>1, InvIsInvariant, PTL

\* In a run whose nested keywords have ids of their own, every end event has
\* one if the start of what ended left its stamp, whichever other hooks raised.
THEOREM DistinctPaired == Spec => []DistinctEndsArePaired
<1>1. Reports => DistinctEndsArePaired
  BY DEF Reports
<1>2. QED
  BY <1>1, InvIsInvariant, PTL

\* robot.run.end is the last event of its callback; the failures it counts
\* cover those the tests reported, unless a teardown skipped one of these, and
\* are the same while no teardown rewrote a status and every test reported.
THEOREM RunEndIsRight == Spec => []RunEndAgrees
<1>1. Init => TypeOK /\ FailuresStay /\ RunEndAgrees
  BY InitInv DEF Init, Inv, FailuresStay, RunEndAgrees
<1>2. /\ TypeOK /\ FailuresStay /\ RunEndAgrees
      /\ [Next]_vars
      => (TypeOK /\ FailuresStay /\ RunEndAgrees)'
  BY StepTypeOK, StepFailures, StepRunEnd
<1>3. QED
  BY <1>1, <1>2, PTL DEF Spec
=============================================================================
