--------------------------- MODULE PipelineProofs ---------------------------
(* Theorems about Pipeline, for any callers, any number of children and any *)
(* number of calls.                                                         *)
EXTENDS Pipeline, SequenceTheorems, FiniteSetTheorems, TLAPS

Calls == [by : Callers, n : Nat, method : Methods]

TypeOK ==
  /\ pc \in [Callers -> {"idle", "block", "child"}]
  /\ call \in [Callers -> Calls]
  /\ next \in [Callers -> Child]
  /\ app \in [Callers -> {"ok", "raised"}]
  /\ told \in [Callers -> {"ok", "raised", "telemetry"}]
  /\ extras \in [Callers -> BOOLEAN]
  /\ stalled \subseteq Child
  /\ offers \in [Child -> Seq(Calls)]
  /\ returned \subseteq Calls
  /\ made \in [Callers -> Nat]

Reached(c, k) == \E i \in 1..Len(offers[c]) : offers[c][i] = k

\* No child saw a call of the future; while a block runs, its number is unused.
OffersArePast ==
  \A c \in Child : \A i \in 1..Len(offers[c]) :
    LET k == offers[c][i] IN
    /\ k.n <= made[k.by]
    /\ pc[k.by] = "block" => k.n < made[k.by]

\* A call under way is its caller's latest, and has reached the children
\* before the one whose turn it is.
UnderWay ==
  \A t \in Callers : pc[t] = "child" =>
    /\ call[t].by = t
    /\ call[t].n = made[t]
    /\ \A c \in Child : Reached(c, call[t]) <=> c < next[t]

NoneTwice ==
  \A c \in Child : \A i, j \in 1..Len(offers[c]) : i # j => offers[c][i] # offers[c][j]

ReturnedReached == \A k \in returned, c \in Child : Reached(c, k)

Inv == TypeOK /\ OffersArePast /\ UnderWay /\ NoneTwice /\ ReturnedReached /\ AppOutcomeKept

LEMMA ChildFacts == Child \subseteq Nat \ {0} /\ Children \in Child /\ 1 \in Child
BY ChildrenAssumption DEF Child

LEMMA OfferedCalls ==
  ASSUME TypeOK, NEW c \in Child, NEW i \in 1..Len(offers[c])
  PROVE  offers[c][i] \in Calls /\ offers[c][i].by \in Callers /\ offers[c][i].n \in Nat
<1>1. offers[c] \in Seq(Calls)
  BY DEF TypeOK
<1>2. offers[c][i] \in Calls
  BY <1>1
<1>3. QED
  BY <1>2 DEF Calls

LEMMA InitInv == Init => Inv
<1> SUFFICES ASSUME Init PROVE Inv
  OBVIOUS
<1>1. TypeOK
  <2>1. call \in [Callers -> Calls]
    BY DEF Init, Calls, Methods
  <2>2. offers \in [Child -> Seq(Calls)]
    BY DEF Init
  <2>3. next \in [Callers -> Child]
    BY ChildFacts DEF Init
  <2>4. QED
    BY <2>1, <2>2, <2>3 DEF Init, TypeOK
<1>2. \A c \in Child : Len(offers[c]) = 0
  BY DEF Init
<1>3. OffersArePast /\ NoneTwice
  BY <1>2 DEF OffersArePast, NoneTwice
<1>4. UnderWay /\ ReturnedReached /\ AppOutcomeKept
  BY DEF Init, UnderWay, ReturnedReached, AppOutcomeKept
<1>5. QED
  BY <1>1, <1>3, <1>4 DEF Inv

\* A call that begins is new to every child.
LEMMA Forwarded ==
  ASSUME Inv, NEW t \in Callers, NEW method \in Methods, Forward(t, method),
         NEW outcome \in {"ok", "raised"}, app' = [app EXCEPT ![t] = outcome],
         extras' = [extras EXCEPT ![t] = TRUE],
         \/ pc[t] = "idle" /\ made' = [made EXCEPT ![t] = @ + 1]
         \/ pc[t] = "block" /\ UNCHANGED made
  PROVE  Inv'
<1> USE DEF Inv
<1>1. made' \in [Callers -> Nat] /\ \A u \in Callers : made[u] <= made'[u]
  <2>1. CASE made' = [made EXCEPT ![t] = @ + 1]
    BY <2>1 DEF TypeOK
  <2>2. CASE UNCHANGED made
    BY <2>2 DEF TypeOK
  <2>3. QED
    BY <2>1, <2>2
<1>2. TypeOK'
  <2>1. call' \in [Callers -> Calls]
    BY <1>1 DEF TypeOK, Forward, Calls
  <2>2. next' \in [Callers -> Child]
    BY ChildFacts DEF TypeOK, Forward
  <2>3. pc' \in [Callers -> {"idle", "block", "child"}]
    BY DEF TypeOK, Forward
  <2>4. UNCHANGED <<told, stalled, offers, returned>>
    BY DEF Forward
  <2>5. QED
    BY <1>1, <2>1, <2>2, <2>3, <2>4 DEF TypeOK
<1>3. \A c \in Child : \A i \in 1..Len(offers[c]) :
        /\ offers[c][i] \in Calls
        /\ offers[c][i].by \in Callers
        /\ offers[c][i].n \in Nat
  BY OfferedCalls
<1>4. \A c \in Child : \A i \in 1..Len(offers[c]) : offers[c][i].by = t => offers[c][i].n < made'[t]
  <2> SUFFICES ASSUME NEW c \in Child, NEW i \in 1..Len(offers[c]), offers[c][i].by = t
               PROVE  offers[c][i].n < made'[t]
    OBVIOUS
  <2>1. offers[c][i].n <= made[t] /\ (pc[t] = "block" => offers[c][i].n < made[t])
    BY DEF OffersArePast
  <2>2. offers[c][i].n \in Nat /\ made[t] \in Nat
    BY <1>3 DEF TypeOK
  <2>3. CASE pc[t] = "idle" /\ made' = [made EXCEPT ![t] = @ + 1]
    BY <2>1, <2>2, <2>3 DEF TypeOK
  <2>4. CASE pc[t] = "block" /\ UNCHANGED made
    BY <2>1, <2>4
  <2>5. QED
    BY <2>3, <2>4
<1>5. /\ offers' = offers /\ returned' = returned /\ pc'[t] = "child" /\ next'[t] = 1
      /\ call'[t] = [by |-> t, n |-> made'[t], method |-> method]
      /\ \A u \in Callers \ {t} : /\ pc'[u] = pc[u] /\ call'[u] = call[u] /\ next'[u] = next[u]
                                  /\ made'[u] = made[u]
  BY DEF Forward, TypeOK
<1>6. OffersArePast'
  <2> SUFFICES ASSUME NEW c \in Child, NEW i \in 1..Len(offers[c])
               PROVE  /\ offers[c][i].n <= made'[offers[c][i].by]
                      /\ pc'[offers[c][i].by] = "block" => offers[c][i].n < made'[offers[c][i].by]
    BY <1>5 DEF OffersArePast
  <2>1. CASE offers[c][i].by = t
    BY <1>1, <1>3, <1>4, <1>5, <2>1
  <2>2. CASE offers[c][i].by # t
    BY <1>3, <1>5, <2>2 DEF OffersArePast
  <2>3. QED
    BY <2>1, <2>2
<1>7. UnderWay'
  <2> SUFFICES ASSUME NEW u \in Callers, pc'[u] = "child"
               PROVE  /\ call'[u].by = u /\ call'[u].n = made'[u]
                      /\ \A c \in Child : Reached(c, call'[u]) <=> c < next'[u]
    BY <1>5 DEF UnderWay, Reached
  <2>1. CASE u = t
    <3>1. \A c \in Child : ~Reached(c, call'[t])
      BY <1>1, <1>3, <1>4, <1>5 DEF Reached
    <3>2. \A c \in Child : ~(c < 1)
      BY ChildFacts
    <3>3. QED
      BY <1>5, <2>1, <3>1, <3>2
  <2>2. CASE u # t
    BY <1>5, <2>2 DEF UnderWay
  <2>3. QED
    BY <2>1, <2>2
<1>8. NoneTwice' /\ ReturnedReached'
  BY <1>5 DEF NoneTwice, ReturnedReached, Reached
<1>9. AppOutcomeKept'
  BY <1>5 DEF AppOutcomeKept, TypeOK, Forward
<1>10. QED
  BY <1>2, <1>6, <1>7, <1>8, <1>9

\* A child's turn, whether it answered or raised.
LEMMA Served ==
  ASSUME Inv, NEW t \in Callers, AtChild(t), Offered(t), Turn(t),
         UNCHANGED <<call, app, extras, stalled, made>>
  PROVE  Inv'
<1> USE DEF Inv
<1> DEFINE m == next[t]
<1> DEFINE k == call[t]
<1>1. /\ m \in Child /\ k \in Calls /\ pc[t] = "child" /\ k.by = t /\ k.n = made[t]
      /\ \A c \in Child : Reached(c, k) <=> c < m
  BY DEF TypeOK, AtChild, UnderWay
<1>2. Child \subseteq Nat \ {0} /\ Children \in Child
  BY ChildFacts
<1>3. \A c \in Child : offers[c] \in Seq(Calls)
  BY DEF TypeOK
<1>4. /\ offers'[m] = Append(offers[m], k)
      /\ \A c \in Child : c # m => offers'[c] = offers[c]
      /\ offers' \in [Child -> Seq(Calls)]
  <2>1. Append(offers[m], k) \in Seq(Calls)
    BY <1>1, <1>3
  <2>2. offers' = [offers EXCEPT ![m] = Append(offers[m], k)]
    BY DEF Offered
  <2>3. QED
    BY <1>1, <2>1, <2>2 DEF TypeOK
<1> HIDE DEF m, k
<1>5. /\ Len(offers'[m]) = Len(offers[m]) + 1 /\ Len(offers[m]) \in Nat
      /\ \A i \in 1..Len(offers[m]) : offers'[m][i] = offers[m][i]
      /\ offers'[m][Len(offers[m]) + 1] = k
  BY <1>1, <1>3, <1>4, AppendProperties
<1>6. \A i \in 1..Len(offers'[m]) : i \in 1..Len(offers[m]) \/ i = Len(offers[m]) + 1
  BY <1>5
<1>7. \A c \in Child : \A x : (\E i \in 1..Len(offers'[c]) : offers'[c][i] = x)
                            <=> Reached(c, x) \/ (c = m /\ x = k)
  <2> SUFFICES ASSUME NEW c \in Child, NEW x
               PROVE  (\E i \in 1..Len(offers'[c]) : offers'[c][i] = x)
                        <=> Reached(c, x) \/ (c = m /\ x = k)
    OBVIOUS
  <2>1. CASE c # m
    BY <1>4, <2>1 DEF Reached
  <2>2. CASE c = m
    <3>1. Len(offers[m]) + 1 \in 1..Len(offers'[m]) /\ \A i \in 1..Len(offers[m]) : i \in 1..Len(offers'[m])
      BY <1>5
    <3>2. QED
      BY <1>5, <1>6, <2>2, <3>1 DEF Reached
  <2>3. QED
    BY <2>1, <2>2
<1>8. \/ /\ m = Children /\ pc' = [pc EXCEPT ![t] = "idle"] /\ told' = [told EXCEPT ![t] = app[t]]
         /\ returned' = returned \cup {k} /\ next' = next
      \/ /\ m # Children /\ next' = [next EXCEPT ![t] = m + 1] /\ UNCHANGED <<pc, told, returned>>
  BY DEF Turn, Return, m, k
<1>9. m # Children => m + 1 \in Child
  BY <1>1, ChildrenAssumption DEF Child
<1>10. TypeOK'
  <2>1. next' \in [Callers -> Child]
    BY <1>8, <1>9 DEF TypeOK
  <2>2. pc' \in [Callers -> {"idle", "block", "child"}] /\ returned' \subseteq Calls
    BY <1>1, <1>8 DEF TypeOK
  <2>3. told' \in [Callers -> {"ok", "raised", "telemetry"}]
    <3>1. told \in [Callers -> {"ok", "raised", "telemetry"}] /\ app[t] \in {"ok", "raised"}
      BY DEF TypeOK
    <3>2. told' = told \/ told' = [told EXCEPT ![t] = app[t]]
      BY <1>8
    <3>3. QED
      BY <3>1, <3>2
  <2>4. QED
    BY <1>4, <2>1, <2>2, <2>3 DEF TypeOK
<1>11. \A u \in Callers : pc'[u] # pc[u] => u = t /\ pc'[u] = "idle"
  BY <1>8 DEF TypeOK
<1>12. OffersArePast'
  <2> SUFFICES ASSUME NEW c \in Child, NEW i \in 1..Len(offers'[c])
               PROVE  /\ offers'[c][i].n <= made[offers'[c][i].by]
                      /\ pc'[offers'[c][i].by] = "block" => offers'[c][i].n < made[offers'[c][i].by]
    BY DEF OffersArePast
  <2>1. CASE c = m /\ i = Len(offers[m]) + 1
    <3>1. made[t] \in Nat /\ pc'[t] # "block"
      BY <1>1, <1>11 DEF TypeOK
    <3>2. QED
      BY <1>1, <1>5, <2>1, <3>1
  <2>2. CASE ~(c = m /\ i = Len(offers[m]) + 1)
    <3>1. i \in 1..Len(offers[c]) /\ offers'[c][i] = offers[c][i]
      BY <1>4, <1>5, <1>6, <2>2
    <3>2. offers[c][i].by \in Callers
      BY <3>1, OfferedCalls
    <3>3. pc'[offers[c][i].by] = "block" => pc[offers[c][i].by] = "block"
      BY <1>11, <3>2
    <3>4. QED
      BY <3>1, <3>3 DEF OffersArePast
  <2>3. QED
    BY <2>1, <2>2
<1>13. UnderWay'
  <2> SUFFICES ASSUME NEW u \in Callers, pc'[u] = "child"
               PROVE  /\ call[u].by = u /\ call[u].n = made[u]
                      /\ \A c \in Child : (Reached(c, call[u]) \/ (c = m /\ call[u] = k)) <=> c < next'[u]
    <3>1. \A c \in Child, u \in Callers :
            Reached(c, call[u])' <=> Reached(c, call[u]) \/ (c = m /\ call[u] = k)
      BY <1>7 DEF Reached
    <3>2. call' = call /\ made' = made
      OBVIOUS
    <3>3. QED
      BY <3>1, <3>2 DEF UnderWay
  <2>1. pc[u] = "child"
    BY <1>11
  <2>2. CASE u = t
    <3>1. m # Children /\ next'[u] = m + 1
      BY <1>8, <2>2 DEF TypeOK
    <3>2. \A c \in Child : c < m + 1 <=> c < m \/ c = m
      BY <1>1, <1>2
    <3>3. QED
      BY <1>1, <2>2, <3>1, <3>2 DEF k
  <2>3. CASE u # t
    <3>1. next'[u] = next[u]
      BY <1>8, <2>3 DEF TypeOK
    <3>2. call[u] # k
      BY <1>1, <2>1, <2>3 DEF UnderWay
    <3>3. QED
      BY <2>1, <3>1, <3>2 DEF UnderWay
  <2>4. QED
    BY <2>2, <2>3
<1>14. NoneTwice'
  <2> SUFFICES ASSUME NEW c \in Child, NEW i \in 1..Len(offers'[c]), NEW j \in 1..Len(offers'[c]), i # j
               PROVE  offers'[c][i] # offers'[c][j]
    BY DEF NoneTwice
  <2>1. CASE c # m
    BY <1>4, <2>1 DEF NoneTwice
  <2>2. CASE c = m
    <3>1. \A l \in 1..Len(offers[m]) : offers[m][l] # k
      BY <1>1, <1>2 DEF Reached
    <3>2. CASE i \in 1..Len(offers[m]) /\ j \in 1..Len(offers[m])
      BY <1>1, <1>5, <2>2, <3>2 DEF NoneTwice
    <3>3. CASE i \in 1..Len(offers[m]) /\ j = Len(offers[m]) + 1
      BY <1>5, <2>2, <3>1, <3>3
    <3>4. CASE i = Len(offers[m]) + 1 /\ j \in 1..Len(offers[m])
      BY <1>5, <2>2, <3>1, <3>4
    <3>5. QED
      BY <1>6, <2>2, <3>2, <3>3, <3>4
  <2>3. QED
    BY <2>1, <2>2
<1>15. ReturnedReached'
  <2> SUFFICES ASSUME NEW x \in returned', NEW c \in Child
               PROVE  Reached(c, x) \/ (c = m /\ x = k)
    BY <1>7 DEF ReturnedReached, Reached
  <2>1. CASE x \in returned
    BY <2>1 DEF ReturnedReached
  <2>2. CASE x \notin returned
    <3>1. x = k /\ m = Children
      BY <1>8, <2>2
    <3>2. c < m \/ c = m
      BY <3>1, ChildrenAssumption DEF Child
    <3>3. QED
      BY <1>1, <3>1, <3>2
  <2>3. QED
    BY <2>1, <2>2
<1>16. AppOutcomeKept'
  BY <1>1, <1>8 DEF AppOutcomeKept, TypeOK
<1>17. QED
  BY <1>10, <1>12, <1>13, <1>14, <1>15, <1>16

LEMMA StepInv ==
  ASSUME Inv, [Next]_vars
  PROVE  Inv'
<1> USE DEF Inv
<1>1. ASSUME NEW t \in Callers, NEW method \in Methods, CallSink(t, method) PROVE Inv'
  BY <1>1, Forwarded DEF CallSink
<1>2. ASSUME NEW t \in Callers, EnterBlock(t) PROVE Inv'
  <2>1. /\ made' = [made EXCEPT ![t] = @ + 1] /\ pc' = [pc EXCEPT ![t] = "block"] /\ pc[t] = "idle"
        /\ UNCHANGED <<call, next, app, told, extras, stalled, offers, returned>>
    BY <1>2 DEF EnterBlock
  <2>2. TypeOK'
    BY <2>1 DEF TypeOK
  <2>3. OffersArePast'
    <3> SUFFICES ASSUME NEW c \in Child, NEW i \in 1..Len(offers[c])
                 PROVE  /\ offers[c][i].n <= made'[offers[c][i].by]
                        /\ pc'[offers[c][i].by] = "block" => offers[c][i].n < made'[offers[c][i].by]
      BY <2>1 DEF OffersArePast
    <3>1. offers[c][i].by \in Callers /\ offers[c][i].n \in Nat
      BY OfferedCalls
    <3>2. /\ offers[c][i].n <= made[offers[c][i].by]
          /\ pc[offers[c][i].by] = "block" => offers[c][i].n < made[offers[c][i].by]
      BY DEF OffersArePast
    <3>3. \A u \in Callers : made[u] \in Nat /\ (u = t => made'[u] = made[u] + 1)
                             /\ (u # t => made'[u] = made[u] /\ pc'[u] = pc[u])
      BY <2>1 DEF TypeOK
    <3>4. CASE offers[c][i].by = t
      BY <3>1, <3>2, <3>3, <3>4
    <3>5. CASE offers[c][i].by # t
      BY <3>1, <3>2, <3>3, <3>5
    <3>6. QED
      BY <3>4, <3>5
  <2>4. UnderWay'
    BY <2>1 DEF UnderWay, Reached, TypeOK
  <2>5. NoneTwice' /\ ReturnedReached'
    BY <2>1 DEF NoneTwice, ReturnedReached, Reached
  <2>6. AppOutcomeKept'
    BY <2>1 DEF AppOutcomeKept, TypeOK
  <2>7. QED
    BY <2>2, <2>3, <2>4, <2>5, <2>6
<1>3. ASSUME NEW t \in Callers, NEW outcome \in {"ok", "raised"}, LeaveBlock(t, outcome) PROVE Inv'
  BY <1>3, Forwarded DEF LeaveBlock, Methods
<1>4. ASSUME NEW t \in Callers, NEW outcome \in {"ok", "raised"}, LeaveBlockInvalid(t, outcome) PROVE Inv'
  <2>1. /\ pc[t] = "block" /\ pc' = [pc EXCEPT ![t] = "idle"] /\ app' = [app EXCEPT ![t] = outcome]
        /\ extras' = [extras EXCEPT ![t] = FALSE] /\ told' = [told EXCEPT ![t] = "telemetry"]
        /\ UNCHANGED <<call, next, stalled, offers, returned, made>>
    BY <1>4 DEF LeaveBlockInvalid
  <2>2. TypeOK'
    BY <2>1 DEF TypeOK
  <2>3. OffersArePast'
    <3>1. \A c \in Child : \A i \in 1..Len(offers[c]) : offers[c][i].by \in Callers
      BY OfferedCalls
    <3>2. \A u \in Callers : pc'[u] = "block" => pc[u] = "block"
      BY <2>1 DEF TypeOK
    <3>3. QED
      BY <2>1, <3>1, <3>2 DEF OffersArePast
  <2>4. UnderWay'
    BY <2>1 DEF UnderWay, Reached, TypeOK
  <2>5. NoneTwice' /\ ReturnedReached'
    BY <2>1 DEF NoneTwice, ReturnedReached, Reached
  <2>6. AppOutcomeKept'
    BY <2>1 DEF AppOutcomeKept, TypeOK
  <2>7. QED
    BY <2>2, <2>3, <2>4, <2>5, <2>6
<1>5. ASSUME NEW t \in Callers, Serve(t) PROVE Inv'
  BY <1>5, Served DEF Serve, ChildReturns, ChildRaises, TurnAfterRaise
<1>6. ASSUME NEW c \in Child, Stall(c) \/ Resume(c) PROVE Inv'
  <2>1. UNCHANGED <<pc, call, next, app, told, extras, offers, returned, made>>
    BY <1>6 DEF Stall, Resume
  <2>2. stalled' \subseteq Child
    BY <1>6 DEF Stall, Resume, TypeOK
  <2>3. TypeOK'
    BY <2>1, <2>2 DEF TypeOK
  <2>4. OffersArePast' /\ UnderWay' /\ NoneTwice'
    BY <2>1 DEF OffersArePast, UnderWay, NoneTwice, Reached
  <2>5. ReturnedReached' /\ AppOutcomeKept'
    BY <2>1 DEF ReturnedReached, Reached, AppOutcomeKept
  <2>6. QED
    BY <2>3, <2>4, <2>5
<1>7. CASE UNCHANGED vars
  BY <1>7 DEF vars, TypeOK, OffersArePast, UnderWay, NoneTwice, ReturnedReached, Reached,
              AppOutcomeKept
<1>8. QED
  BY <1>1, <1>2, <1>3, <1>4, <1>5, <1>6, <1>7 DEF Next, AllMade

LEMMA InvIsInvariant == Spec => []Inv
BY InitInv, StepInv, PTL DEF Spec

\* A call that returned was given to every child exactly once, whichever of
\* them raised on the way, and no child is given a call twice.
THEOREM ChildrenAreIsolated == Spec => []EveryChildOnce
<1>1. Inv => EveryChildOnce
  <2> SUFFICES ASSUME Inv, NEW c \in Child
               PROVE  /\ \A k \in returned : Given(c, k) = 1
                      /\ \A i \in DOMAIN offers[c] : Given(c, offers[c][i]) = 1
    BY DEF EveryChildOnce
  <2>1. DOMAIN offers[c] = 1..Len(offers[c])
    BY DEF Inv, TypeOK
  <2>2. ASSUME NEW i \in 1..Len(offers[c]) PROVE Given(c, offers[c][i]) = 1
    <3>1. {j \in DOMAIN offers[c] : offers[c][j] = offers[c][i]} = {i}
      BY <2>1 DEF Inv, NoneTwice
    <3>2. QED
      BY <3>1, FS_Singleton DEF Given
  <2>3. \A k \in returned : \E i \in 1..Len(offers[c]) : offers[c][i] = k
    BY DEF Inv, ReturnedReached, Reached
  <2>4. QED
    BY <2>1, <2>2, <2>3
<1>2. QED
  BY <1>1, InvIsInvariant, PTL

\* After a block whose extras are valid the application sees its own outcome,
\* whatever the sinks did.
THEOREM OutcomeIsTheApps == Spec => []AppOutcomeKept
<1>1. Inv => AppOutcomeKept
  BY DEF Inv
<1>2. QED
  BY <1>1, InvIsInvariant, PTL
=============================================================================
