------------------------------ MODULE Pipeline ------------------------------
(***************************************************************************)
(* feeds/base.py, listeners/base.py (_emit, close) and sinks/multi.py: the *)
(* way of an event from its producer to the children of a MultiSink.  A    *)
(* call goes to the children one after the other on the caller's thread; a *)
(* child that raises is logged and skipped, a child that does not answer   *)
(* holds the caller.  BaseFeed.record emits when its block is left, be it  *)
(* by an exception of the application.                                     *)
(***************************************************************************)
EXTENDS Integers, Sequences, FiniteSets

CONSTANTS Callers,  \* threads that produce events
          Children, \* number of children of the MultiSink
          MaxCalls, \* bound: calls of each caller
          MayStall  \* a child may stop answering

ASSUME ChildrenAssumption == Children \in Nat \ {0} /\ MaxCalls \in Nat
ASSUME StallAssumption == MayStall \in BOOLEAN

Methods == {"emit", "flush", "close"}
Child == 1..Children

VARIABLES pc,       \* where each caller is
          call,     \* the call it makes, or made last
          next,     \* the child whose turn it is
          app,      \* how the application's own code came out
          told,     \* what it saw after the telemetry: that, or something else
          extras,   \* the payload of the latest event builds a valid Event
          stalled,  \* children that do not answer
          offers,   \* history: the calls each child was given
          returned, \* history: calls that returned
          made      \* bound: calls of each caller so far

vars == <<pc, call, next, app, told, extras, stalled, offers, returned, made>>

Init ==
  /\ pc = [t \in Callers |-> "idle"]
  /\ call = [t \in Callers |-> [by |-> t, n |-> 0, method |-> "emit"]]
  /\ next = [t \in Callers |-> 1]
  /\ app = [t \in Callers |-> "ok"]
  /\ told = [t \in Callers |-> "ok"]
  /\ extras = [t \in Callers |-> TRUE]
  /\ stalled = {}
  /\ offers = [c \in Child |-> <<>>]
  /\ returned = {}
  /\ made = [t \in Callers |-> 0]

\* The loop over self.sinks starts.
Forward(t, method) ==
  /\ pc' = [pc EXCEPT ![t] = "child"]
  /\ call' = [call EXCEPT ![t] = [by |-> t, n |-> made'[t], method |-> method]]
  /\ next' = [next EXCEPT ![t] = 1]
  /\ UNCHANGED <<told, stalled, offers, returned>>

\* The listener's _emit and close, a feed's emit, and flush: the event has
\* been built from valid parts.
CallSink(t, method) ==
  /\ pc[t] = "idle"
  /\ made[t] < MaxCalls
  /\ made' = [made EXCEPT ![t] = @ + 1]
  /\ app' = [app EXCEPT ![t] = "ok"]
  /\ extras' = [extras EXCEPT ![t] = TRUE]
  /\ Forward(t, method)

\* with feed.record(...): the application's block begins.
EnterBlock(t) ==
  /\ pc[t] = "idle"
  /\ made[t] < MaxCalls
  /\ made' = [made EXCEPT ![t] = @ + 1]
  /\ pc' = [pc EXCEPT ![t] = "block"]
  /\ UNCHANGED <<call, next, app, told, extras, stalled, offers, returned>>

\* The block is left with its own outcome, and record emits from its finally.
LeaveBlock(t, outcome) ==
  /\ pc[t] = "block"
  /\ app' = [app EXCEPT ![t] = outcome]
  /\ extras' = [extras EXCEPT ![t] = TRUE]
  /\ UNCHANGED made
  /\ Forward(t, "emit")

\* The same, but what the block left in the dict cannot become an event: it
\* is not JSON, or a key of it is a parameter of emit.  The exception of the
\* finally clause takes the place of the block's outcome.
LeaveBlockInvalid(t, outcome) ==
  /\ pc[t] = "block"
  /\ app' = [app EXCEPT ![t] = outcome]
  /\ extras' = [extras EXCEPT ![t] = FALSE]
  /\ told' = [told EXCEPT ![t] = "telemetry"]
  /\ pc' = [pc EXCEPT ![t] = "idle"]
  /\ UNCHANGED <<call, next, stalled, offers, returned, made>>

-----------------------------------------------------------------------------
(* The loop: the child whose turn it is answers, or raises.                 *)

\* Mutant: the loop goes on only when every child answers.
AtChildAllAwake(t) == pc[t] = "child" /\ stalled = {}

AtChild(t) == pc[t] = "child" /\ next[t] \notin stalled

Offered(t) == offers' = [offers EXCEPT ![next[t]] = Append(@, call[t])]

Return(t, outcome) ==
  /\ pc' = [pc EXCEPT ![t] = "idle"]
  /\ told' = [told EXCEPT ![t] = outcome]
  /\ returned' = returned \cup {call[t]}

\* On to the next child; after the last one the call returns.
Turn(t) ==
  IF next[t] = Children
  THEN Return(t, app[t]) /\ UNCHANGED next
  ELSE next' = [next EXCEPT ![t] = @ + 1] /\ UNCHANGED <<pc, told, returned>>

ChildReturns(t) ==
  /\ AtChild(t)
  /\ Offered(t)
  /\ Turn(t)
  /\ UNCHANGED <<call, app, extras, stalled, made>>

\* Mutant: the try statement stands around the loop, not inside it.
TurnAfterRaiseNone(t) == Return(t, app[t]) /\ UNCHANGED next

\* Mutant: nothing catches what a child raises.
TurnAfterRaiseThrough(t) == Return(t, "sink") /\ UNCHANGED next

TurnAfterRaise(t) == Turn(t)

\* except Exception: the failure is logged, and the loop goes on as if the
\* child had returned.
ChildRaises(t) ==
  /\ AtChild(t)
  /\ Offered(t)
  /\ TurnAfterRaise(t)
  /\ UNCHANGED <<call, app, extras, stalled, made>>

\* A child stops answering: an INSERT that waits for a table lock, a
\* connection whose packets vanish.
Stall(c) ==
  /\ MayStall
  /\ stalled' = stalled \cup {c}
  /\ UNCHANGED <<pc, call, next, app, told, extras, offers, returned, made>>

Resume(c) ==
  /\ c \in stalled
  /\ stalled' = stalled \ {c}
  /\ UNCHANGED <<pc, call, next, app, told, extras, offers, returned, made>>

AllMade ==
  /\ \A t \in Callers : pc[t] = "idle" /\ made[t] = MaxCalls
  /\ UNCHANGED vars

Serve(t) == ChildReturns(t) \/ ChildRaises(t)

Next ==
  \/ \E t \in Callers :
       \/ \E method \in Methods : CallSink(t, method)
       \/ EnterBlock(t)
       \/ \E outcome \in {"ok", "raised"} :
            LeaveBlock(t, outcome) \/ LeaveBlockInvalid(t, outcome)
       \/ Serve(t)
  \/ \E c \in Child : Stall(c) \/ Resume(c)
  \/ AllMade

\* The thread of a caller runs on whenever its child answers; nothing obliges
\* a stalled child to answer.
Spec == Init /\ [][Next]_vars
FairSpec == Spec /\ \A t \in Callers : SF_vars(Serve(t))
-----------------------------------------------------------------------------
(* Properties.                                                              *)

Given(c, k) == Cardinality({i \in DOMAIN offers[c] : offers[c][i] = k})

\* multi.py:17-18: a failing child is isolated.  A call that returned was
\* given to every child exactly once, however many of them raised or stalled
\* on the way and whatever other callers were doing, and no call is repeated.
EveryChildOnce ==
  \A c \in Child :
    /\ \A k \in returned : Given(c, k) = 1
    /\ \A i \in DOMAIN offers[c] : Given(c, offers[c][i]) = 1

\* No sink failure replaces what the application's own code did: after a
\* block whose extras are valid, the application sees its own outcome.
AppOutcomeKept == \A t \in Callers : pc[t] = "idle" /\ extras[t] => told[t] = app[t]

\* feeds/base.py:66: "never let telemetry break the app".
NeverBreaksApp == \A t \in Callers : told[t] # "telemetry"

\* README.md:104-106 and ARCHITECTURE.md:169-170 call the sinks independent.
\* They are as long as no child stays silent for good: then every call ends,
\* and so (EveryChildOnce) has reached every child.  While one is silent,
\* those after it get nothing.
SilenceEnds == \A c \in Child : []<>(c \notin stalled)

CallsReturn ==
  SilenceEnds => \A t \in Callers : pc[t] = "child" ~> pc[t] # "child"
=============================================================================
