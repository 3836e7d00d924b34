------------------------------ MODULE GelfFrame ------------------------------
(***************************************************************************)
(* sinks/gelf.py: what GelfSink.emit makes of one event, and event.py: the *)
(* contract it checks first.  The payload's entries become additional      *)
(* fields one by one, in the same name space as the event's own fields.    *)
(* An additional field is known here by its name without the underscore.   *)
(***************************************************************************)
EXTENDS Integers, Sequences

CONSTANTS Keys,      \* payload keys
          MaxEntries \* bound: entries of a payload

ASSUME EntriesAssumption == MaxEntries \in Nat

VARIABLES event,   \* the event
          payload, \* its payload
          seen,    \* how many entries of it the loop has gone through
          plain,   \* the fields of the frame that GELF defines
          extra,   \* its additional fields: where the value comes from
          fate     \* "new", "framing", "sent" or "dropped"

frameVars == <<event, payload, seen, plain, extra, fate>>

Levels == {"TRACE", "DEBUG", "INFO", "WARN", "ERROR"}

\* What the constructor accepts and makes of it, and what may be assigned later.
Constructed == [clock : {"utc"}, event_type : {"dotted"}, source : {"name"}, level : Levels,
                monotonic_ns : {0}, duration_ns : {-1, 0}, message : {"text", ""}, json : {TRUE}]
Assigned == [clock |-> {"zoned", "naive", "none"}, event_type |-> {"other"}, source |-> {"blank"},
             level |-> {"other"}, monotonic_ns |-> {-1}, duration_ns |-> {-2}, json |-> {FALSE}]

\* Event.validate; it also turns a zoned clock into UTC.
Valid(e) ==
  /\ e.clock \in {"utc", "zoned"}
  /\ e.event_type = "dotted"
  /\ e.source = "name"
  /\ e.monotonic_ns >= 0
  /\ e.level \in Levels
  /\ e.duration_ns >= -1
  /\ e.json

\* Payloads: a dict keeps the order in which its keys came.
Payloads ==
  {p \in UNION {[1..n -> [key : Keys, none : BOOLEAN]] : n \in 0..MaxEntries} :
     \A i, j \in DOMAIN p : p[i].key = p[j].key => i = j}

\* An event that its constructor accepted; since then a field of it may have
\* been assigned.
FrameInit ==
  /\ \E e \in Constructed :
       event \in {e} \cup UNION {{[e EXCEPT ![f] = v] : v \in Assigned[f]} : f \in DOMAIN Assigned}
  /\ payload \in Payloads
  /\ seen = 0
  /\ plain = [timestamp |-> "none", level |-> 0, short_message |-> "none"]
  /\ extra = <<>>
  /\ fate = "new"

-----------------------------------------------------------------------------
(* _frame, called by emit.                                                  *)

\* _gelf_level
GelfLevel(level) ==
  CASE level = "ERROR" -> 3 [] level = "WARN" -> 4 [] level = "INFO" -> 6 [] OTHER -> 7

Own == {"facility", "event_type", "source", "level_name", "wall_clock", "monotonic_ns",
        "duration_ns"}

From(where, key) == [from |-> where, key |-> key]

\* to_dict, and the frame with the event's own fields.
OwnFields ==
  /\ fate = "new"
  /\ Valid(event)
  /\ event' = [event EXCEPT !.clock = "utc"]
  /\ plain' = [timestamp |-> event'.clock, level |-> GelfLevel(event.level),
               short_message |-> IF event.message = "" THEN "event_type" ELSE "message"]
  /\ extra' = [f \in Own |-> From("event", f)]
  /\ fate' = "framing"
  /\ UNCHANGED <<payload, seen>>

\* An event that breaks the contract is dropped, and logged.
Invalid ==
  /\ fate = "new"
  /\ ~Valid(event)
  /\ fate' = "dropped"
  /\ UNCHANGED <<event, payload, seen, plain, extra>>

\* Mutant: None is a value like any other.
SkippedNever(entry) == FALSE

Skipped(entry) == entry.none

\* Mutant: GELF's reserved name is used.
NameAsIs(key) == key

Name(key) == IF key = "id" THEN "payload_id" ELSE key

\* A dict, here of fields, with one more assignment.
With(fields, name, value) ==
  [f \in DOMAIN fields \cup {name} |-> IF f = name THEN value ELSE fields[f]]

\* One turn of the loop over the payload.
AddEntry ==
  /\ fate = "framing"
  /\ seen < Len(payload)
  /\ seen' = seen + 1
  /\ LET entry == payload[seen'] IN
     extra' = IF Skipped(entry) THEN extra
              ELSE With(extra, Name(entry.key), From("payload", entry.key))
  /\ UNCHANGED <<event, payload, plain, fate>>

\* The frame goes to the transport.
Ship ==
  /\ fate = "framing"
  /\ seen = Len(payload)
  /\ fate' = "sent"
  /\ UNCHANGED <<event, payload, seen, plain, extra>>

FrameStep == OwnFields \/ Invalid \/ AddEntry \/ Ship

FrameSpec == FrameInit /\ [][FrameStep]_frameVars

-----------------------------------------------------------------------------
(* Properties.                                                              *)

Kept == {i \in DOMAIN payload : ~payload[i].none}

\* Whatever is in the payload, a frame that leaves has the event's UTC instant,
\* an alert's severity exactly for an alert, and a short message; and every
\* field of the event but those to which the payload gives a value of its own.
FrameTellsTheEvent ==
  fate = "sent" =>
    /\ plain.timestamp = "utc"
    /\ (plain.level < 6) <=> (event.level \in {"WARN", "ERROR"})
    /\ (plain.short_message = "message") <=> (event.message # "")
    /\ \A f \in Own : \/ extra[f] = From("event", f)
                      \/ \E i \in Kept : payload[i].key = f /\ extra[f] = From("payload", f)

\* A frame that leaves has the whole payload, and nothing that GELF reserves.
\* Only of `id` and `payload_id`, which share a field, the earlier one is lost.
FrameKeepsThePayload ==
  fate = "sent" =>
    /\ "id" \notin DOMAIN extra
    /\ DOMAIN extra = Own \cup {Name(payload[i].key) : i \in Kept}
    /\ \A i \in Kept :
         \/ extra[Name(payload[i].key)] = From("payload", payload[i].key)
         \/ \E j \in Kept : j > i /\ {payload[i].key, payload[j].key} = {"id", "payload_id"}

\* The module's docstring (gelf.py:22, 27): "source -> _source" and "Both
\* timestamps are preserved on every frame".
OwnFieldsPreserved ==
  fate = "sent" => \A f \in {"source", "wall_clock", "monotonic_ns"} : extra[f].from = "event"
==============================================================================
