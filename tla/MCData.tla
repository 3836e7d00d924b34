------------------------------- MODULE MCData -------------------------------
(* One of the two conversions of data: the dashboard's grid with three      *)
(* curated charts in two rows and five charts outside, or a GELF frame of a *)
(* payload of up to two entries.                                            *)
EXTENDS Layout, GelfFrame

MCRows == << <<[name |-> 4, width |-> 8], [name |-> 2, width |-> 4]>>,
             <<[name |-> 7, width |-> 12]>> >>
MCOrder == <<4, 7, 1, 8, 2, 5, 3, 6>>

MCKeys == {"id", "payload_id", "source", "monotonic_ns", "wall_clock", "status"}

VARIABLE conversion
data == <<vars, frameVars, conversion>>

\* The conversion that does not run has one initial state.
MCInit ==
  /\ conversion \in {"layout", "frame"}
  /\ Init /\ (conversion # "layout" => chart_ids = {})
  /\ FrameInit /\ (conversion # "frame" => event.level = "INFO" /\ event.json /\ payload = <<>>)

MCNext ==
  /\ UNCHANGED conversion
  /\ \/ conversion = "layout" /\ Next /\ UNCHANGED frameVars
     \/ conversion = "frame" /\ FrameStep /\ UNCHANGED vars
     \/ conversion = "frame" /\ fate \in {"sent", "dropped"} /\ UNCHANGED <<vars, frameVars>>

MCSpec == MCInit /\ [][MCNext]_data
=============================================================================
