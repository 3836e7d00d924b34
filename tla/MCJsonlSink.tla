---------------------------- MODULE MCJsonlSink -----------------------------
(* Two runs on one file, batches of up to three events, two failures.      *)
EXTENDS JsonlSink
=============================================================================
