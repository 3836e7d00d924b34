----------------------------- MODULE MCPipeline ------------------------------
(* A listener and an application feed that share a MultiSink.               *)
EXTENDS Pipeline

CONSTANTS listener, feed

OneCaller == {feed}
TwoCallers == {listener, feed}
=============================================================================
