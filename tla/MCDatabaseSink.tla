--------------------------- MODULE MCDatabaseSink ---------------------------
(* Two threads, the listener's and a feed's, on one DatabaseSink.           *)
EXTENDS DatabaseSink

CONSTANTS listener, feed

MCThreads == {listener, feed}
=============================================================================
