--------------------------- MODULE MCGelfTransport --------------------------
(* The listener and a feed, on two threads, share one GelfTcpTransport.     *)
EXTENDS GelfTransport, TLC

CONSTANTS listener, feed

TwoSenders == {listener, feed}
Symmetry == Permutations(TwoSenders)
=============================================================================
