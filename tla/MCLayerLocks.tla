---------------------------- MODULE MCLayerLocks ----------------------------
(* LayerLocks without and with a reader of GET /transactions.  A thread has *)
(* the name of its path.                                                    *)
EXTENDS LayerLocks

MCThreads == {"response", "timeout", "retransmission", "serverTimer", "gc", "clientTimer"}
MCWithList == {"response", "gc", "list"}
MCPath == [t \in Threads |-> t]
==============================================================================
