----------------------------- MODULE MCTCPAlias -----------------------------
(* TCPAlias with a callee that is sent to and connects to us, and a caller *)
(* that only connects; in MCHostName the callee is reached by a host name. *)
EXTENDS TCPAlias

MCPeers == {"192.0.2.1:5060", "192.0.2.9:5060"}
MCCallee == {"192.0.2.1:5060"}
MCHostName == {"callee:5060"}
MCRemoteAddr == [d \in Dsts |-> "192.0.2.1:5060"]
==============================================================================
