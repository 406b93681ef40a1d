\* TLC stops at the first property it finds violated: each line is for one
\* run of its own, the last one with Dsts <- MCHostName.
CONSTANTS
  Senders = {s, h}
  Handlers = {h}
  Dsts <- MCCallee
  Peers <- MCPeers
  RemoteAddr <- MCRemoteAddr
  MaxConns = 2
  Nobody = Nobody
SPECIFICATION Spec
PROPERTY DeadConnectionsAlwaysGo
\* PROPERTY SendReturns
\* PROPERTY DeadConnectionsGo
CHECK_DEADLOCK FALSE
