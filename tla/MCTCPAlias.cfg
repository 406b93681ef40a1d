CONSTANTS
  Senders = {s, h}
  Handlers = {h}
  Dsts <- MCCallee
  Peers <- MCPeers
  RemoteAddr <- MCRemoteAddr
  MaxConns = 2
  Nobody = Nobody
SPECIFICATION Spec
INVARIANTS
  OneSocketPerDestination
PROPERTIES
  UsableStaysListed
  DeadConnectionsGo
CHECK_DEADLOCK FALSE
