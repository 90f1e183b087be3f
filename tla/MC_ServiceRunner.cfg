\* The introducer service with an RPC server and UPnP: reconnect tasks,
\* vetting and shutdown after start.
CONSTANTS
  R1 = R1
  Q1 = Q1
  Q2 = Q2
  NONE = NONE
  ConnectPeers <- MCConnectPeers
  IntroPeers <- MCIntroPeers2
  RpcInfo = TRUE
  UpnpPorts = TRUE
  LockMayBeTaken = TRUE
SPECIFICATION Spec
CHECK_DEADLOCK FALSE
INVARIANT TypeOK
INVARIANT NoReconnectAfterStop
INVARIANT PeerRemovedAfterRepeatedFailures
PROPERTY StopAfterStartExits
