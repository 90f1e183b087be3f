\* The introducer service with an RPC server: a signal while start() awaits.
CONSTANTS
  R1 = R1
  Q1 = Q1
  Q2 = Q2
  NONE = NONE
  ConnectPeers <- MCConnectPeers
  IntroPeers <- MCIntroPeers1
  RpcInfo = TRUE
  UpnpPorts = TRUE
  LockMayBeTaken = FALSE
SPECIFICATION Spec
CHECK_DEADLOCK FALSE
PROPERTY StopExits
