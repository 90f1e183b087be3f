\* Websocket handlers, forwarding, broadcasts and service commands together.
CONSTANTS
  S1 = S1
  W1 = W1
  W2 = W2
  PLOTTER = PLOTTER
  UI = UI
  NONE = NONE
  Svcs <- MCSvcs
  Sockets <- MCSockets1
  MaxLaunches = 1
  MaxNotes = 1
  WaitForUnlock = FALSE
SPECIFICATION MessagesSpec
CHECK_DEADLOCK FALSE
INVARIANT MessagesTypeOK
INVARIANT ProcessesTracked
PROPERTY StopTerminates
PROPERTY ClosedSocketForgotten
