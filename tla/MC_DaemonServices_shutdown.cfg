\* A service started while stop() awaits its kills outlives the daemon.
CONSTANTS
  S1 = S1
  S2 = S2
  W1 = W1
  W2 = W2
  PLOTTER = PLOTTER
  UI = UI
  NONE = NONE
  Svcs <- MCSvcs
  Sockets <- MCSockets
  MaxLaunches = 3
SPECIFICATION Spec
CHECK_DEADLOCK FALSE
INVARIANT ShutdownLeavesNoProcess
