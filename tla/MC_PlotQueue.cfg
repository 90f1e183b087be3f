\* Plot queue with plotters that may crash: launches, removal, progress.
CONSTANTS
  P1 = P1
  P2 = P2
  P3 = P3
  IdOrder <- MCIdOrder2
  Requests <- MCRequests
  NONE = NONE
  D1 = D1
  D2 = D2
  D3 = D3
  F1 = F1
  Dirs <- MCDirs
  Keys <- MCKeys
  PlotterMayCrash = TRUE
SPECIFICATION Spec
CHECK_DEADLOCK FALSE
INVARIANT TypeOK
INVARIANT LaunchedOnce
INVARIANT NoOrphanPlotter
INVARIANT ToggleAlternates
PROPERTY SubmittedLeavesUnlessStalled
