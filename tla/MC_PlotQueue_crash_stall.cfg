\* Plot queue, a bladebit cudaplot command line is rejected: the serial queue behind it stalls.
CONSTANTS
  P1 = P1
  P2 = P2
  P3 = P3
  IdOrder <- MCIdOrder2
  Requests <- MCCudaRequests
  NONE = NONE
  D1 = D1
  D2 = D2
  D3 = D3
  F1 = F1
  Dirs <- MCDirs
  Keys <- MCKeys
  PlotterMayCrash = FALSE
SPECIFICATION Spec
CHECK_DEADLOCK FALSE
PROPERTY SubmittedEventuallyLeaves
