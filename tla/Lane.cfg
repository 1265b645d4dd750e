SPECIFICATION FairSpec
CONSTANTS
  N = 3
  Lane = {"mlx", "native"}
  LaneOf <- TwoLanes
  Windowed = {1}
  Calls = 2
  Permits <- TwoEach
  Claims <- ManyClaims
  Windows = 2
  Inputs = 2
  Dispatches = 2
  MayFail = {1}
  MayCancel = TRUE
INVARIANTS OutputsInOrder PermitsAccounted QuietAtEnd
PROPERTIES SettledBeforeStep LanesTerminate
