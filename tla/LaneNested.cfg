SPECIFICATION FairSpec
CONSTANTS
  N = 2
  Lane = {"mlx"}
  LaneOf <- OneLane
  Windowed = {1, 2}
  Calls = 1
  Permits <- GpuAndAne
  Claims <- SameClaims
  Windows = 2
  Inputs = 1
  Dispatches = 2
  MayFail = {}
  MayCancel = FALSE
INVARIANTS PermitsDeadlockFree
