SPECIFICATION EndpointSpec
CONSTANTS
  Films <- GapBeforeCut
  Grids = {4}
  Limits = {99}
  MaxFanout = 8
  Preserving = {TRUE}
INVARIANTS NearestFrame
CHECK_DEADLOCK FALSE
