SPECIFICATION Spec
CONSTANTS
  K = 3
  Existing = {1, 2, 3}
  Sinks = {1}
  Framed = {1}
  Dirs = {3}
  Overwrite = TRUE
  Intruded = {}
  FaultSites <- AllSites
  MaxFaults = 2
INVARIANTS VideoKept
