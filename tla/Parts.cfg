SPECIFICATION PartsSpec
CONSTANTS
  Renderer = {"t1", "t2", "t3"}
  Interval = 2
  Renders = 4
  Borrower = {"b1", "b2", "b3"}
  Geometry = {"sd", "hd"}
  MaxGeometries = 1
  MaxServices = 4
  Run = {"r1", "r2", "r3", "r4"}
  ProcessOf <- TwoProcesses
  Outputs <- Nested
  Paths <- PathOrder
  Parents <- ParentsOf
  Buffers <- SomeBuffers
  Frames = 9
  K = 4
  Existing = {1, 2, 3}
  Sinks = {1}
  Framed = {1}
  Dirs = {3}
  Overwrite = TRUE
  Intruded = {1, 2, 3, 4}
  FaultSites <- NoUnpublish
  MaxFaults = 3
  Second = 25
  Recent = 15
  Sources <- InOrder
  Films <- SomeFilms
  Grids = {3, 4, 5}
  Limits = {2, 99}
  MaxFanout = 4
  Preserving = {TRUE, FALSE}
  Depths <- SixLines
  Streams <- SomeStreams
  Plan <- Bracketed
  PostOf <- Halves
  MaxFailures = 4
INVARIANTS ClearsAlone SleepsForReason LeasesExclusive ServicesAccounted ReservationsDisjoint RangesFollowRuns EmitsAll JoinsAreSeamless TypeOK OriginalKept VideoKept AllOrNone MovieFollowsSource ResultsInOrder CleanupIsComplete
PROPERTIES ClearCovers WindowsHaveContext ForeignersKept
CHECK_DEADLOCK FALSE
