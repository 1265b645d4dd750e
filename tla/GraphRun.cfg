SPECIFICATION FairSpec
CONSTANTS
  N = 2
  NumUnits = 16
  Context = 3
  Cuts = {9}
  Delay <- PassThenWindow
  Drops <- LosesBoundary
  Alias = {1}
  Slots <- LastSlots
  Native <- LastNative
  EdgeCap = 1
  PendingCap <- OnePending
  SinkModes <- EitherMode
  Retains = TRUE
  MayStop = FALSE
  MayFail = {}
  MayCancel = FALSE
  EOS = EOS
  None = None
INVARIANTS TypeOK ShotsDoNotMix CaptureWithinLimit FinishIsComplete
PROPERTIES KeepsContract Terminates
