SPECIFICATION FairSpec
CONSTANTS
  N = 1
  NumUnits = 18
  Context = 17
  Cuts = {9}
  Delay <- OneWindow
  Drops <- OneKeepsAll
  Alias = {}
  Slots <- OneSlots
  Native <- OneNative
  EdgeCap = 2
  PendingCap <- OneTwoPending
  SinkModes <- WithSink
  Retains = TRUE
  MayStop = FALSE
  MayFail = {}
  MayCancel = FALSE
  EOS = EOS
  None = None
INVARIANTS CaptureWithinLimit
