SPECIFICATION FairSpec
CONSTANTS
  N = 1
  NumUnits = 2
  Context = 0
  Cuts = {2}
  Delay <- OneWindow
  Drops <- OneKeepsAll
  Alias = {}
  Slots <- OneSlots
  Native <- OneNative
  EdgeCap = 2
  PendingCap <- OneTwoPending
  SinkModes <- EitherMode
  Retains = TRUE
  MayStop = TRUE
  MayFail <- AllFail
  MayCancel = TRUE
  EOS = EOS
  None = None
INVARIANTS LeasesAccounted SuccessMeansNoFailure QuietWhenClosed
PROPERTIES Terminates
