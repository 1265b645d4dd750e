SPECIFICATION FairSpec
CONSTANTS
  N = 2
  NumUnits = 3
  Context = 0
  Cuts = {3}
  Delay <- PassThenWindow
  Drops <- NoDrops
  Alias = {}
  Slots <- FirstSlots
  Native <- NoNative
  EdgeCap = 2
  PendingCap <- TwoPending
  SinkModes <- WithHost
  Retains = FALSE
  MayStop = FALSE
  MayFail = {}
  MayCancel = FALSE
  EOS = EOS
  None = None
PROPERTIES PullReturns
