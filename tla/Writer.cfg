SPECIFICATION FairSpec
CONSTANTS
  Frames = 1
  Chunks = 2
  Cancels = 1
INVARIANTS CancelAlone MarkedInputsAreQuiet TrackOutlivesReads FinishedIsComplete FramesSurvive
PROPERTIES EndsAreFinal WriterSettles
