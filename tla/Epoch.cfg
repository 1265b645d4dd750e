SPECIFICATION EpochSpec
CONSTANTS
  Second = 25
  Recent = 15
  Sources <- Reordered
INVARIANTS PicturesFindTheirSample
CHECK_DEADLOCK FALSE
