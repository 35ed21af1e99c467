\* One frame of one pixel is enough for the disagreement.
CONSTANTS
  NumPixels = 1
  MaxFrames = 1
  MayClose = TRUE
SPECIFICATION FairSpec
PROPERTIES
  CloseStopsPrus
CHECK_DEADLOCK FALSE
