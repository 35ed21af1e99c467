\* Two strips of three LEDs.  Two frames: one may be drawn while both come.
CONSTANTS
  NumStrips = 2
  NumPixelsPerStrip = 3
  Layouts <- AllLayouts
  MaxFrames = 2
  MaxExposes = 1
SPECIFICATION FairSpec
INVARIANTS
  IInv
  PlacedByLastBlock
  ZigzagsAreConnected
  QuietMeansCurrent
  AtMostTwoFrames
PROPERTIES
  EveryFrameIsDrawn
\* The program ends when its layout cannot be loaded or its window is closed.
CHECK_DEADLOCK FALSE
