\* Two strips of two words: one word of the first strip is forwarded.
CONSTANTS
  NumStrips = 2
  NumPixels = 2
  PruStrips = 1
  MaxVersion = 1
  MaxFrames = 2
  Timeouts = {}
SPECIFICATION FairSpec
PROPERTIES
  EveryStripIsDriven
