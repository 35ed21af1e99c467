\* Squares of 3 x 3 and runs of 1 pixel fit on 12 pixels; walks at an offset of
\* 23 or 99 do not.  Trails are of one pixel or two.
CONSTANTS
  NumPixels = 12
  Rand <- SomeRand
  StarSpeed <- StarSpeeds
  DropSpeed <- DropSpeeds
  NumStars = 1
  NumDrops = 1
  SpikeSide = 3
  DiagnosticRun = 1
  Strips <- SomeStrips
  MaxSets = 1
SPECIFICATION FairSpec
INVARIANTS
  IInv
  InStrip
  TrailFades
PROPERTIES
  DropsLeave
  KeepsMoving
