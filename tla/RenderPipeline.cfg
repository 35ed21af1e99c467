\* Every interleaving of the two threads and the PRUs.  2 strips, one on each PRU;
\* 2 words, so that copies are torn; of the 4 words one is forwarded.  An old
\* and a new picture.  3 frames: one in flight when the new picture is rendered,
\* and two after it.  The first two may be cut short.
CONSTANTS
  NumStrips = 2
  NumPixels = 2
  PruStrips = 1
  MaxVersion = 1
  MaxFrames = 3
  Timeouts = {1, 2}
SPECIFICATION LFairSpec
INVARIANTS
  IInv
PROPERTIES
  NeverGoesBack
  FrameIsFresh
  TwoFramesLate
  EveryStripIsRendered
  MissesOneFrame
