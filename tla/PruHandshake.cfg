\* 2 frames: the first after start-up and one after a drawn frame, from where the
\* loop repeats.  2 pixels: a strip can be half copied or half shown.
\* ledscape_close may come at any idle point.
CONSTANTS
  NumPixels = 2
  MaxFrames = 2
  MayClose = TRUE
SPECIFICATION FairSpec
INVARIANTS
  IInv
  NoTornFrame
  OnlyTailIsOld
  NoWaitInVain
PROPERTIES
  EachFrameOnce
  WakeUpComesCloser
  ImplementsChannel
  EveryFrameIsShown
\* ledscape_close ends the ARM's program, and the PRUs it stops, for good.
CHECK_DEADLOCK FALSE
