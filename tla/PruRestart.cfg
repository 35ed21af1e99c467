\* Two deaths, so that a restarted process may die in turn.  The restart comes
\* after the PRUs have finished the frame they were given (Drained).
CONSTANTS
  NumPixels = 1
  MaxFrames = 3
  MayClose = FALSE
  MaxCrashes = 2
SPECIFICATION RFairSpec
INVARIANTS
  StartupMeansRunning
  RInv
PROPERTIES
  ImplementsLossyChannel
  ComesBack
