\* A step of 2 in a second of 5: steps do not divide the second, and a sum of
\* exactly one second of microseconds occurs.
CONSTANTS
  MicrosPerSec = 5
  TimesPerSecond = 2
  MaxSec = 4
SPECIFICATION FairSpec
INVARIANTS
  SleepIsShort
PROPERTIES
  ImplementsPeriodicTask
  EveryFrameHappens
