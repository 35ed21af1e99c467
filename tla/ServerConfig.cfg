\* Nineteen options, one before and one after --config, five files.
CONSTANTS
  NaN = NaN
  IntSpan = 1048576
  Programs <- SomePrograms
  Options <- AnyOption
  CommandLines <- Lines
  Disks <- SomeDisks
SPECIFICATION Spec
INVARIANTS
  IInv
  LastWordCounts
PROPERTIES
  OnlyValidIsSaved
  EmptyFileStopsServer
