\* A server with options after --config, and the next start from its file.
CONSTANTS
  NaN = NaN
  IntSpan = 1048576
  Programs <- SomePrograms
  Options <- AnyOption
  CommandLines <- SavingLines
  Disks <- SavingDisks
SPECIFICATION Spec
INVARIANTS
  SavedIsRunning
