\* A configuration file that does not exist yet.
CONSTANTS
  NaN = NaN
  IntSpan = 1048576
  Programs <- SomePrograms
  Options <- AnyOption
  CommandLines <- NewLines
  Disks <- NewDisks
SPECIFICATION Spec
PROPERTIES
  CreatesConfigFile
