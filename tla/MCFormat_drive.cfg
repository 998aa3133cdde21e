\* Two drive letters, the utility started twice, every call may fail.
CONSTANTS
  NumLetters = 2
  Sizes <- MCSizes
  SectorsPerCluster = 2
  EntriesPerSector = 16
  MaxRuns = 2
SPECIFICATION Spec
INVARIANTS UnsignedUntouched BuiltIsWhole Released FatCoversPartition
CHECK_DEADLOCK FALSE
