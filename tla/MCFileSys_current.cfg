\* No read fails; every directory has one cluster.
CONSTANTS
  FatEntries <- MCFat
  Directory <- MCDirectory
  FatSectors = 3
  EntriesPerSector = 4
  Root = 2
  SectorsPerCluster = 2
  RecordsPerSector = 2
  MaxChain = 3
  DriveFails = FALSE
  MaxDepth = 2
SPECIFICATION Spec
INVARIANTS ListsCurrentDirectory
