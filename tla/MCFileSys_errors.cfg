\* Reads may fail at any sector; the root directory has two clusters.
CONSTANTS
  FatSectors = 4
  FatEntries <- MCSmallFat
  Directory <- MCSmallDirectory
  EntriesPerSector = 2
  Root = 2
  SectorsPerCluster = 2
  RecordsPerSector = 1
  MaxChain = 3
  DriveFails = TRUE
  MaxDepth = 2
SPECIFICATION FairSpec
INVARIANTS TypeOK ReadsFilledEntries ChainFollowsFAT ScansDirectory
PROPERTIES EveryCommandEnds
