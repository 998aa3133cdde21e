\* Words of five bits, six disks, three slots for clusters; reads of up to
\* three sectors, from an address below and one above what the drive's
\* registers hold.
CONSTANTS
  Word = 32
  Shift = 2
  FatSectors = 6
  EntriesPerSector = 8
  RecordsPerCluster = 2
  FatBase = 12
  ClusterBase = 30
  Slots = 3
  Disks <- MCDisks
  Reach = 8
  MaxSectors = 3
  Lbas <- MCLbas
  MaxCalls = 3
SPECIFICATION FairSpec
INVARIANTS KernelWhole MountedOnDrive
PROPERTIES ImplementsBlockDevice ReadsEnd StartupEnds
CHECK_DEADLOCK FALSE
