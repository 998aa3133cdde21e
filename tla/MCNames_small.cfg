\* Pieces of two characters, two of which fit; short names of two
\* characters and two more; a quarter of the values of half a byte.
CONSTANTS
  Upper <- MCUpper
  Base = 2
  Ext = 2
  ChunkLen = 2
  MaxChunks = 2
  Nibble = 4
  Items <- MCItems
  MaxItems = 3
  Targets <- MCTargets
SPECIFICATION Spec
INVARIANTS ListsNames FindsByName
CHECK_DEADLOCK FALSE
