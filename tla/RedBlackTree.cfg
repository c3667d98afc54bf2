SPECIFICATION TreeSpec
CONSTANTS
  Pairs <- EightPairs
CHECK_DEADLOCK FALSE
INVARIANTS
  TreeTypeOK
  Balanced
  SearchFinds
  LevelsPrinted
PROPERTIES
  FreesWhatItDrops
  ImplementsMap
