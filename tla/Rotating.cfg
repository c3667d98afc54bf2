SPECIFICATION FilesSpec
CONSTANTS
  MaxFiles = 4
  MaxFileSize = 2
  Absent = absent
  MaxSaved = 14
  MaxEmitted = 2
  MaxCrashes = 3
CHECK_DEADLOCK FALSE
INVARIANTS
  FilesInv
  NewestKept
PROPERTIES
  ImplementsJournal
