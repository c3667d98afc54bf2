SPECIFICATION LifeFairSpec
CONSTANTS
  Main = main
  Public = public
  Private = private
  Workers = {w1, w2}
  Objects = {x, y}
  NoObject = none
  NoThread = nobody
  OtherCurrencies = TRUE
  LogTask = log
  Exits = {private, w1}
  MAX_QUEUE_SIZE = 1
CHECK_DEADLOCK FALSE
INVARIANTS
  LifeTypeOK
  ThreadsOutlived
  EndedUntouched
PROPERTIES
  CleanUpEnds
  DeadlockedForGood
