SPECIFICATION LifeFairSpec
CONSTANTS
  Main = main
  Public = public
  Private = private
  Workers = {w1}
  Objects = {x}
  NoObject = none
  NoThread = nobody
  OtherCurrencies = FALSE
  LogTask = log
  Exits = {}
  MAX_QUEUE_SIZE = 1
CHECK_DEADLOCK FALSE
PROPERTIES
  ShutdownEnds
