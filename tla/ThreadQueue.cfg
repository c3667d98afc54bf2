SPECIFICATION Spec
CONSTANTS
  MaxQueueSize = 2
  Workers = {w1, w2}
  Clients = {ws}
  Main = main
  Tasks = {a, b, c, k, l, m}
  LogTasks = {k, l, m}
  NoTask = none
  MaxLogs = 1
SYMMETRY Interchangeable
INVARIANTS
  QueueInv
  AsleepOnlyIfIdleOrStalled
  FreedWhenQuiet
PROPERTIES
  ImplementsFifo
