SPECIFICATION FairSpec
CONSTANTS
  MaxQueueSize = 1
  Workers = {w1, w2}
  Clients = {ws}
  Main = main
  Tasks = {a, b, c, k, l}
  LogTasks = {k, l}
  NoTask = none
  MaxLogs = 1
PROPERTIES
  AcceptedIsServed
  
