SPECIFICATION TradingFairSpec
CONSTANTS
  MaxOrderNum = 2
  Uuids = {u1, u2}
  Statuses = {"wait", "done", "cancel"}
  Volumes = {0, 1, 2}
  Null = null
  MaxPoolSize = 1
  Places = {p1}
  Cancels = {c1}
  Bulk = bulk
  RETRY = 2
  Lots = 2
  IntegerVolumes = TRUE
  Fragments = FALSE
  MarketBuys = TRUE
  Garbled = TRUE
CHECK_DEADLOCK FALSE
INVARIANTS
  TradingInv
  AtMostOneOrderPerRequest
  TableMatchesBook
PROPERTIES
  VolumeNeverGrows
  RemovedOnlyWhenOver
  UsesTable
  RequestEnds
