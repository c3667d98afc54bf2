SPECIFICATION TradingSpec
CONSTANTS
  MaxOrderNum = 1
  Uuids = {u1, u2}
  Statuses = {"wait", "done", "cancel"}
  Volumes = {0, 1}
  Null = null
  MaxPoolSize = 1
  Places = {p1, p2}
  Cancels = {}
  Bulk = bulk
  RETRY = 2
  Lots = 1
  IntegerVolumes = TRUE
  Fragments = TRUE
  MarketBuys = FALSE
  Garbled = TRUE
SYMMETRY Interchangeable
CHECK_DEADLOCK FALSE
INVARIANTS
  OwnMethod
  TableMatchesBook
