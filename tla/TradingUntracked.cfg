SPECIFICATION TradingSpec
CONSTANTS
  MaxOrderNum = 2
  Uuids = {u1, u2}
  Statuses = {"wait", "done", "cancel"}
  Volumes = {0, 1}
  Null = null
  MaxPoolSize = 1
  Places = {p1}
  Cancels = {c1}
  Bulk = bulk
  RETRY = 3
  Lots = 1
  IntegerVolumes = FALSE
  Fragments = FALSE
  MarketBuys = FALSE
  Garbled = FALSE
SYMMETRY Interchangeable
CHECK_DEADLOCK FALSE
INVARIANTS
  OpenOrdersAreTracked
