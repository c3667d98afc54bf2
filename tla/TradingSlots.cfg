SPECIFICATION TradingSpec
CONSTANTS
  MaxOrderNum = 2
  Uuids = {u1, u2}
  Statuses = {"wait", "done", "cancel"}
  Volumes = {0, 1}
  Null = null
  MaxPoolSize = 2
  Places = {p1, p2}
  Cancels = {c1}
  Bulk = bulk
  RETRY = 1
  Lots = 1
  IntegerVolumes = FALSE
  Fragments = FALSE
  MarketBuys = FALSE
  Garbled = FALSE
SYMMETRY Interchangeable
CHECK_DEADLOCK FALSE
INVARIANTS
  CancelNamesShownOrder
  TableInv
PROPERTIES
  ImplementsTracked
