SPECIFICATION Spec
CONSTANTS
  OrderId = {o1, o2, o3, o4}
  o1 = o1
  o2 = o2
  o3 = o3
  o4 = o4
  Lot = 2
  GridNum = 2
  Direction = "long"
  MaxRetries = 3
  RoundTrip <- NoLevels
  FullWidth <- NoLevels
  Env <- Restarting
  None = None
SYMMETRY IdSymmetry
INVARIANTS TypeOK CloseBacked NeverOversold TradeBookedOnce LevelExclusive PairingOnDisk NoGhostOrders
PROPERTIES ImplementsGrid
