SPECIFICATION Spec
CONSTANTS
  OrderId = {o1, o2, o3, o4}
  o1 = o1
  o2 = o2
  o3 = o3
  o4 = o4
  Lot = 2
  GridNum = 2
  Direction = "short"
  MaxRetries = 2
  RoundTrip <- NoLevels
  FullWidth <- NoLevels
  Env <- Hedging
  None = None
SYMMETRY IdSymmetry
INVARIANTS CloseBacked NeverOversold TradeBookedOnce
PROPERTIES HaltedPlacesNothing
