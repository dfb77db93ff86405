SPECIFICATION Spec
CONSTANTS
  OrderId = {o1, o2, o3}
  o1 = o1
  o2 = o2
  o3 = o3
  Lot = 2
  GridNum = 2
  Direction = "long"
  MaxRetries = 2
  RoundTrip <- NoLevels
  FullWidth <- NoLevels
  Env <- JustHedging
  None = None
INVARIANTS ResumesFreeLevelsOnly
