SPECIFICATION FairSpec
CONSTANTS
  OrderId = {o1, o2, o3, o4}
  o1 = o1
  o2 = o2
  o3 = o3
  o4 = o4
  Lot = 2
  GridNum = 2
  Direction = "long"
  MaxRetries = 2
  RoundTrip <- NoLevels
  FullWidth <- NoLevels
  Env <- Withdrawing
  None = None
PROPERTIES FillAnswered LevelsServed
