SPECIFICATION FairSpec
CONSTANTS
  MaxOrders = 4
  MaxPrice = 2
  Levels <- OneLevel
  MaxHedges = 1
INVARIANTS TypeOK AccountsAgree PositionMatchesFills PositionsKeepSign
PROPERTIES FillsBooked LocksReleased
