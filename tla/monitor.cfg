SPECIFICATION Spec
CONSTANTS
  Whole = 10
  Direction = "long"
  RawConfigs <- SomeConfigs
  Symbols <- SomeSymbols
  MaxPos = 2
  Env <- Difficult
INVARIANTS TypeOK GridAffordable SpreadKept OverLimitNoticed PauseHasCause HedgeFlattened
PROPERTIES LiquidationOnlyReduces
CHECK_DEADLOCK FALSE
