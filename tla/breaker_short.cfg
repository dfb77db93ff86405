SPECIFICATION Spec
CONSTANTS
  Whole = 10
  Direction = "short"
  RawConfigs <- OneConfig
  Symbols <- OneSymbol
  MaxPos = 2
  Env <- Reliable
INVARIANTS HedgeFlattened
