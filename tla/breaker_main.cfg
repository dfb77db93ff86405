SPECIFICATION Spec
CONSTANTS
  Whole = 10
  Direction = "long"
  RawConfigs <- OneConfig
  Symbols <- OneSymbol
  MaxPos = 2
  Env <- Reliable
INVARIANTS MainFlattened
