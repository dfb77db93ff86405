SPECIFICATION Spec
CONSTANTS
  Env <- Quiet
  MaxTrades = 2
  MaxRuns = 2
INVARIANTS GridProfitExact
