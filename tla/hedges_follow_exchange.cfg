SPECIFICATION Spec
CONSTANTS
  Env <- UserActs
  MaxTrades = 2
  MaxRuns = 2
INVARIANTS HedgesFollowExchange
