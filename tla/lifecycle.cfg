SPECIFICATION FairSpec
CONSTANTS
  Env <- Everything
  MaxTrades = 2
  MaxRuns = 2
INVARIANTS TypeOK HedgeKnown HedgeProfitExact GridProfitKept
PROPERTIES SilentAfterStop StopReturns
