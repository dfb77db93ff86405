SPECIFICATION FairSpec
CONSTANTS
  Caller = {main, monitor}
  Main = main
  main = main
  monitor = monitor
  Id = {c1}
  Risk = {quiet, hedged}
  NoRisk = quiet
  quiet = quiet
  MaxUpdates = 3
  Absent = Absent
  Torn = Torn
  Down = Down
  Nobody = Nobody
INVARIANTS TypeOK FileWhole AckedDurable
PROPERTIES ImplementsStore EveryCallReturns
