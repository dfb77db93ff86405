-------------------------- MODULE LifecycleProofs --------------------------
(***************************************************************************)
(* Lifecycle's safety for any number of starts and trades and for          *)
(* everything that may go wrong: types, hedge records, both profits, and   *)
(* that the bot is silent once it has stopped.                             *)
(***************************************************************************)
EXTENDS Lifecycle, TLAPS

-----------------------------------------------------------------------------
(* Arithmetic of whole profits.                                            *)

(* A fraction over one is in lowest terms.                                 *)
LEMMA WholeTerms ==
  ASSUME NEW n \in Int
  PROVE  Ratio(n, 1) = Whole(n)
<1>. DEFINE x == [n |-> n, d |-> 1]
<1>1. x \in Fraction /\ x.n = n /\ x.d = 1
  BY DEF Fraction
<1>2. \A h \in 1 .. x.d : h = 1
  BY <1>1
<1>3. 1 \in 1 .. x.d /\ CommonDivisor(1, x) /\ \A k \in 1 + 1 .. x.d : ~CommonDivisor(k, x)
  BY <1>1 DEF CommonDivisor, Divides
<1>4. (CHOOSE h \in 1 .. x.d : /\ CommonDivisor(h, x)
                               /\ \A k \in h + 1 .. x.d : ~CommonDivisor(k, x)) = 1
  BY <1>2, <1>3
<1>5. LowestTerms[x] = [n |-> x.n \div 1, d |-> x.d \div 1]
  BY <1>1, <1>4 DEF LowestTerms
<1>. QED
  BY <1>1, <1>5 DEF Ratio, Whole

(* Adding, subtracting and multiplying whole amounts.                      *)
LEMMA WholeSums ==
  ASSUME NEW m \in Int, NEW n \in Int
  PROVE  /\ Plus(Whole(m), Whole(n)) = Whole(m + n)
         /\ Times(Whole(m), n) = Whole(m * n)
         /\ Minus(Whole(m), Whole(n)) = Whole(m - n)
         /\ Over(Whole(m), 1) = Whole(m)
<1>1. \A k \in Int : Whole(k) \in Fraction /\ Whole(k).n = k /\ Whole(k).d = 1
  BY DEF Whole, Fraction
<1>2. \A i, j \in Int : Plus(Whole(i), Whole(j)) = Whole(i + j)
  <2>. SUFFICES ASSUME NEW i \in Int, NEW j \in Int PROVE Plus(Whole(i), Whole(j)) = Whole(i + j)
    OBVIOUS
  <2>. DEFINE xy == <<Whole(i), Whole(j)>>
  <2>1. xy \in Fraction \X Fraction /\ xy[1] = Whole(i) /\ xy[2] = Whole(j)
    BY <1>1
  <2>2. Added[xy] = Ratio(xy[1].n * xy[2].d + xy[2].n * xy[1].d, xy[1].d * xy[2].d)
    BY <2>1 DEF Added
  <2>3. Added[xy] = Ratio(i + j, 1)
    BY <1>1, <2>1, <2>2
  <2>. QED
    BY <2>3, WholeTerms DEF Plus
<1>3. \A i, j \in Int : Times(Whole(i), j) = Whole(i * j)
  BY <1>1, WholeTerms DEF Times
<1>4. Minus(Whole(m), Whole(n)) = Whole(m - n)
  <2>1. Times(Whole(n), -1) = Whole(-n)
    BY <1>3
  <2>. QED
    BY <1>2, <2>1 DEF Minus
<1>5. Over(Whole(m), 1) = Whole(m)
  <2>1. Over(Whole(m), 1) = Ratio(m, 1)
    BY <1>1 DEF Over
  <2>. QED
    BY <2>1, WholeTerms
<1>. QED
  BY <1>2, <1>3, <1>4, <1>5

(* The accountant of a position of at most one unit, bought at 0 or sold   *)
(* at 1.                                                                   *)
Carries(a, q, r) ==
  a = [qty |-> q, avg |-> IF q = -1 THEN Whole(1) ELSE Zero, realized |-> Whole(r)]

(* A purchase at 0 earns one if it closes a short unit.                    *)
LEMMA Buying ==
  ASSUME NEW a, NEW q \in {-1, 0}, NEW r \in Int, Carries(a, q, r)
  PROVE  Carries(RecordTrade(a, "BUY", 0, 1), q + 1, IF q = -1 THEN r + 1 ELSE r)
<1>. USE DEF Carries
<1>1. Signed("BUY", 1) = 1
  BY DEF Signed
<1>2. IsClosingTrade(a, "BUY") <=> q = -1
  BY <1>1 DEF IsClosingTrade
<1>3. Realized(a, "BUY", 0, 1) = Whole(IF q = -1 THEN r + 1 ELSE r)
  <2>1. CASE q = -1
    <3>1. UnitPNL(a, 0) = Whole(1) /\ QtyToClose(a, 1) = 1
      BY <2>1, WholeSums DEF UnitPNL, QtyToClose, Magnitude
    <3>. QED
      BY <1>2, <2>1, <3>1, WholeSums DEF Realized
  <2>2. CASE q = 0
    BY <1>2, <2>2 DEF Realized
  <2>. QED
    BY <2>1, <2>2
<1>4. AverageCost(a, "BUY", 0, 1) = Zero
  <2>1. CASE q = -1
    BY <1>1, <2>1 DEF AverageCost
  <2>2. CASE q = 0
    <3>1. AverageCost(a, "BUY", 0, 1) = Over(Plus(Times(Zero, 0), Whole(0)), 1)
      BY <1>1, <1>2, <2>2 DEF AverageCost, Magnitude
    <3>. QED
      BY <3>1, WholeSums DEF Zero
  <2>. QED
    BY <2>1, <2>2
<1>. QED
  BY <1>1, <1>3, <1>4 DEF RecordTrade

(* A sale at 1 earns one if it closes a long unit.                         *)
LEMMA Selling ==
  ASSUME NEW a, NEW q \in {0, 1}, NEW r \in Int, Carries(a, q, r)
  PROVE  Carries(RecordTrade(a, "SELL", 1, 1), q - 1, IF q = 1 THEN r + 1 ELSE r)
<1>. USE DEF Carries
<1>1. Signed("SELL", 1) = -1
  BY DEF Signed
<1>2. IsClosingTrade(a, "SELL") <=> q = 1
  BY <1>1 DEF IsClosingTrade
<1>3. Realized(a, "SELL", 1, 1) = Whole(IF q = 1 THEN r + 1 ELSE r)
  <2>1. CASE q = 1
    <3>1. UnitPNL(a, 1) = Whole(1) /\ QtyToClose(a, 1) = 1
      BY <2>1, WholeSums DEF UnitPNL, QtyToClose, Magnitude, Zero
    <3>. QED
      BY <1>2, <2>1, <3>1, WholeSums DEF Realized
  <2>2. CASE q = 0
    BY <1>2, <2>2 DEF Realized
  <2>. QED
    BY <2>1, <2>2
<1>4. AverageCost(a, "SELL", 1, 1) = IF q = 0 THEN Whole(1) ELSE Zero
  <2>1. CASE q = 1
    BY <1>1, <2>1 DEF AverageCost
  <2>2. CASE q = 0
    <3>1. AverageCost(a, "SELL", 1, 1) = Over(Plus(Times(Zero, 0), Whole(1)), 1)
      BY <1>1, <1>2, <2>2 DEF AverageCost, Magnitude
    <3>. QED
      BY <2>2, <3>1, WholeSums DEF Zero
  <2>. QED
    BY <2>1, <2>2
<1>. QED
  BY <1>1, <1>3, <1>4 DEF RecordTrade

-----------------------------------------------------------------------------
(* The types, a group of variables at a time.                              *)
ExchangeOK == gridActive \in BOOLEAN /\ hedgePos \in BOOLEAN /\ level \in {"open", "held", "gone"}
StateType == [grid : Fraction, risk : RiskState]
StoreOK == file \in StateType /\ kept \in StateType
ModulesOK ==
  risk \in RiskState /\ gridAcc \in AccountantType /\ gridAcc.qty \in -1 .. 1 /\ hedgePNL \in Nat
MainOK == main \in Starting \cup {"running"} \cup Stopping \cup {"exited"}
MonitorOK == /\ mon \in {"off", "select"} \cup Working
             /\ main \in Starting \cup {"exited"} => mon = "off"
StopOK == cancelled \in BOOLEAN /\ final \in [hedge : Nat, risk : RiskState, grid : Fraction]
RunOK == run \in 0 .. MaxRuns /\ start \in {"none", "read", "blind", "cold", "warm", "own"}
HistoryOK == /\ earned \in [grid : 0 .. MaxTrades, hedge : 0 .. MaxTrades]
             /\ carried \in 0 .. MaxRuns /\ missed \in [grid : Nat, hedge : Nat]
UnsavedOK == unsaved \in BOOLEAN

Types == /\ ExchangeOK /\ StoreOK /\ ModulesOK /\ MainOK /\ MonitorOK
         /\ StopOK /\ RunOK /\ HistoryOK /\ UnsavedOK

(* Together they are Lifecycle's type invariant.                           *)
LEMMA TypesSuffice == Types => TypeOK
  BY DEF TypeOK, Types, StateType,
         ExchangeOK, StoreOK, ModulesOK, MainOK, MonitorOK, StopOK, RunOK, HistoryOK, UnsavedOK

(* Every amount of money is a whole number of profits, and none is a loss. *)
Money == {x \in Fraction : x.d = 1 /\ x.n >= 0}

AllWhole ==
  /\ file.grid \in Money /\ kept.grid \in Money /\ final.grid \in Money
  /\ gridAcc.realized \in Money

(* What the accountant has is what the level has, or one unit less: the    *)
(* unit that was held when the process started.                            *)
AccountantFollowsLevel ==
  /\ level = "open" => gridAcc.qty \in {-1, 0}
  /\ level = "held" => gridAcc.qty \in {0, 1}
  /\ gridAcc.avg = IF gridAcc.qty = -1 THEN Whole(1) ELSE Zero
  /\ main \in {"down", "hedge", "restore"} => gridAcc = NewAccountant

(* The bounds of the instance, and what keeps the counters within them.    *)
WithinBounds ==
  /\ Recorded <= MaxTrades
  /\ mon \in {"close", "closed"} => Recorded < MaxTrades
  /\ carried <= run /\ (main # "down" => carried < run)

ActiveLevel == level # "gone" => gridActive

(* The records of a hedge, from the exchange to the risk manager, and the  *)
(* risk manager's own of the hedge it is about to open.                    *)
RecordsFollow ==
  /\ main = "restore" => start \in {"read", "blind"}
  /\ main = "restore" /\ start = "read" /\ hedgePos => kept.risk.hedges /\ kept.risk.active
  /\ start = "warm" /\ mon = "open" => risk.hedges /\ risk.active

(* Where the hedge profit is while the process starts, runs and stops.     *)
BeforeRun == {"down", "hedge", "restore"}
AfterRiskSave == {"readGrid", "saveGrid", "cancel", "wait", "exited"}

(* All that was earned, but for what may have missed the save.             *)
HasHedgeProfit(x) == earned.hedge - missed.hedge <= x /\ x <= earned.hedge

HedgeProfitFollowed ==
  ~unsaved =>
    /\ main \notin BeforeRun => HasHedgeProfit(hedgePNL)
    /\ main \in BeforeRun \cup AfterRiskSave => HasHedgeProfit(file.risk.cum)
    /\ main \in {"hedge", "restore"} \cup AfterRiskSave => HasHedgeProfit(kept.risk.cum)
    /\ main = "syncRisk" => HasHedgeProfit(final.hedge)
    /\ main = "readRisk" => HasHedgeProfit(risk.cum)
    /\ main = "saveRisk" => HasHedgeProfit(final.risk.cum)

(* Where the grid profit is.  The unit held is worth one profit to come.   *)
InHand == IF level = "held" THEN 1 ELSE 0
ToCome == IF level = "held" /\ gridAcc.qty = 0 THEN 1 ELSE 0

(* What the file will at least hold of the grid's profit.                  *)
ToSave == earned.grid - carried - missed.grid

GridProfitFollowed ==
  ~unsaved =>
    /\ main \in BeforeRun => ToSave + InHand <= file.grid.n
    /\ main \in {"hedge", "restore", "cancel", "wait"} => kept.grid = file.grid
    /\ main \in {"ready", "running"} \cup (Stopping \ {"saveGrid", "cancel", "wait"}) =>
         ToSave + ToCome <= gridAcc.realized.n
    /\ main = "saveGrid" => ToSave <= final.grid.n
    /\ main \in {"cancel", "wait", "exited"} => ToSave <= file.grid.n

GInv ==
  /\ Types /\ AllWhole /\ AccountantFollowsLevel /\ WithinBounds /\ ActiveLevel
  /\ RecordsFollow /\ HedgeKnown /\ HedgeProfitFollowed /\ GridProfitFollowed

-----------------------------------------------------------------------------
(* What the trades do to the accountant.                                   *)

(* Money is the natural numbers, as fractions.                             *)
LEMMA WholeMoney ==
  /\ \A k \in Nat : Whole(k) \in Money /\ Whole(k).n = k
  /\ \A x \in Money : x.n \in Nat /\ x = Whole(x.n)
  /\ Zero \in Money /\ Zero.n = 0 /\ Whole(1).n = 1
  BY DEF Money, Whole, Zero, Fraction

(* Money added to money is money (UpdateGridRealizedPNL).                  *)
LEMMA MoneyAdds ==
  ASSUME NEW x \in Money, NEW y \in Money
  PROVE  Plus(x, y) \in Money /\ Plus(x, y).n = x.n + y.n
<1>1. PICK m \in Nat : x.n = m /\ x = Whole(m)
  BY WholeMoney
<1>2. PICK n \in Nat : y.n = n /\ y = Whole(n)
  BY WholeMoney
<1>3. Plus(x, y) = Whole(m + n)
  BY <1>1, <1>2, WholeSums
<1>. QED
  BY <1>1, <1>2, <1>3, WholeMoney

(* The accountant is one of those Buying and Selling are about.            *)
LEMMA HasBooks ==
  ASSUME ModulesOK, AllWhole, AccountantFollowsLevel
  PROVE  Carries(gridAcc, gridAcc.qty, gridAcc.realized.n) /\ gridAcc.realized.n \in Nat
  BY WholeMoney DEF ModulesOK, AllWhole, AccountantFollowsLevel, Carries, AccountantType

(* The fields of such an accountant.                                       *)
LEMMA AfterTrade ==
  ASSUME NEW a, NEW q \in -1 .. 1, NEW r \in Nat, Carries(a, q, r)
  PROVE  /\ a.qty = q /\ a.avg = IF q = -1 THEN Whole(1) ELSE Zero
         /\ a \in AccountantType /\ a.realized \in Money /\ a.realized.n = r
  BY WholeMoney DEF Carries, AccountantType, Money

(* The grid's purchase: the accountant counts a unit more, and earns a     *)
(* profit if it believed it was short of one.                              *)
LEMMA BuyBooks ==
  ASSUME ModulesOK, AllWhole, AccountantFollowsLevel, GridBuys
  PROVE  /\ gridAcc.qty \in {-1, 0} /\ gridAcc'.qty = gridAcc.qty + 1
         /\ gridAcc'.avg = Zero
         /\ gridAcc' \in AccountantType /\ gridAcc'.realized \in Money
         /\ gridAcc'.realized.n = IF gridAcc.qty = -1 THEN gridAcc.realized.n + 1 ELSE gridAcc.realized.n
<1>1. level = "open" /\ gridAcc' = RecordTrade(gridAcc, "BUY", 0, 1)
  BY DEF GridBuys, OnTrade
<1>2. gridAcc.qty \in {-1, 0}
  BY <1>1 DEF AccountantFollowsLevel
<1>3. Carries(gridAcc', gridAcc.qty + 1,
              IF gridAcc.qty = -1 THEN gridAcc.realized.n + 1 ELSE gridAcc.realized.n)
  BY <1>1, <1>2, HasBooks, Buying
<1>. DEFINE q == gridAcc.qty + 1
            r == IF gridAcc.qty = -1 THEN gridAcc.realized.n + 1 ELSE gridAcc.realized.n
<1>4. q \in {0, 1} /\ r \in Nat
  BY <1>2, HasBooks
<1>. HIDE DEF q, r
<1>5. Carries(gridAcc', q, r)
  BY <1>3 DEF q, r
<1>6. /\ gridAcc'.qty = q /\ gridAcc'.avg = Zero
      /\ gridAcc' \in AccountantType /\ gridAcc'.realized \in Money /\ gridAcc'.realized.n = r
  BY <1>4, <1>5, AfterTrade
<1>. QED
  BY <1>2, <1>6 DEF q, r

(* The grid's sale: a unit less, and a profit if the accountant had the    *)
(* unit.                                                                   *)
LEMMA SellBooks ==
  ASSUME ModulesOK, AllWhole, AccountantFollowsLevel, GridSells
  PROVE  /\ gridAcc.qty \in {0, 1} /\ gridAcc'.qty = gridAcc.qty - 1
         /\ gridAcc'.avg = IF gridAcc.qty = 0 THEN Whole(1) ELSE Zero
         /\ gridAcc' \in AccountantType /\ gridAcc'.realized \in Money
         /\ gridAcc'.realized.n = IF gridAcc.qty = 1 THEN gridAcc.realized.n + 1 ELSE gridAcc.realized.n
<1>1. level = "held" /\ gridAcc' = RecordTrade(gridAcc, "SELL", 1, 1)
  BY DEF GridSells, OnTrade
<1>2. gridAcc.qty \in {0, 1}
  BY <1>1 DEF AccountantFollowsLevel
<1>3. Carries(gridAcc', gridAcc.qty - 1,
              IF gridAcc.qty = 1 THEN gridAcc.realized.n + 1 ELSE gridAcc.realized.n)
  BY <1>1, <1>2, HasBooks, Selling
<1>. DEFINE q == gridAcc.qty - 1
            r == IF gridAcc.qty = 1 THEN gridAcc.realized.n + 1 ELSE gridAcc.realized.n
<1>4. q \in {-1, 0} /\ (q = -1 <=> gridAcc.qty = 0) /\ r \in Nat
  BY <1>2, HasBooks
<1>. HIDE DEF q, r
<1>5. Carries(gridAcc', q, r)
  BY <1>3 DEF q, r
<1>6. /\ gridAcc'.qty = q /\ gridAcc'.avg = IF q = -1 THEN Whole(1) ELSE Zero
      /\ gridAcc' \in AccountantType /\ gridAcc'.realized \in Money /\ gridAcc'.realized.n = r
  BY <1>4, <1>5, AfterTrade
<1>. QED
  BY <1>2, <1>4, <1>6 DEF q, r

-----------------------------------------------------------------------------
(* GetPositionInfo finds a position that exists, whatever it answers       *)
(* otherwise.                                                              *)
LEMMA FoundWhatExists ==
  ASSUME ExchangeOK
  PROVE  /\ GridFound \subseteq BOOLEAN /\ (FALSE \in GridFound => ~gridActive)
         /\ HedgeFound \subseteq BOOLEAN /\ (FALSE \in HedgeFound => ~hedgePos)
<1>1. \A own, other \in BOOLEAN :
        Found(own, other) \subseteq BOOLEAN /\ (FALSE \in Found(own, other) => ~own)
  BY DEF Found
<1>2. MainPos \subseteq BOOLEAN
  BY DEF MainPos
<1>. QED
  BY <1>1, <1>2 DEF GridFound, HedgeFound, ExchangeOK

(* What the records of a new process hold.                                 *)
LEMMA FreshValues ==
  /\ Zero \in Money /\ Zero.n = 0 /\ NoRisk \in RiskState
  /\ NoState \in StateType /\ NoState.grid = Zero /\ NoState.risk.cum = 0
  /\ NoProfit \in [grid : 0 .. MaxTrades, hedge : 0 .. MaxTrades]
  /\ NoProfit \in [grid : Nat, hedge : Nat] /\ NoProfit.grid = 0 /\ NoProfit.hedge = 0
  /\ NoFinal \in [hedge : Nat, risk : RiskState, grid : Fraction] /\ NoFinal.grid = Zero
  /\ NewAccountant \in AccountantType /\ NewAccountant.realized = Zero
  /\ NewAccountant.qty = 0 /\ NewAccountant.avg = Zero
  BY WholeMoney, BoundAssumption
  DEF Money, NoRisk, RiskState, NoState, StateType, NoProfit, NoFinal, NewAccountant, AccountantType

(* The invariant holds at first.                                           *)
LEMMA GInvInit == Init => GInv
<1>. SUFFICES ASSUME Init PROVE GInv
  OBVIOUS
<1>. USE FreshValues DEF Init
<1>1. Types
  <2>1. ExchangeOK /\ StoreOK
    BY DEF ExchangeOK, StoreOK
  <2>5. ModulesOK
    BY DEF ModulesOK
  <2>2. MainOK /\ MonitorOK /\ StopOK
    BY DEF MainOK, MonitorOK, StopOK, Starting
  <2>3. RunOK /\ HistoryOK
    BY BoundAssumption DEF RunOK, HistoryOK
  <2>4. UnsavedOK
    BY DEF UnsavedOK
  <2>. QED
    BY <2>1, <2>2, <2>3, <2>4, <2>5 DEF Types
<1>2. AllWhole
  BY DEF AllWhole
<1>3. AccountantFollowsLevel /\ ActiveLevel
  BY DEF AccountantFollowsLevel, ActiveLevel
<1>4. WithinBounds
  BY BoundAssumption DEF WithinBounds, Recorded
<1>5. RecordsFollow /\ HedgeKnown
  BY DEF RecordsFollow, HedgeKnown
<1>6. HedgeProfitFollowed
  BY DEF HedgeProfitFollowed, HasHedgeProfit, BeforeRun, AfterRiskSave
<1>7. GridProfitFollowed
  BY DEF GridProfitFollowed, ToSave, BeforeRun, Stopping, InHand
<1>. QED
  BY <1>1, <1>2, <1>3, <1>4, <1>5, <1>6, <1>7 DEF GInv

-----------------------------------------------------------------------------
(* Every step keeps the invariant.                                         *)

(* NewOrchestrator keeps the invariant. When it removes the file of an     *)
(* idle exchange, level is "gone" and the profits are counted anew.        *)
LEMMA BootKeeps ==
  ASSUME GInv, Boot
  PROVE  GInv'
<1>. USE FreshValues DEF Boot, ForgetProfits, GInv, exchange, modules
<1>1. Types'
  <2>. USE DEF Types
  <2>1. (ExchangeOK /\ StoreOK /\ ModulesOK)'
    BY DEF ExchangeOK, StoreOK, ModulesOK
  <2>2. (MainOK /\ MonitorOK /\ StopOK)'
    BY DEF MainOK, MonitorOK, StopOK, Starting
  <2>3. (RunOK /\ HistoryOK)'
    BY BoundAssumption DEF RunOK, HistoryOK
  <2>4. UnsavedOK'
    BY DEF UnsavedOK
  <2>. QED
    BY <2>1, <2>2, <2>3, <2>4
<1>2. AllWhole'
  BY DEF AllWhole
<1>3. (AccountantFollowsLevel /\ ActiveLevel)'
  BY DEF AccountantFollowsLevel, ActiveLevel
<1>4. WithinBounds'
  BY BoundAssumption DEF WithinBounds, Recorded, Types, RunOK, HistoryOK, MonitorOK, Starting
<1>5. (RecordsFollow /\ HedgeKnown)'
  BY DEF RecordsFollow, HedgeKnown
<1>6. HedgeProfitFollowed'
  BY DEF HedgeProfitFollowed, HasHedgeProfit, BeforeRun, AfterRiskSave
<1>7. GridProfitFollowed'
  <2>1. PICK grid \in GridFound, hedge \in HedgeFound, others \in OtherOrders :
          \/ IsTrulyIdle(grid, hedge, others) /\ ForgetProfits /\ file' = NoState
          \/ UNCHANGED <<file, earned, carried, missed>>
    OBVIOUS
  <2>2. IsTrulyIdle(grid, hedge, others) => level = "gone"
    BY FoundWhatExists DEF IsTrulyIdle, Types, ActiveLevel
  <2>. QED
    BY <2>1, <2>2 DEF GridProfitFollowed, ToSave, BeforeRun, Stopping, InHand
<1>. QED
  BY <1>1, <1>2, <1>3, <1>4, <1>5, <1>6, <1>7

(* reconcileStateOnStartup keeps it: the correction of the hedge record    *)
(* leaves the profits alone.                                               *)
LEMMA ReadHedgeKeeps ==
  ASSUME GInv, ReadHedge
  PROVE  GInv'
<1>. USE DEF ReadHedge, GInv, exchange, modules
<1>1. /\ kept' \in StateType /\ kept'.grid = kept.grid
      /\ kept'.risk.cum = kept.risk.cum
      /\ start' = "read" /\ hedgePos => kept'.risk.hedges /\ kept'.risk.active
  <2>1. CASE kept' = kept /\ start' = "blind"
    BY <2>1 DEF Types, StoreOK
  <2>2. CASE \E hedge \in HedgeFound : kept' = [kept EXCEPT !.risk = Calibrated(@, hedge)]
    <3>1. PICK hedge \in HedgeFound : kept' = [kept EXCEPT !.risk = Calibrated(@, hedge)]
      BY <2>2
    <3>. DEFINE r == Calibrated(kept.risk, hedge)
    <3>2. hedge \in BOOLEAN /\ (hedgePos => hedge)
      BY FoundWhatExists DEF Types, ExchangeOK
    <3>3. r \in RiskState /\ r.cum = kept.risk.cum /\ r.hedges = hedge /\ (hedge => r.active)
      BY <3>2 DEF Calibrated, RiskState, Types, StoreOK, StateType
    <3>. HIDE DEF r
    <3>4. kept' = [kept EXCEPT !.risk = r]
      BY <3>1 DEF r
    <3>. QED
      BY <3>2, <3>3, <3>4 DEF Types, StoreOK, StateType
  <2>. QED
    BY <2>1, <2>2
<1>2. Types'
  <2>. USE DEF Types
  <2>1. (ExchangeOK /\ StoreOK /\ ModulesOK)'
    BY <1>1 DEF ExchangeOK, StoreOK, ModulesOK
  <2>2. (MainOK /\ MonitorOK /\ StopOK)'
    BY DEF MainOK, MonitorOK, StopOK, Starting
  <2>3. (RunOK /\ HistoryOK /\ UnsavedOK)'
    BY DEF RunOK, HistoryOK, UnsavedOK
  <2>. QED
    BY <2>1, <2>2, <2>3
<1>3. AllWhole'
  BY <1>1 DEF AllWhole
<1>4. (AccountantFollowsLevel /\ ActiveLevel)'
  BY DEF AccountantFollowsLevel, ActiveLevel
<1>5. WithinBounds'
  BY DEF WithinBounds, Recorded, Types, MonitorOK, Starting
<1>6. (RecordsFollow /\ HedgeKnown)'
  BY <1>1 DEF RecordsFollow, HedgeKnown
<1>7. HedgeProfitFollowed'
  BY <1>1 DEF HedgeProfitFollowed, HasHedgeProfit, BeforeRun, AfterRiskSave
<1>8. GridProfitFollowed'
  BY <1>1 DEF GridProfitFollowed, ToSave, BeforeRun, Stopping, InHand
<1>. QED
  BY <1>2, <1>3, <1>4, <1>5, <1>6, <1>7, <1>8

(* A cold start keeps it: everything is counted from zero.                 *)
LEMMA ColdStartKeeps ==
  ASSUME GInv, ColdStart
  PROVE  GInv'
<1>. USE FreshValues DEF ColdStart, ForgetProfits, GInv, store
<1>1. /\ gridAcc' \in AccountantType /\ gridAcc'.realized = Zero
      /\ gridAcc'.qty = 0 /\ gridAcc'.avg = Zero
  BY DEF Restore, AccountantFollowsLevel, AccountantType, Money
<1>2. Types'
  <2>. USE DEF Types
  <2>1. (ExchangeOK /\ StoreOK)'
    BY DEF ExchangeOK, StoreOK
  <2>2. ModulesOK'
    BY <1>1 DEF ModulesOK
  <2>3. (MainOK /\ MonitorOK /\ StopOK)'
    BY DEF MainOK, MonitorOK, StopOK, Starting
  <2>4. (RunOK /\ HistoryOK)'
    BY BoundAssumption DEF RunOK, HistoryOK
  <2>5. UnsavedOK'
    BY DEF UnsavedOK
  <2>. QED
    BY <2>1, <2>2, <2>3, <2>4, <2>5
<1>3. AllWhole'
  BY <1>1 DEF AllWhole
<1>4. (AccountantFollowsLevel /\ ActiveLevel)'
  BY <1>1 DEF AccountantFollowsLevel, ActiveLevel
<1>5. WithinBounds'
  BY BoundAssumption DEF WithinBounds, Recorded, Types, RunOK, HistoryOK, MonitorOK, Starting
<1>6. (RecordsFollow /\ HedgeKnown)'
  BY DEF RecordsFollow, HedgeKnown
<1>7. HedgeProfitFollowed'
  BY DEF HedgeProfitFollowed, HasHedgeProfit, BeforeRun, AfterRiskSave
<1>8. GridProfitFollowed'
  BY <1>1 DEF GridProfitFollowed, ToSave, BeforeRun, Stopping, ToCome
<1>. QED
  BY <1>2, <1>3, <1>4, <1>5, <1>6, <1>7, <1>8

(* A warm start keeps it: the profits go from the file to the accountants, *)
(* and with them what the unit held at the last stop will never bring.     *)
LEMMA WarmStartKeeps ==
  ASSUME GInv, WarmStart
  PROVE  GInv'
<1>. USE DEF WarmStart, RestoredHedgePNL, GInv, exchange, store
<1>1. /\ gridAcc' \in AccountantType /\ gridAcc'.realized = kept.grid
      /\ gridAcc'.qty = 0 /\ gridAcc'.avg = Zero
  BY FreshValues DEF Restore, AccountantFollowsLevel, AccountantType, AllWhole, Money
<1>2. Types'
  <2>. USE DEF Types
  <2>1. (ExchangeOK /\ StoreOK)'
    BY DEF ExchangeOK, StoreOK
  <2>2. ModulesOK'
    BY <1>1 DEF ModulesOK, StoreOK, StateType, RiskState
  <2>3. (MainOK /\ MonitorOK /\ StopOK)'
    BY DEF MainOK, MonitorOK, StopOK, Starting
  <2>4. (RunOK /\ HistoryOK /\ UnsavedOK)'
    BY DEF RunOK, HistoryOK, UnsavedOK
  <2>. QED
    BY <2>1, <2>2, <2>3, <2>4
<1>3. AllWhole'
  BY <1>1 DEF AllWhole
<1>4. (AccountantFollowsLevel /\ ActiveLevel)'
  BY <1>1 DEF AccountantFollowsLevel, ActiveLevel
<1>5. WithinBounds'
  BY DEF WithinBounds, Recorded, Types, MonitorOK, Starting
<1>6. (RecordsFollow /\ HedgeKnown)'
  BY DEF RecordsFollow, HedgeKnown, Types, MonitorOK, Starting
<1>7. HedgeProfitFollowed'
  BY DEF HedgeProfitFollowed, HasHedgeProfit, BeforeRun, AfterRiskSave
<1>8. GridProfitFollowed'
  BY <1>1 DEF GridProfitFollowed, ToSave, BeforeRun, Stopping, InHand, ToCome
<1>. QED
  BY <1>2, <1>3, <1>4, <1>5, <1>6, <1>7, <1>8

(* Steps that only move a goroutine, or a hedge order.                     *)
TurnStep ==
  \/ StartMonitor \/ SeeStop \/ Tick \/ NoAction \/ OpenHedge \/ CloseHedge \/ EndTick
  \/ Stop \/ Cancel \/ Wait

(* They keep it: the monitor is off when main leaves wait, and a hedge     *)
(* order is placed only while main is running or stopping, and the risk    *)
(* manager has the record of that hedge by then.                           *)
LEMMA TurnKeeps ==
  ASSUME GInv, TurnStep
  PROVE  GInv'
<1>. USE DEF GInv
<1>1. UNCHANGED <<gridActive, level, store, modules, final, history>>
  BY DEF TurnStep, StartMonitor, SeeStop, Tick, NoAction, OpenHedge, CloseHedge, EndTick, Stop,
         Cancel, Wait, exchange
<1>2. hedgePos' \in BOOLEAN /\ (hedgePos' => hedgePos \/ mon = "open")
  <2>. USE DEF Types, ExchangeOK
  <2>1. CASE OpenHedge
    BY <2>1 DEF OpenHedge
  <2>2. CASE CloseHedge
    BY <2>2 DEF CloseHedge
  <2>3. CASE StartMonitor \/ SeeStop \/ Tick \/ NoAction \/ EndTick \/ Stop \/ Cancel \/ Wait
    <3>1. hedgePos' = hedgePos
      BY <2>3 DEF StartMonitor, SeeStop, Tick, NoAction, EndTick, Stop, Cancel, Wait, exchange
    <3>. QED
      BY <3>1
  <2>. QED
    BY <2>1, <2>2, <2>3 DEF TurnStep
<1>3. /\ cancelled' \in BOOLEAN
      /\ \/ main' = main
         \/ main = "ready" /\ main' = "running"
         \/ main = "running" /\ main' = "readHedge"
         \/ main = "cancel" /\ main' = "wait"
         \/ main = "wait" /\ main' = "exited" /\ mon' = "off"
  BY DEF TurnStep, StartMonitor, SeeStop, Tick, NoAction, OpenHedge, CloseHedge, EndTick, Stop,
         Cancel, Wait, Types, StopOK, MonitorDone
<1>4. /\ mon' \in {"off", "select"} \cup Working
      /\ mon' \in {"close", "closed"} => mon \in {"close", "closed"}
      /\ mon' = "open" => mon = "open"
      /\ main' \in Starting \cup {"exited"} => mon' = "off"
  <2>. USE DEF Types, MonitorOK, Working, Starting
  <2>1. CASE SeeStop \/ Tick \/ NoAction \/ OpenHedge \/ CloseHedge \/ EndTick
    BY <2>1 DEF SeeStop, Tick, NoAction, OpenHedge, CloseHedge, EndTick
  <2>2. CASE StartMonitor \/ Stop \/ Cancel \/ Wait
    BY <2>2 DEF StartMonitor, Stop, Cancel, Wait, MonitorDone
  <2>. QED
    BY <2>1, <2>2 DEF TurnStep
<1>5. Types'
  <2>. USE <1>1 DEF Types, store, modules, history
  <2>1. (ExchangeOK /\ StoreOK /\ ModulesOK)'
    BY <1>2 DEF ExchangeOK, StoreOK, ModulesOK
  <2>2. (MainOK /\ MonitorOK /\ StopOK)'
    BY <1>3, <1>4 DEF MainOK, MonitorOK, StopOK, Starting, Stopping
  <2>3. (RunOK /\ HistoryOK /\ UnsavedOK)'
    BY DEF RunOK, HistoryOK, UnsavedOK
  <2>. QED
    BY <2>1, <2>2, <2>3
<1>. USE <1>1 DEF store, modules, history
<1>6. AllWhole'
  BY DEF AllWhole
<1>7. (AccountantFollowsLevel /\ ActiveLevel)'
  BY <1>3 DEF AccountantFollowsLevel, ActiveLevel
<1>8. WithinBounds'
  BY <1>3, <1>4 DEF WithinBounds, Recorded
<1>9. (RecordsFollow /\ HedgeKnown)'
  BY <1>2, <1>3, <1>4 DEF RecordsFollow, HedgeKnown, Types, MonitorOK, Starting
<1>10. HedgeProfitFollowed'
  BY <1>3 DEF HedgeProfitFollowed, HasHedgeProfit, BeforeRun, AfterRiskSave
<1>11. GridProfitFollowed'
  BY <1>3 DEF GridProfitFollowed, ToSave, BeforeRun, Stopping, InHand, ToCome
<1>. QED
  BY <1>5, <1>6, <1>7, <1>8, <1>9, <1>10, <1>11

(* Steps of the monitor that change what the risk manager or its           *)
(* accountant knows.                                                       *)
RiskStep == RiskOpens \/ RiskCloses \/ RecordHedge \/ SetCumulativePNL

(* They keep it: a hedge profit that Stop has not read yet is in hedgePNL, *)
(* and one it has passed by has missed it.                                 *)
LEMMA RiskKeeps ==
  ASSUME GInv, RiskStep
  PROVE  GInv'
<1>. USE DEF GInv
<1>1. UNCHANGED <<exchange, store, gridAcc, main, cancelled, final, run, carried>>
  BY DEF RiskStep, RiskOpens, RiskCloses, RecordHedge, SetCumulativePNL, history
<1>2. main \in {"running"} \cup Stopping
  BY DEF RiskStep, RiskOpens, RiskCloses, RecordHedge, SetCumulativePNL, Types, MainOK, MonitorOK
<1>3. /\ mon' \in Working
      /\ mon' # "closed"
      /\ mon' = "close" => Recorded' < MaxTrades
  BY DEF RiskStep, RiskOpens, RiskCloses, RecordHedge, SetCumulativePNL, Working, history, Recorded
<1>4. /\ risk' \in RiskState
      /\ risk'.cum = risk.cum \/ risk'.cum = hedgePNL
      /\ hedgePNL' \in Nat
  <2>. USE DEF Types, ModulesOK, RiskState
  <2>1. CASE RiskOpens \/ RiskCloses
    BY <2>1 DEF RiskOpens, RiskCloses
  <2>2. CASE RecordHedge \/ SetCumulativePNL
    BY <2>2 DEF RecordHedge, SetCumulativePNL
  <2>. QED
    BY <2>1, <2>2 DEF RiskStep
<1>5. start' \in {start, "own"}
  BY DEF RiskStep, RiskOpens, RiskCloses, RecordHedge, SetCumulativePNL, history
<1>6. /\ earned' \in [grid : 0 .. MaxTrades, hedge : 0 .. MaxTrades] /\ earned'.grid = earned.grid
      /\ Recorded' <= MaxTrades
      /\ hedgePNL' - earned'.hedge = hedgePNL - earned.hedge
      /\ earned'.hedge >= earned.hedge
      /\ missed' \in [grid : Nat, hedge : Nat] /\ missed'.grid = missed.grid
      /\ IF AfterHedgeRead THEN earned'.hedge - missed'.hedge = earned.hedge - missed.hedge
         ELSE missed'.hedge = missed.hedge
      /\ unsaved' = unsaved
  <2>. USE DEF Types, HistoryOK, UnsavedOK, ModulesOK, Recorded
  <2>1. CASE RecordHedge
    <3>1. earned.grid + earned.hedge < MaxTrades
      BY <2>1 DEF RecordHedge, WithinBounds
    <3>2. earned' \in [grid : 0 .. MaxTrades, hedge : 0 .. MaxTrades]
          /\ earned'.grid = earned.grid /\ earned'.hedge = earned.hedge + 1
      BY <2>1, <3>1, BoundAssumption DEF RecordHedge
    <3>3. hedgePNL' = hedgePNL + 1 /\ unsaved' = unsaved
      BY <2>1 DEF RecordHedge
    <3>4. /\ missed' \in [grid : Nat, hedge : Nat] /\ missed'.grid = missed.grid
          /\ missed'.hedge = IF AfterHedgeRead THEN missed.hedge + 1 ELSE missed.hedge
      BY <2>1 DEF RecordHedge
    <3>. QED
      BY <3>1, <3>2, <3>3, <3>4, BoundAssumption
  <2>2. CASE RiskOpens \/ RiskCloses \/ SetCumulativePNL
    <3>1. earned' = earned /\ missed' = missed /\ hedgePNL' = hedgePNL /\ unsaved' = unsaved
      BY <2>2 DEF RiskOpens, RiskCloses, SetCumulativePNL, history
    <3>. QED
      BY <3>1 DEF WithinBounds
  <2>. QED
    BY <2>1, <2>2 DEF RiskStep
<1>7. Types'
  <2>. USE <1>1 DEF Types, exchange, store
  <2>1. (ExchangeOK /\ StoreOK)'
    BY DEF ExchangeOK, StoreOK
  <2>2. ModulesOK'
    BY <1>4 DEF ModulesOK
  <2>3. (MainOK /\ MonitorOK /\ StopOK)'
    BY <1>2, <1>3 DEF MainOK, MonitorOK, StopOK, Starting, Stopping
  <2>4. (RunOK /\ HistoryOK /\ UnsavedOK)'
    BY <1>6, <1>5 DEF RunOK, HistoryOK, UnsavedOK
  <2>. QED
    BY <2>1, <2>2, <2>3, <2>4
<1>. USE <1>1, <1>2 DEF exchange, store, Stopping
<1>8. AllWhole'
  BY DEF AllWhole
<1>9. (AccountantFollowsLevel /\ ActiveLevel)'
  BY DEF AccountantFollowsLevel, ActiveLevel
<1>10. WithinBounds'
  BY <1>3, <1>6 DEF WithinBounds
<1>11. (RecordsFollow /\ HedgeKnown)'
  <2>. USE DEF RecordsFollow, HedgeKnown, Types, ModulesOK, RiskState
  <2>1. CASE RiskOpens
    BY <2>1 DEF RiskOpens, history
  <2>2. CASE RiskCloses
    <3>1. start' # "warm"
      BY <2>2 DEF RiskCloses
    <3>. QED
      BY <3>1
  <2>3. CASE RecordHedge \/ SetCumulativePNL
    <3>1. /\ start' = start /\ mon' # "open"
          /\ risk'.hedges = risk.hedges /\ risk'.active = risk.active
      BY <2>3 DEF RecordHedge, SetCumulativePNL, history
    <3>. QED
      BY <3>1
  <2>. QED
    BY <2>1, <2>2, <2>3 DEF RiskStep
<1>12. HedgeProfitFollowed'
  <2>1. /\ earned.hedge \in Int /\ earned'.hedge \in Int /\ missed.hedge \in Int /\ missed'.hedge \in Int
        /\ hedgePNL \in Int /\ hedgePNL' \in Int /\ file.risk.cum \in Int /\ kept.risk.cum \in Int
        /\ final.hedge \in Int /\ final.risk.cum \in Int /\ risk.cum \in Int
    BY <1>4, <1>6, BoundAssumption
       DEF Types, HistoryOK, ModulesOK, StoreOK, StopOK, StateType, RiskState
  <2>2. HasHedgeProfit(hedgePNL) => HasHedgeProfit(hedgePNL)'
    BY <1>6, <2>1 DEF HasHedgeProfit
  <2>3. CASE AfterHedgeRead
    <3>1. \A x \in Int : HasHedgeProfit(x) => earned'.hedge - missed'.hedge <= x /\ x <= earned'.hedge
      BY <1>6, <2>1, <2>3 DEF HasHedgeProfit
    <3>2. UNCHANGED <<file, kept, final, main, unsaved>>
      BY <1>6 DEF threads
    <3>3. ~unsaved /\ main = "readRisk" => HasHedgeProfit(risk'.cum) /\ risk'.cum \in Int
      BY <1>4, <2>1 DEF HedgeProfitFollowed, BeforeRun
    <3>4. ~unsaved /\ main = "readRisk" => HasHedgeProfit(risk.cum)'
      BY <3>1, <3>3 DEF HasHedgeProfit
    <3>5. ~unsaved /\ main \notin BeforeRun => HasHedgeProfit(hedgePNL)'
      BY <2>2 DEF HedgeProfitFollowed
    <3>6. ~unsaved /\ main \in AfterRiskSave => HasHedgeProfit(file.risk.cum)' /\ HasHedgeProfit(kept.risk.cum)'
      BY <2>1, <3>1, <3>2 DEF HedgeProfitFollowed, HasHedgeProfit
    <3>7. /\ ~unsaved /\ main = "syncRisk" => HasHedgeProfit(final.hedge)'
          /\ ~unsaved /\ main = "saveRisk" => HasHedgeProfit(final.risk.cum)'
      BY <2>1, <3>1, <3>2 DEF HedgeProfitFollowed, HasHedgeProfit
    <3>. QED
      BY <3>2, <3>4, <3>5, <3>6, <3>7 DEF HedgeProfitFollowed, BeforeRun
  <2>4. CASE main \in {"running", "readHedge"}
    BY <1>6, <2>2, <2>4 DEF HedgeProfitFollowed, BeforeRun, AfterRiskSave
  <2>. QED
    BY <2>3, <2>4 DEF AfterHedgeRead
<1>13. GridProfitFollowed'
  BY <1>6 DEF GridProfitFollowed, ToSave, BeforeRun, InHand, ToCome
<1>. QED
  BY <1>7, <1>8, <1>9, <1>10, <1>11, <1>12, <1>13

(* The level's orders fill.                                                *)
TradeStep == GridBuys \/ GridSells

(* They keep it: each trade changes by the same amount what was earned and *)
(* what the accountant has or will have once the held unit is sold.        *)
LEMMA TradeKeeps ==
  ASSUME GInv, TradeStep
  PROVE  GInv'
<1>. USE DEF GInv
<1>1. UNCHANGED <<gridActive, hedgePos, risk, hedgePNL, threads, kept, run, start, carried>>
  BY DEF TradeStep, GridBuys, GridSells, Store, store, history
<1>2. /\ main \in {"running"} \cup Stopping
      /\ level # "gone" /\ level' \in {"open", "held", "gone"}
      /\ file' \in {file, kept}
  BY DEF TradeStep, GridBuys, GridSells, Store, store, Types, MainOK, MonitorOK
<1>3. /\ unsaved' = unsaved
      /\ missed' \in [grid : Nat, hedge : Nat] /\ missed'.hedge = missed.hedge
      /\ IF AfterGridRead THEN earned'.grid - missed'.grid <= earned.grid - missed.grid
         ELSE missed'.grid = missed.grid
  <2>. USE DEF Types, HistoryOK
  <2>1. CASE GridBuys
    BY <2>1 DEF GridBuys, history
  <2>2. CASE GridSells
    <3>1. /\ missed' = [missed EXCEPT !.grid = IF AfterGridRead THEN @ + 1 ELSE @]
          /\ earned' = [earned EXCEPT !.grid = @ + 1] /\ unsaved' = unsaved
      BY <2>2 DEF GridSells
    <3>. QED
      BY <3>1, BoundAssumption
  <2>. QED
    BY <2>1, <2>2 DEF TradeStep
<1>4. /\ earned' \in [grid : 0 .. MaxTrades, hedge : 0 .. MaxTrades]
      /\ earned'.hedge = earned.hedge
      /\ Recorded' <= MaxTrades
  <2>. USE DEF Types, HistoryOK, Recorded, WithinBounds
  <2>1. CASE GridBuys
    BY <2>1 DEF GridBuys, history
  <2>2. CASE GridSells
    BY <2>2, BoundAssumption DEF GridSells
  <2>. QED
    BY <2>1, <2>2 DEF TradeStep
<1>5. /\ gridAcc' \in AccountantType /\ gridAcc'.realized \in Money
      /\ gridAcc'.qty \in -1 .. 1
      /\ gridAcc'.avg = IF gridAcc'.qty = -1 THEN Whole(1) ELSE Zero
      /\ level' = "open" => gridAcc'.qty \in {-1, 0}
      /\ level' = "held" => gridAcc'.qty \in {0, 1}
  <2>. USE DEF Types
  <2>1. CASE GridBuys
    BY <2>1, BuyBooks DEF GridBuys
  <2>2. CASE GridSells
    BY <2>2, SellBooks DEF GridSells
  <2>. QED
    BY <2>1, <2>2 DEF TradeStep
<1>6. (gridAcc'.realized.n - earned'.grid) - ToCome' >= (gridAcc.realized.n - earned.grid) - ToCome
  <2>. USE DEF Types, HistoryOK
  <2>1. gridAcc.realized.n \in Nat /\ earned.grid \in Int
    BY WholeMoney, BoundAssumption DEF AllWhole
  <2>2. CASE GridBuys
    <3>1. level = "open" /\ earned' = earned
      BY <2>2 DEF GridBuys, history
    <3>. QED
      BY <2>1, <2>2, <3>1, BuyBooks DEF ToCome
  <2>3. CASE GridSells
    <3>1. level = "held" /\ level' # "held" /\ earned'.grid = earned.grid + 1
      BY <2>3 DEF GridSells
    <3>. QED
      BY <2>1, <2>3, <3>1, SellBooks DEF ToCome
  <2>. QED
    BY <2>2, <2>3 DEF TradeStep
<1>7. Types'
  <2>. USE <1>1, <1>2 DEF Types, threads
  <2>1. (ExchangeOK /\ StoreOK)'
    BY DEF ExchangeOK, StoreOK
  <2>2. ModulesOK'
    BY <1>5 DEF ModulesOK
  <2>3. (MainOK /\ MonitorOK /\ StopOK)'
    BY DEF MainOK, MonitorOK, StopOK
  <2>4. (RunOK /\ HistoryOK /\ UnsavedOK)'
    BY <1>3, <1>4 DEF RunOK, HistoryOK, UnsavedOK
  <2>. QED
    BY <2>1, <2>2, <2>3, <2>4
<1>. USE <1>1, <1>2 DEF threads, Stopping
<1>8. AllWhole'
  BY <1>5 DEF AllWhole
<1>9. (AccountantFollowsLevel /\ ActiveLevel)'
  BY <1>5 DEF AccountantFollowsLevel, ActiveLevel
<1>10. WithinBounds'
  <2>1. mon = "poll"
    BY DEF TradeStep, GridBuys, GridSells
  <2>. QED
    BY <1>4, <2>1 DEF WithinBounds
<1>11. (RecordsFollow /\ HedgeKnown)'
  BY DEF RecordsFollow, HedgeKnown
<1>12. HedgeProfitFollowed'
  BY <1>3, <1>4 DEF HedgeProfitFollowed, HasHedgeProfit, BeforeRun, AfterRiskSave
<1>13. GridProfitFollowed'
  <2>1. /\ gridAcc.realized.n \in Nat /\ gridAcc'.realized.n \in Nat
        /\ earned.grid \in Int /\ earned'.grid \in Int /\ carried \in Int
        /\ missed.grid \in Int /\ missed'.grid \in Int
        /\ ToCome \in Int /\ ToCome' \in Int
    BY <1>3, <1>4, <1>5, WholeMoney, BoundAssumption DEF AllWhole, Types, HistoryOK, ToCome
  <2>2. CASE AfterGridRead
    <3>1. ToSave' <= ToSave
      BY <1>3, <2>1, <2>2 DEF ToSave
    <3>2. file.grid.n \in Int /\ final.grid.n \in Int /\ ToSave \in Int /\ ToSave' \in Int
      BY <2>1, WholeMoney DEF AllWhole, ToSave
    <3>. QED
      BY <1>3, <2>2, <3>1, <3>2 DEF GridProfitFollowed, BeforeRun, AfterGridRead
  <2>3. CASE ~AfterGridRead
    BY <1>3, <1>6, <2>1, <2>3 DEF GridProfitFollowed, ToSave, BeforeRun, AfterGridRead
  <2>. QED
    BY <2>2, <2>3
<1>. QED
  BY <1>7, <1>8, <1>9, <1>10, <1>11, <1>12, <1>13

(* Stop reads.                                                             *)
ReadStep == StopReadHedge \/ StopSyncRisk \/ StopReadRisk \/ StopReadGrid

(* They keep it: Stop's local variables hold what the accountants had, and *)
(* profits since have missed them.                                         *)
LEMMA ReadKeeps ==
  ASSUME GInv, ReadStep
  PROVE  GInv'
<1>. USE DEF GInv
<1>1. UNCHANGED <<exchange, store, gridAcc, hedgePNL, mon, cancelled, history>>
  BY DEF ReadStep, StopReadHedge, StopSyncRisk, StopReadRisk, StopReadGrid, modules
<1>2. \/ main = "readHedge" /\ main' = "syncRisk"
      \/ main = "syncRisk" /\ main' = "readRisk"
      \/ main = "readRisk" /\ main' = "saveRisk"
      \/ main = "readGrid" /\ main' = "saveGrid"
  BY DEF ReadStep, StopReadHedge, StopSyncRisk, StopReadRisk, StopReadGrid
<1>3. /\ risk' \in RiskState /\ risk'.hedges = risk.hedges /\ risk'.active = risk.active
      /\ final' \in [hedge : Nat, risk : RiskState, grid : Fraction]
      /\ main = "readHedge" => final'.hedge = hedgePNL
      /\ main = "syncRisk" => risk'.cum = final.hedge
      /\ main = "readRisk" => final'.risk = risk
      /\ final'.grid = IF main = "readGrid" THEN gridAcc.realized ELSE final.grid
  <2>. USE DEF Types, ModulesOK, StopOK, RiskState, AccountantType
  <2>1. CASE StopReadHedge \/ StopSyncRisk
    BY <2>1 DEF StopReadHedge, StopSyncRisk, modules
  <2>2. CASE StopReadRisk
    BY <2>2 DEF StopReadRisk, modules
  <2>3. CASE StopReadGrid
    BY <2>3 DEF StopReadGrid, modules, GetRealizedPNL
  <2>. QED
    BY <2>1, <2>2, <2>3 DEF ReadStep
<1>4. Types'
  <2>. USE <1>1, <1>3 DEF Types, exchange, store, history
  <2>1. (ExchangeOK /\ StoreOK /\ ModulesOK)'
    BY DEF ExchangeOK, StoreOK, ModulesOK
  <2>2. (MainOK /\ MonitorOK /\ StopOK)'
    BY <1>2 DEF MainOK, MonitorOK, StopOK, Starting, Stopping
  <2>3. (RunOK /\ HistoryOK /\ UnsavedOK)'
    BY DEF RunOK, HistoryOK, UnsavedOK
  <2>. QED
    BY <2>1, <2>2, <2>3
<1>. USE <1>1, <1>2 DEF exchange, store, history
<1>5. AllWhole'
  BY <1>3 DEF AllWhole
<1>6. (AccountantFollowsLevel /\ ActiveLevel)'
  BY DEF AccountantFollowsLevel, ActiveLevel
<1>7. WithinBounds'
  BY DEF WithinBounds, Recorded
<1>8. (RecordsFollow /\ HedgeKnown)'
  BY <1>3 DEF RecordsFollow, HedgeKnown
<1>9. HedgeProfitFollowed'
  BY <1>3 DEF HedgeProfitFollowed, HasHedgeProfit, BeforeRun, AfterRiskSave
<1>10. GridProfitFollowed'
  <2>1. /\ ToCome \in Nat /\ gridAcc.realized.n \in Int
        /\ earned.grid \in Int /\ carried \in Int /\ missed.grid \in Int
    BY WholeMoney, BoundAssumption DEF ToCome, Types, HistoryOK, AllWhole
  <2>. QED
    BY <1>3, <2>1 DEF GridProfitFollowed, ToSave, BeforeRun, Stopping, InHand, ToCome
<1>. QED
  BY <1>4, <1>5, <1>6, <1>7, <1>8, <1>9, <1>10

(* Stop saves.                                                             *)
SaveStep == UpdateBHLSState \/ UpdateGridRealizedPNL

(* They keep it: a save that succeeds puts the profit in the file.         *)
LEMMA SaveKeeps ==
  ASSUME GInv, SaveStep
  PROVE  GInv'
<1>. USE DEF GInv
<1>1. UNCHANGED <<exchange, modules, mon, cancelled, final, run, start, earned, carried, missed>>
  BY DEF SaveStep, UpdateBHLSState, UpdateGridRealizedPNL
<1>2. \/ main = "saveRisk" /\ main' = "readGrid"
      \/ main = "saveGrid" /\ main' = "cancel"
  BY DEF SaveStep, UpdateBHLSState, UpdateGridRealizedPNL
<1>3. /\ unsaved' \in BOOLEAN /\ (~unsaved' => ~unsaved)
      /\ ~unsaved' => file' = kept'
      /\ file' \in {file, kept'}
  BY DEF SaveStep, UpdateBHLSState, UpdateGridRealizedPNL, Store, Types, UnsavedOK
<1>4. /\ kept' \in StateType /\ kept'.grid \in Money
      /\ kept'.risk.cum = IF main = "saveRisk" THEN final.risk.cum ELSE kept.risk.cum
      /\ main = "saveGrid" => kept'.grid.n = kept.grid.n + final.grid.n
  <2>. USE DEF Types, StoreOK, StateType, StopOK, AllWhole
  <2>1. CASE UpdateBHLSState
    BY <2>1 DEF UpdateBHLSState, Store
  <2>2. CASE UpdateGridRealizedPNL
    <3>. DEFINE p == Plus(kept.grid, final.grid)
    <3>1. p \in Money /\ p.n = kept.grid.n + final.grid.n
      BY MoneyAdds
    <3>. HIDE DEF p
    <3>2. main = "saveGrid" /\ kept' = [kept EXCEPT !.grid = p]
      BY <2>2 DEF UpdateGridRealizedPNL, Store, ProfitAdded, p
    <3>. QED
      BY <3>1, <3>2 DEF Money
  <2>. QED
    BY <2>1, <2>2 DEF SaveStep
<1>5. Types'
  <2>. USE <1>1, <1>3, <1>4 DEF Types, exchange, modules
  <2>1. (ExchangeOK /\ StoreOK /\ ModulesOK)'
    BY DEF ExchangeOK, StoreOK, ModulesOK
  <2>2. (MainOK /\ MonitorOK /\ StopOK)'
    BY <1>2 DEF MainOK, MonitorOK, StopOK, Starting, Stopping
  <2>3. (RunOK /\ HistoryOK /\ UnsavedOK)'
    BY DEF RunOK, HistoryOK, UnsavedOK
  <2>. QED
    BY <2>1, <2>2, <2>3
<1>. USE <1>1, <1>2 DEF exchange, modules
<1>6. AllWhole'
  BY <1>3, <1>4 DEF AllWhole
<1>7. (AccountantFollowsLevel /\ ActiveLevel)'
  BY DEF AccountantFollowsLevel, ActiveLevel
<1>8. WithinBounds'
  BY DEF WithinBounds, Recorded
<1>9. (RecordsFollow /\ HedgeKnown)'
  BY DEF RecordsFollow, HedgeKnown
<1>10. HedgeProfitFollowed'
  BY <1>3, <1>4 DEF HedgeProfitFollowed, HasHedgeProfit, BeforeRun, AfterRiskSave
<1>11. GridProfitFollowed'
  <2>1. /\ kept.grid.n \in Nat /\ final.grid.n \in Nat
        /\ earned.grid \in Int /\ carried \in Int /\ missed.grid \in Int
        /\ ToCome' = ToCome
    BY WholeMoney, BoundAssumption DEF ToCome, Types, HistoryOK, AllWhole
  <2>. QED
    BY <1>3, <1>4, <2>1 DEF GridProfitFollowed, ToSave, BeforeRun, Stopping
<1>. QED
  BY <1>5, <1>6, <1>7, <1>8, <1>9, <1>10, <1>11

(* The process ends: by itself, at a stop, or in a crash.                  *)
GoneStep == StartFails \/ End \/ Crash

(* They keep it: from now on the unit held counts as carried, since the    *)
(* accountant forgets it.                                                  *)
LEMMA GoneKeeps ==
  ASSUME GInv, GoneStep
  PROVE  GInv'
<1>. USE DEF GInv
<1>1. Gone /\ main # "down" /\ UNCHANGED <<file, run, earned, missed>>
  BY DEF GoneStep, StartFails, End, Crash, Gone
<1>2. /\ ExchangeOK' /\ ActiveLevel'
      /\ level' = level \/ (level = "gone" /\ level' \in {"open", "gone"})
  <2>. USE DEF Types, ExchangeOK, ActiveLevel
  <2>1. CASE StartFails
    <3>1. hedgePos' = hedgePos
      BY <2>1 DEF StartFails
    <3>2. CASE UNCHANGED <<gridActive, level>>
      BY <3>1, <3>2
    <3>3. CASE ~gridActive /\ gridActive' = TRUE /\ level' \in {"open", "gone"}
      BY <3>1, <3>3
    <3>. QED
      BY <2>1, <3>2, <3>3 DEF StartFails
  <2>2. CASE End \/ Crash
    BY <2>2 DEF End, Crash, exchange
  <2>. QED
    BY <2>1, <2>2 DEF GoneStep
<1>3. /\ unsaved' \in BOOLEAN /\ (~unsaved' => ~unsaved)
      /\ ~unsaved' => main \in {"hedge", "restore", "exited"}
  BY DEF GoneStep, StartFails, End, Crash, Types, UnsavedOK
<1>4. carried' = carried + InHand
  BY <1>1, BoundAssumption DEF Gone, InHand, Types, HistoryOK
<1>5. /\ main' = "down" /\ mon' = "off" /\ cancelled' = FALSE /\ final' = NoFinal
      /\ kept' = NoState /\ risk' = NoRisk /\ gridAcc' = NewAccountant /\ hedgePNL' = 0
      /\ start' = "none"
  BY <1>1 DEF Gone
<1>. USE <1>1, <1>5, FreshValues
<1>6. WithinBounds'
  BY <1>4, BoundAssumption DEF WithinBounds, Recorded, InHand, Types, RunOK, HistoryOK
<1>7. Types'
  <2>. USE DEF Types
  <2>1. (StoreOK /\ ModulesOK)'
    BY DEF StoreOK, ModulesOK
  <2>2. (MainOK /\ MonitorOK /\ StopOK)'
    BY DEF MainOK, MonitorOK, StopOK, Starting
  <2>3. RunOK' /\ UnsavedOK'
    BY <1>3 DEF RunOK, UnsavedOK
  <2>4. HistoryOK'
    BY <1>4, BoundAssumption DEF HistoryOK, WithinBounds, InHand, RunOK
  <2>. QED
    BY <1>2, <2>1, <2>2, <2>3, <2>4
<1>8. AllWhole'
  BY DEF AllWhole
<1>9. AccountantFollowsLevel'
  BY DEF AccountantFollowsLevel
<1>10. (RecordsFollow /\ HedgeKnown)'
  BY DEF RecordsFollow, HedgeKnown
<1>11. HedgeProfitFollowed'
  BY <1>3 DEF HedgeProfitFollowed, HasHedgeProfit, BeforeRun, AfterRiskSave
<1>12. GridProfitFollowed'
  <2>1. /\ file.grid.n \in Nat /\ InHand' = InHand
        /\ earned.grid \in Int /\ carried \in Int /\ missed.grid \in Int
    BY <1>2, WholeMoney, BoundAssumption DEF InHand, Types, HistoryOK, AllWhole
  <2>. QED
    BY <1>3, <1>4, <2>1 DEF GridProfitFollowed, ToSave, BeforeRun, Stopping, InHand
<1>. QED
  BY <1>2, <1>6, <1>7, <1>8, <1>9, <1>10, <1>11, <1>12

(* What happens while the bot is down.                                     *)
AwayStep == UserCloses \/ FillsUnseen

(* They keep it: a profit made then was carried already.                   *)
LEMMA AwayKeeps ==
  ASSUME GInv, AwayStep
  PROVE  GInv'
<1>. USE DEF GInv
<1>1. /\ UNCHANGED <<hedgePos, store, modules, threads, run, start, carried, missed, unsaved>>
      /\ main = "down"
  BY DEF AwayStep, UserCloses, FillsUnseen, history
<1>2. level' = "gone" /\ gridActive' \in BOOLEAN
  BY DEF AwayStep, UserCloses, FillsUnseen, Types, ExchangeOK
<1>3. /\ earned' \in [grid : 0 .. MaxTrades, hedge : 0 .. MaxTrades]
      /\ earned'.hedge = earned.hedge
      /\ earned'.grid <= earned.grid + InHand
      /\ Recorded' <= MaxTrades
  <2>. USE BoundAssumption DEF Types, HistoryOK, InHand, Recorded, WithinBounds
  <2>1. CASE UserCloses
    BY <2>1 DEF UserCloses, history
  <2>2. CASE FillsUnseen
    BY <2>2 DEF FillsUnseen
  <2>. QED
    BY <2>1, <2>2 DEF AwayStep
<1>. USE <1>1, <1>2 DEF store, modules, threads
<1>4. Types'
  <2>. USE DEF Types
  <2>1. (ExchangeOK /\ StoreOK /\ ModulesOK)'
    BY DEF ExchangeOK, StoreOK, ModulesOK
  <2>2. (MainOK /\ MonitorOK /\ StopOK)'
    BY DEF MainOK, MonitorOK, StopOK
  <2>3. (RunOK /\ HistoryOK /\ UnsavedOK)'
    BY <1>3 DEF RunOK, HistoryOK, UnsavedOK
  <2>. QED
    BY <2>1, <2>2, <2>3
<1>5. AllWhole'
  BY DEF AllWhole
<1>6. (AccountantFollowsLevel /\ ActiveLevel)'
  BY DEF AccountantFollowsLevel, ActiveLevel
<1>7. WithinBounds'
  BY <1>3 DEF WithinBounds, Types, MonitorOK, Starting
<1>8. (RecordsFollow /\ HedgeKnown)'
  BY DEF RecordsFollow, HedgeKnown
<1>9. HedgeProfitFollowed'
  BY <1>3 DEF HedgeProfitFollowed, HasHedgeProfit, BeforeRun, AfterRiskSave
<1>10. GridProfitFollowed'
  <2>1. /\ file.grid.n \in Nat /\ earned.grid \in Int /\ earned'.grid \in Int
        /\ carried \in Int /\ missed.grid \in Int /\ InHand \in Int
    BY <1>3, WholeMoney, BoundAssumption DEF InHand, Types, HistoryOK, AllWhole
  <2>. QED
    BY <1>3, <2>1 DEF GridProfitFollowed, ToSave, BeforeRun, Stopping, InHand
<1>. QED
  BY <1>4, <1>5, <1>6, <1>7, <1>8, <1>9, <1>10

(* The steps together.                                                     *)
LEMMA GInvStep == GInv /\ [Next]_vars => GInv'
<1>. SUFFICES ASSUME GInv, [Next]_vars PROVE GInv'
  OBVIOUS
<1>1. CASE Boot \/ ReadHedge \/ ColdStart \/ WarmStart
  BY <1>1, BootKeeps, ReadHedgeKeeps, ColdStartKeeps, WarmStartKeeps
<1>2. CASE StartMonitor \/ Stop
  BY <1>2, TurnKeeps DEF TurnStep
<1>3. CASE MonitorStep
  BY <1>3, TurnKeeps, RiskKeeps, TradeKeeps DEF MonitorStep, TurnStep, RiskStep, TradeStep
<1>4. CASE StopStep
  BY <1>4, TurnKeeps, ReadKeeps, SaveKeeps DEF StopStep, TurnStep, ReadStep, SaveStep
<1>5. CASE StartFails \/ End \/ Crash
  BY <1>5, GoneKeeps DEF GoneStep
<1>6. CASE UserCloses \/ FillsUnseen
  BY <1>6, AwayKeeps DEF AwayStep
<1>7. CASE UNCHANGED vars
  <2>. USE <1>7 DEF vars, exchange, store, modules, threads, history
  <2>1. Types'
    BY DEF GInv, Types, ExchangeOK, StoreOK, ModulesOK, MainOK, MonitorOK, StopOK, RunOK, HistoryOK, UnsavedOK
  <2>2. (AllWhole /\ AccountantFollowsLevel /\ WithinBounds /\ ActiveLevel)'
    BY DEF GInv, AllWhole, AccountantFollowsLevel, WithinBounds, Recorded, ActiveLevel
  <2>3. (RecordsFollow /\ HedgeKnown)'
    BY DEF GInv, RecordsFollow, HedgeKnown
  <2>4. (HedgeProfitFollowed /\ GridProfitFollowed)'
    BY DEF GInv, HedgeProfitFollowed, HasHedgeProfit, GridProfitFollowed, ToSave, InHand, ToCome
  <2>. QED
    BY <2>1, <2>2, <2>3, <2>4 DEF GInv
<1>. QED
  BY <1>1, <1>2, <1>3, <1>4, <1>5, <1>6, <1>7 DEF Next, Finished

-----------------------------------------------------------------------------
(* The inductive invariant, for every bound and every Env.                 *)
THEOREM GInvAlways == Spec => []GInv
<1>1. Init => GInv
  BY GInvInit
<1>2. GInv /\ [Next]_vars => GInv'
  BY GInvStep
<1>. QED
  BY <1>1, <1>2, PTL DEF Spec

(* Every variable has its type, and the monitor goroutine exists only      *)
(* between Start and the end of Stop.                                      *)
THEOREM TypeCorrect == Spec => []TypeOK
<1>1. GInv => TypeOK
  BY TypesSuffice DEF GInv
<1>. QED
  BY <1>1, GInvAlways, PTL

(* A restored bot knows of the hedge the exchange has, until it has it     *)
(* closed itself (reconcileStateOnStartup), whatever went wrong before and *)
(* whatever GetPositionInfo answered.                                      *)
THEOREM HedgeAlwaysKnown == Spec => []HedgeKnown
<1>1. GInv => HedgeKnown
  BY DEF GInv
<1>. QED
  BY <1>1, GInvAlways, PTL

(* After a stop the file holds all the hedge profit, over any number of    *)
(* restarts, but at most for what the monitor recorded while Stop was      *)
(* saving (Stop, SetCumulativePNL, UpdateBHLSState).                       *)
THEOREM HedgeProfitSaved == Spec => []HedgeProfitExact
<1>1. GInv => HedgeProfitExact
  BY BoundAssumption DEF GInv, HedgeProfitFollowed, HasHedgeProfit, HedgeProfitExact, AfterRiskSave,
         Types, StoreOK, StateType, RiskState, HistoryOK
<1>. QED
  BY <1>1, GInvAlways, PTL

(* After a stop the file lacks no more grid profit than one for each unit  *)
(* that was held when a run ended and one for each sale that was recorded  *)
(* after Stop had read it (UpdateGridRealizedPNL, Restore).                *)
THEOREM GridProfitSaved == Spec => []GridProfitKept
<1>1. GInv => GridProfitKept
  <2>. SUFFICES ASSUME GInv, main = "exited", ~unsaved
                PROVE  AtMost(Whole(ToSave), file.grid)
    BY DEF GridProfitKept, ToSave
  <2>1. file.grid \in Fraction /\ file.grid.d = 1 /\ ToSave <= file.grid.n
    BY DEF GInv, AllWhole, Money, GridProfitFollowed
  <2>2. ToSave \in Int
    BY BoundAssumption DEF GInv, Types, HistoryOK, ToSave
  <2>. QED
    BY <2>1, <2>2 DEF AtMost, Whole, Fraction
<1>. QED
  BY <1>1, GInvAlways, PTL

(* When Stop has returned, the exchange, the file and the accountants are  *)
(* left alone (o.cancel, o.wg.Wait).                                       *)
THEOREM Silence == Spec => SilentAfterStop
<1>1. GInv /\ [Next]_vars => [main = "exited" /\ main' = "exited" => UNCHANGED <<exchange, store, modules>>]_vars
  <2>. SUFFICES ASSUME GInv, Next, main = "exited", main' = "exited"
                PROVE  UNCHANGED <<exchange, store, modules>>
    OBVIOUS
  <2>1. mon = "off"
    BY DEF GInv, Types, MonitorOK
  <2>2. ~MonitorStep
    BY <2>1 DEF MonitorStep, SeeStop, Tick, NoAction, RiskOpens, RiskCloses, OpenHedge, CloseHedge,
                RecordHedge, SetCumulativePNL, GridBuys, GridSells, EndTick
  <2>3. ~(Boot \/ ReadHedge \/ ColdStart \/ WarmStart \/ StartMonitor \/ Stop \/ StopStep)
    BY DEF Boot, ReadHedge, ColdStart, WarmStart, StartMonitor, Stop, StopStep, StopReadHedge,
           StopSyncRisk, StopReadRisk, UpdateBHLSState, StopReadGrid, UpdateGridRealizedPNL, Cancel, Wait
  <2>4. ~(StartFails \/ End \/ Crash \/ UserCloses \/ FillsUnseen)
    BY DEF StartFails, End, Crash, Gone, UserCloses, FillsUnseen
  <2>. QED
    BY <2>2, <2>3, <2>4 DEF Next, Finished, vars
<1>. QED
  BY <1>1, GInvAlways, PTL DEF Spec, SilentAfterStop
=============================================================================
