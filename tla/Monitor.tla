------------------------------ MODULE Monitor -------------------------------
(***************************************************************************)
(* The money at stake: NewOrchestrator sizes the orders by the investment, *)
(* the exchange trades them, and at every tick the monitor has the         *)
(* investment manager compare the positions with the investment and does   *)
(* what the risk manager asks for, up to the liquidation of everything.    *)
(* The orders themselves are the business of GridBot.                      *)
(***************************************************************************)
EXTENDS Investment, CircuitBreaker

vars == <<setup, market, pc, investment, liquidation>>

NoReading == [side |-> "LONG", amt |-> 0]

(* LoadConfig and NewOrchestrator: what cannot be traded ends the process. *)
SizedQty == GridQty(Loaded(cfg), rules)
Boot ==
  /\ pc = "down"
  /\ Valid(Loaded(cfg)) /\ SizedQty > 0
  /\ cfg' = Loaded(cfg) /\ gridQty' = SizedQty
  /\ exceeded' = FALSE /\ check' = NoCheck
  /\ info' = NoReading /\ sent' = NoRequest
  /\ pc' = "idle"
  /\ UNCHANGED <<rules, market, failed, traded>>

(* OpenHedgeAction and CloseHedgeAction: the risk manager's own quantities *)
(* are taken to be those of grid orders.                                   *)
PlacedQty == OrderQty(rules, gridQty)
Sizes == 0 .. MaxPos * PlacedQty
Traded(s, n) == n # 0 /\ pos[s] + n \in Sizes /\ pos' = [pos EXCEPT ![s] = @ + n]

HedgeTrade ==
  /\ pc = "risk"
  /\ \E n \in {PlacedQty, -PlacedQty} : Traded(RiskSide, n)
  /\ UNCHANGED <<setup, mark, pc, investment, liquidation>>

EndTick ==
  /\ pc = "risk"
  /\ pc' = "idle"
  /\ UNCHANGED <<setup, market, investment, liquidation>>

(* The grid's orders trade and the price moves at any time, running bot or *)
(* not; as far as the grid reaches.                                        *)
GridTrade ==
  /\ \E n \in {PlacedQty, -PlacedQty} : Traded(GridSide, n)
  /\ traded' = TRUE
  /\ UNCHANGED <<setup, mark, pc, investment, info, sent, failed>>

Marks == {GridLevel(cfg, 0), GridLevel(cfg, cfg.gridNum)}
PriceMoves ==
  /\ mark' \in Marks \ {mark}
  /\ UNCHANGED <<setup, pos, pc, investment, liquidation>>

MonitorStep ==
  \/ Boot
  \/ CheckAndUpdate /\ UNCHANGED liquidation
  \/ HedgeTrade \/ EndTick
  \/ LiquidateAndStop /\ UNCHANGED investment

Next == MonitorStep \/ GridTrade \/ PriceMoves

Init ==
  /\ cfg \in RawConfigs /\ rules \in Symbols /\ gridQty = 0
  /\ pos = [s \in Sides |-> 0] /\ mark \in Marks
  /\ pc = "down"
  /\ exceeded = FALSE /\ check = NoCheck
  /\ info = NoReading /\ sent = NoRequest
  /\ failed = {} /\ traded = FALSE

Spec == Init /\ [][Next]_vars

-----------------------------------------------------------------------------
(* Every variable has its type.                                            *)
TypeOK ==
  /\ cfg \in Config /\ rules \in Symbols /\ gridQty \in Nat
  /\ pos \in [Sides -> Nat] /\ mark \in Int
  /\ pc \in {"down", "idle", "readHedgeNotional", "risk", "readMain", "closeMain",
             "readHedge", "closeHedge", "panic"}
  /\ exceeded \in BOOLEAN
  /\ check \in [main : Nat, answered : BOOLEAN, worth : Nat, exact : BOOLEAN]
  /\ info \in [side : Sides, amt : Int]
  /\ sent \in [side : {"BUY", "SELL"}, posSide : Sides \cup {"long", "short"},
               qty : Nat, reduceOnly : BOOLEAN]
  /\ failed \subseteq {"main", "hedge"} /\ traded \in BOOLEAN

(* The whole grid can be bought for the configured total, but for what the *)
(* rounding of the prices adds ("absolute safety" in NewOrchestrator), and *)
(* for half a lot per order where LOT_SIZE is coarser than the precision   *)
(* the quantity was floored to, or missing as on the mock exchange.        *)
Sized == gridQty > 0
WholeGrid == MapThenSumSet(LAMBDA i : OpenPrice(cfg, rules, i), 0 .. cfg.gridNum - 1)
RoundingUp == (rules.priceUnit + rules.tick) * cfg.gridNum * cfg.gridNum
CoarserLot == IF LotUnit(rules) > rules.qtyUnit THEN LotUnit(rules) ELSE 0
GridAffordable ==
  Sized /\ cfg.total > 0 =>
    2 * PlacedQty * WholeGrid
      <= 2 * InvestmentLimit + PlacedQty * RoundingUp + CoarserLot * TotalPricePerUnit(cfg)

(* A close order is sent at a price the exchange takes, and at a profit of *)
(* a tick at least, whether the strategy knows the open price from its own *)
(* computation or, after a restart, from the exchange; unless the levels   *)
(* are closer than the tick, or the price would be negative.               *)
OpenPrices(i) == {GridLevel(cfg, i), OpenPrice(cfg, rules, i)}
Tick == rules.tick * cfg.gridNum
Profit(open, close) == IF Direction = "long" THEN close - open ELSE open - close
ClosesWell(open, close) ==
  close % Tick = 0 /\ (Step(cfg) >= Tick => Profit(open, close) >= Tick)
SpreadKept ==
  Sized /\ rules.tick > 0 =>
    \A i \in 0 .. cfg.gridNum - 1 : \A known \in OpenPrices(i) :
      Direction = "long" \/ known > Step(cfg) =>
        ClosesWell(OpenPrice(cfg, rules, i), ClosePrice(cfg, rules, known, Direction))

(* When the check was answered in full and did not find the limit reached, *)
(* the positions were worth less than the limit when they were read: the   *)
(* fallback of GetPositionInfo may count one twice, but never overlooks    *)
(* one.                                                                    *)
CheckDone == pc = "risk" /\ check.answered
OverLimitNoticed == CheckDone /\ ~exceeded => check.worth < InvestmentLimit

(* The grid is paused for no other reason than that limit: when both       *)
(* positions were listed, they had reached it.  An earlier pause ends with *)
(* the first check that is answered.                                       *)
PauseHasCause == CheckDone /\ check.exact /\ exceeded => check.worth >= InvestmentLimit

(* A liquidation order never makes a position bigger, not even when the    *)
(* position read is the fallback of GetPositionInfo, which belongs to the  *)
(* other side: the order then opens and must carry reduceOnly.             *)
LiquidationOnlyReduces ==
  [][pc # pc' => \A s \in Sides : pos'[s] <= pos[s]]_vars

(* When the breaker is through there is no hedge position any more         *)
(* ("2. Close hedge position (if any)"), whatever became of the main       *)
(* position before, if only the requests for the hedge were answered.      *)
HedgeFlattened == pc = "panic" /\ "hedge" \notin failed => pos[RiskSide] = 0

-----------------------------------------------------------------------------
(* What the source says of itself.                                         *)

(* LiquidateAndStopAction: "1. Close main position (grid strategy          *)
(* position)": if the requests for it were answered and the grid did not   *)
(* trade meanwhile, it is closed.                                          *)
MainFlattened ==
  pc = "panic" /\ "main" \notin failed /\ ~traded => pos[GridSide] = 0
=============================================================================
