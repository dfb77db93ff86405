---------------------------- MODULE OrderSizing -----------------------------
(***************************************************************************)
(* The numbers of an order: what config.go lets through, the quantity that *)
(* NewOrchestrator derives from the investment, and what its placeOrder    *)
(* and utils/math.go make of a price and a quantity.                       *)
(*                                                                         *)
(* The decimals of the code are integers here.  A quantity counts pieces   *)
(* of which Whole make up one unit.  A configured price and a tick count   *)
(* the same smallest price; a computed price is larger by the factor       *)
(* gridNum, so that the distance of two levels is a whole number.  The     *)
(* errors of floating point are left out.                                  *)
(***************************************************************************)
EXTENDS Integers, FiniteSetsExt

CONSTANT Whole      \* pieces in one unit, a power of ten

ASSUME WholeAssumption == Whole \in Nat \ {0}

-----------------------------------------------------------------------------
(* LoadConfig keeps its default for a total that is not positive; Validate *)
(* wants a total or a quantity.  Leverage, always positive, and what has   *)
(* no bearing on orders are left out.                                      *)

LoadedTotal(total) == IF total > 0 THEN total ELSE 0
Loaded(raw) == [raw EXCEPT !.total = LoadedTotal(@)]

Valid(c) ==
  /\ c.lower > 0 /\ c.upper > c.lower
  /\ c.gridNum > 0
  /\ c.total > 0 \/ c.gridQty > 0

-----------------------------------------------------------------------------
(* calculateGridPrices, and the price of one unit at every level.          *)
Step(c) == c.upper - c.lower
GridLevel(c, i) == c.gridNum * c.lower + Step(c) * i
TotalPricePerUnit(c) == MapThenSumSet(LAMBDA i : GridLevel(c, i), 0 .. c.gridNum - 1)

Nearest(v, unit) == ((2 * v + unit) \div (2 * unit)) * unit
Floored(v, unit) == (v \div unit) * unit

(* The quantity at which the whole grid costs no more than the total,      *)
(* floored to QuantityPrecision.                                           *)
RoundedQty(c, y) ==                                  \* mutant
  Nearest((c.total * Whole * c.gridNum) \div TotalPricePerUnit(c), y.qtyUnit)
SafeQty(c, y) ==
  Floored((c.total * Whole * c.gridNum) \div TotalPricePerUnit(c), y.qtyUnit)

GridQty(c, y) == IF c.total > 0 THEN SafeQty(c, y) ELSE c.gridQty

-----------------------------------------------------------------------------
(* placeOrder: the precision of quantities is that of the LOT_SIZE filter, *)
(* a power of ten not above its step; without the filter it is zero, that  *)
(* is, whole units.                                                        *)
PowersOfTen == {1, 10, 100, 1000, 10000}
Decimals == {Whole \div p : p \in {q \in PowersOfTen : Whole % q = 0}}
LotUnit(y) == IF y.lot = 0 THEN Whole ELSE Max({d \in Decimals : d <= y.lot})

OrderQty(y, qty) == Nearest(qty, LotUnit(y))

(* The price is rounded to PricePrecision, and then to the tick of the     *)
(* PRICE_FILTER if there is one.                                           *)
RoundToPrecision(c, y, v) == Nearest(v, y.priceUnit * c.gridNum)
TickIgnored(c, y, v) == v                            \* mutant
AdjustPriceToTickSize(c, y, v) ==
  IF y.tick = 0 THEN v ELSE Nearest(v, y.tick * c.gridNum)
OrderPrice(c, y, v) == AdjustPriceToTickSize(c, y, RoundToPrecision(c, y, v))

OpenPrice(c, y, i) == OrderPrice(c, y, GridLevel(c, i))
(* The close order is one step away from the open price the strategy knows *)
(* of: the level's, or after a restart the one the order was sent with.    *)
(* Below a short grid it may turn out negative, where the exchange refuses *)
(* it.                                                                     *)
ClosePrice(c, y, open, side) ==
  OrderPrice(c, y, IF side = "long" THEN open + Step(c) ELSE open - Step(c))
=============================================================================
