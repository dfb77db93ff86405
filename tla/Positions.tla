----------------------------- MODULE Positions ------------------------------
(***************************************************************************)
(* What the monitor, the investment manager and the circuit breaker share: *)
(* the configuration the bot was started with, the two positions of its    *)
(* symbol on the exchange, the market price, and GetPositionInfo of        *)
(* exchange/client.go, through which all of them look at the positions.    *)
(***************************************************************************)
EXTENDS OrderSizing

CONSTANTS Direction,   \* cfg.PositionSide: "long" or "short"
          RawConfigs,  \* what may be written in config.yaml
          Symbols,     \* the rules the exchange may have for the symbol
          MaxPos,      \* bound: size of a position in grid orders
          Env          \* what the exchange does in this instance

EnvKinds == {"fail",    \* it refuses a request
             "sparse"}  \* it does not list a position of size zero

SymbolRule == [priceUnit : Nat \ {0}, tick : Nat, qtyUnit : Nat \ {0}, lot : Nat]
Config == [total : Int, lower : Int, upper : Int, gridNum : Int, gridQty : Int]

LoadedConfigs == {Loaded(raw) : raw \in RawConfigs}

ASSUME DirectionAssumption == Direction \in {"long", "short"}
ASSUME ConfigAssumption == RawConfigs \subseteq Config /\ Symbols \subseteq SymbolRule
ASSUME LotAssumption == \A y \in Symbols : {LotUnit(y), y.qtyUnit} \subseteq Decimals
ASSUME TickAssumption == \A y \in Symbols : y.tick % y.priceUnit = 0
ASSUME BoundAssumption == MaxPos \in Nat
ASSUME EnvAssumption == Env \subseteq EnvKinds

VARIABLES
  cfg,      \* the configuration of this run
  rules,    \* GetSymbolInfo
  gridQty,  \* cfg.Grid.GridQty, once NewOrchestrator has set it
  pos,      \* exchange: position side -> size of the position in pieces
  mark,     \* exchange: the market price
  pc        \* where the monitor goroutine is

setup == <<cfg, rules, gridQty>>
market == <<pos, mark>>

Sides == {"LONG", "SHORT"}
Upper(s) == IF s = "long" THEN "LONG" ELSE IF s = "short" THEN "SHORT" ELSE s

(* The grid's side, and the one on which the risk manager hedges.          *)
GridSide == Upper(Direction)
RiskSide == IF GridSide = "LONG" THEN "SHORT" ELSE "LONG"

-----------------------------------------------------------------------------
(* GetPositionInfo: the exact side, or else any position listed, or else   *)
(* nothing.  A short position has a negative amount.                       *)

Listings == IF "sparse" \in Env THEN {Sides, {s \in Sides : pos[s] > 0}} ELSE {Sides}

Info(s) == [side |-> s, amt |-> IF s = "LONG" THEN pos[s] ELSE -pos[s]]
Fallbacks(listed) == {s \in listed : pos[s] > 0}

PositionInfo(listed, side) ==
  IF Upper(side) \in listed \/ Fallbacks(listed) = {}
    THEN {Info(Upper(side))}
    ELSE {Info(s) : s \in Fallbacks(listed)}

(* A reading: which positions are listed is decided anew by every request. *)
Readings(side) == UNION {PositionInfo(listed, side) : listed \in Listings}

Magnitude(n) == IF n < 0 THEN -n ELSE n
=============================================================================
