---------------------------- MODULE Investment ------------------------------
(***************************************************************************)
(* investment/invest_manager.go: at every tick of the monitor the notional *)
(* values of the two positions are read, one after the other, and their    *)
(* sum is compared with the configured total.  The verdict is copied to    *)
(* the strategy at once.                                                   *)
(***************************************************************************)
EXTENDS Positions

VARIABLES
  exceeded,  \* isLimitExceeded, and with it the strategy's isTradingHalted
  check      \* the running check: the main position's notional as it was
             \* read and whether everything was answered; and as history
             \* what the positions were really worth when they were read,
             \* and whether each was answered with itself

investment == <<exceeded, check>>

NoCheck == [main |-> 0, answered |-> FALSE, worth |-> 0, exact |-> FALSE]

SameSide == GridSide                                 \* mutant
HedgePosSide == IF Direction = "long" THEN "SHORT" ELSE "LONG"

InvestmentLimit == cfg.total * Whole * cfg.gridNum
Worth(s) == pos[s] * mark
Notional(reading) == Magnitude(reading.amt * mark)

(* Without a limit a verdict of before is taken back.                      *)
SkipCheck ==
  /\ pc = "idle" /\ InvestmentLimit <= 0
  /\ exceeded' = FALSE
  /\ check' = NoCheck
  /\ pc' = "risk"
  /\ UNCHANGED <<setup, market>>

ReadMainNotional ==
  /\ pc = "idle" /\ InvestmentLimit > 0
  /\ \/ \E reading \in Readings(GridSide) :
          check' = [main |-> Notional(reading), answered |-> TRUE,
                    worth |-> Worth(GridSide), exact |-> reading.side = GridSide]
     \/ "fail" \in Env /\ check' = NoCheck
  /\ pc' = "readHedgeNotional"
  /\ UNCHANGED <<setup, market, exceeded>>

StickyVerdict(current) == exceeded \/ current >= InvestmentLimit    \* mutant
Verdict(current) == current >= InvestmentLimit

(* If either request failed, the verdict stays what it was.                *)
ReadHedgeNotional ==
  /\ pc = "readHedgeNotional"
  /\ \/ \E reading \in Readings(HedgePosSide) :
          /\ check' = [check EXCEPT !.worth = @ + Worth(RiskSide),
                                    !.exact = @ /\ reading.side = RiskSide]
          /\ exceeded' = IF check.answered THEN Verdict(check.main + Notional(reading)) ELSE exceeded
     \/ "fail" \in Env /\ check' = [check EXCEPT !.answered = FALSE] /\ exceeded' = exceeded
  /\ pc' = "risk"
  /\ UNCHANGED <<setup, market>>

CheckAndUpdate == SkipCheck \/ ReadMainNotional \/ ReadHedgeNotional
=============================================================================
