----------------------------- MODULE MCGridBot -----------------------------
(* Instances of GridBot for TLC: the environments the runs choose from and *)
(* the symmetry of order identifiers, of which no step picks a special one.*)
(* No level of these grids survives formatting and parsing unchanged,      *)
(* which is the harder case for whatever compares prices or strings.       *)
EXTENDS GridBot, TLC

IdSymmetry == Permutations(OrderId)

Restarting == {"crash", "fail", "withdraw", "limit", "range"}
Hedging == {"crash", "lost", "risk", "save"}
Withdrawing == {"limit", "withdraw"}
Refusing == {"limit", "range"}
JustHedging == {"risk"}

NoLevels == {}
=============================================================================
