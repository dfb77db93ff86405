----------------------------- MODULE GridLevels -----------------------------
(***************************************************************************)
(* What a grid strategy promises, seen from the exchange: a level is free, *)
(* then an open order rests on it, then its purchase is held, then it is   *)
(* sold and the level is free again.  An open order that leaves the book   *)
(* frees its level, unless part of it has traded.                          *)
(***************************************************************************)
EXTENDS Integers

CONSTANT GridNum
VARIABLE state

Level == 0 .. GridNum - 1

GridInit == state = [l \in Level |-> "free"]

Step(l, from, to) == state[l] = from /\ state' = [state EXCEPT ![l] = to]

Place(l) == Step(l, "free", "open")
Buy(l) == Step(l, "open", "held")
Leave(l) == Step(l, "open", "free")
Sell(l) == Step(l, "held", "free")

GridNext == \E l \in Level : Place(l) \/ Buy(l) \/ Leave(l) \/ Sell(l)

GridSpec == GridInit /\ [][GridNext]_state
=============================================================================
