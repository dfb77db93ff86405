---------------------------- MODULE MCSimulation -----------------------------
(* Instances of Simulation for TLC, and the average cost method on every   *)
(* short history of trades, with positions that grow, shrink, close and    *)
(* turn over, of which the grid only meets the first three.                *)
EXTENDS Simulation

Trades == [side : {"BUY", "SELL"}, price : 1 .. 3, qty : 1 .. 2]
Account(trades) ==
  FoldLeft(LAMBDA a, t : RecordTrade(a, t.side, t.price, t.qty), NewAccountant, trades)
Sum(trades, Of(_)) == FoldLeft(LAMBDA n, t : n + Of(t), 0, trades)

(* No trade creates or loses money: the profit, less what the position     *)
(* stands in the books for, is the cash that was paid and received; and a  *)
(* position is never carried at a price nobody traded at or between.       *)
ASSUME AverageCostIsFair ==
  \A n \in 0 .. 3 : \A trades \in [1 .. n -> Trades] :
    LET a == Account(trades) IN
    /\ a.qty = Sum(trades, LAMBDA t : Signed(t.side, t.qty))
    /\ BookCash(a) = Whole(Sum(trades, LAMBDA t : -Signed(t.side, t.qty) * t.price))
    /\ a.qty # 0 => /\ \E i \in 1 .. n : AtMost(Whole(trades[i].price), a.avg)
                    /\ \E i \in 1 .. n : AtMost(a.avg, Whole(trades[i].price))

OneLevel == {1}
=============================================================================
