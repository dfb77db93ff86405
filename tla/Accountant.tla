----------------------------- MODULE Accountant ------------------------------
(***************************************************************************)
(* profit/accounting.go: a position kept by the weighted average cost      *)
(* method and the profit realized on it.  Every method holds the mutex     *)
(* from beginning to end, so each is one operator on the accountant.       *)
(***************************************************************************)
EXTENDS Fractions

NewAccountant == [qty |-> 0, avg |-> Zero, realized |-> Zero]
AccountantType == [qty : Int, avg : Fraction, realized : Fraction]

Signed(side, q) == IF side = "BUY" THEN q ELSE -q

OnlyBuysClose(a, side) == a.qty < 0 /\ side = "BUY"   \* mutant
IsClosingTrade(a, side) == a.qty * Signed(side, 1) < 0

(* What closing a unit of the position at this price earns.                *)
UnitPNL(a, price) ==
  IF a.qty < 0 THEN Minus(a.avg, Whole(price)) ELSE Minus(Whole(price), a.avg)

QtyToClose(a, q) == IF Magnitude(a.qty) < q THEN Magnitude(a.qty) ELSE q

Realized(a, side, price, q) ==
  IF IsClosingTrade(a, side)
    THEN Plus(a.realized, Times(UnitPNL(a, price), QtyToClose(a, q)))
    ELSE a.realized

AverageCost(a, side, price, q) ==
  LET qty == a.qty + Signed(side, q) IN
  CASE qty = 0 -> Zero
    [] qty # 0 /\ ~IsClosingTrade(a, side) ->
         Over(Plus(Times(a.avg, Magnitude(a.qty)), Whole(price * q)), Magnitude(qty))
    [] qty # 0 /\ a.qty * qty < 0 -> Whole(price)
    [] OTHER -> a.avg

RecordTrade(a, side, price, q) ==
  [qty |-> a.qty + Signed(side, q),
   avg |-> AverageCost(a, side, price, q),
   realized |-> Realized(a, side, price, q)]

RecordPNL(a, pnl) == [a EXCEPT !.realized = Plus(@, pnl)]
Restore(a, profit) == [a EXCEPT !.realized = profit]
GetRealizedPNL(a) == a.realized

(* What the account would be worth if its position were as good as the     *)
(* cash it cost: the profit, less what the position stands in the books    *)
(* for.                                                                    *)
BookCash(a) == Minus(a.realized, Times(a.avg, a.qty))
=============================================================================
