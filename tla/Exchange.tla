------------------------------ MODULE Exchange ------------------------------
(***************************************************************************)
(* The exchange's order book as the bot sees it through exchange.Client    *)
(* (src/exchange/interface.go).  The service itself is not part of the     *)
(* repository: it trades, expires and withdraws orders whenever it likes.  *)
(* An order is executed lot by lot; an order of Lot lots is filled when    *)
(* all of them have traded.  OrderId bounds the orders of a behaviour: an  *)
(* exchange without a free identifier refuses every further order.         *)
(***************************************************************************)
EXTENDS Integers, FiniteSets

CONSTANTS OrderId,   \* the identifiers the exchange can still hand out
          Lot        \* lots per order; 2 makes partial fills possible

ASSUME LotAssumption == Lot \in Nat \ {0}
ASSUME OrderIdAssumption == IsFiniteSet(OrderId)

VARIABLE book        \* the exchange's record of every order

Side == {"BUY", "SELL"}
LiveStatus == {"NEW", "PARTIALLY_FILLED"}
FinalStatus == {"FILLED", "CANCELED", "EXPIRED"}
OrderStatus == LiveStatus \cup FinalStatus

NoOrder == [side |-> "NONE", level |-> 0, status |-> "NONE", exec |-> 0]
Entry == [side : Side, level : Int, status : OrderStatus, exec : 0 .. Lot]

Used(i) == book[i].status # "NONE"
Live(i) == book[i].status \in LiveStatus
FreeIds == {i \in OrderId : ~Used(i)}
OpenOrders == {i \in OrderId : Live(i)}

(* The lots of a side that have traded.                                    *)
Lots(side) == {x \in OrderId \X (1 .. Lot) :
                  book[x[1]].side = side /\ x[2] <= book[x[1]].exec}

(* A limit order is taken into the book.                                   *)
Accept(i, side, level) ==
  /\ i \in FreeIds
  /\ book' = [book EXCEPT ![i] = [side |-> side, level |-> level,
                                  status |-> "NEW", exec |-> 0]]

(* A live order trades one more lot.                                       *)
Traded(o) ==
  [side |-> o.side, level |-> o.level, exec |-> o.exec + 1,
   status |-> IF o.exec + 1 = Lot THEN "FILLED" ELSE "PARTIALLY_FILLED"]

Trade(i) ==
  /\ Live(i)
  /\ book' = [book EXCEPT ![i] = Traded(book[i])]

(* A live order leaves the book before all of its lots have traded: the    *)
(* user cancels it by hand, or the exchange lets it expire.                *)
Withdraw(i, s) ==
  /\ Live(i)
  /\ book' = [book EXCEPT ![i].status = s]

ExchangeInit == book = [i \in OrderId |-> NoOrder]
ExchangeTypeOK == book \in [OrderId -> Entry \cup {NoOrder}]
=============================================================================
