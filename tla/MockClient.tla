----------------------------- MODULE MockClient ------------------------------
(***************************************************************************)
(* exchange/mock_client.go: the simulated exchange.  One mutex (c.mu)      *)
(* guards the orders, the price and the positions; the goroutine of the    *)
(* price simulator holds it for a whole tick, every other method for one   *)
(* step.  GetOrder hands out a pointer: the status is read after the mutex *)
(* was given back, while the simulator may be writing it.                  *)
(*                                                                         *)
(* Limit orders only (InitOrders and the grid) and market orders (hedges   *)
(* and liquidation) of one symbol.  MaxOrders bounds the orders of a       *)
(* behaviour: at the bound PlaceOrder fails, which it never does.          *)
(***************************************************************************)
EXTENDS Accountant, FiniteSets, SequencesExt

CONSTANTS MaxOrders,   \* bound: orders placed in a behaviour
          MaxPrice     \* bound: the price stays within 1 .. MaxPrice

ASSUME MockAssumption == MaxOrders \in Nat /\ MaxPrice \in Nat \ {0}

VARIABLES
  book,      \* every order placed, in openOrders or in closedOrders, by id
  resting,   \* the ids of openOrders
  price,     \* currentPrice
  pos,       \* the amount of each side's position
  mode,      \* simulationMode; only the stress test knows the grid's side
  attacking, \* simulationSubMode
  sim        \* the price simulator goroutine in its tick: the order it is
             \* writing, those it still has to fill, and those it has filled

mock == <<book, resting, price, pos, mode, attacking, sim>>

OrderId == 1 .. MaxOrders
Prices == 1 .. MaxPrice
Sides == {"LONG", "SHORT"}

(* Only the long grid is followed; the stress test's hedges are short.     *)
MainSide == "LONG"
HedgeSide == "SHORT"

Used(i) == i <= Len(book)
LockFree == sim.cur = 0

-----------------------------------------------------------------------------
(* PlaceOrder, the regular path.  The mock gives no thought to ReduceOnly. *)

Limit(side, p) ==
  [side |-> side, posSide |-> MainSide, type |-> "LIMIT", price |-> p, qty |-> 1,
   reduce |-> FALSE, status |-> "NEW", avg |-> 0, exec |-> 0]
Market(side, posSide, q, reduce) ==
  [side |-> side, posSide |-> posSide, type |-> "MARKET", price |-> 0, qty |-> q,
   reduce |-> reduce, status |-> "NEW", avg |-> 0, exec |-> 0]

NextId == Len(book) + 1
CanPlace == LockFree /\ NextId \in OrderId

PlaceOrder(o) ==
  /\ CanPlace
  /\ book' = Append(book, o)
  /\ resting' = resting \cup {NextId}
  /\ UNCHANGED <<price, pos, mode, attacking, sim>>

(* CancelOrder: an order that is not open any more is not found.           *)
CancelOrder(i) ==
  /\ LockFree /\ i \in resting
  /\ book' = [book EXCEPT ![i].status = "CANCELED"]
  /\ resting' = resting \ {i}
  /\ UNCHANGED <<price, pos, mode, attacking, sim>>

-----------------------------------------------------------------------------
(* updatePosition_noLock, of which the entry price, the notional and the   *)
(* unrealized profit are left out.  The monitor's liquidation order names  *)
(* its side in small letters: it finds the position, but one that is zero  *)
(* is not found, and the one it then opens nobody will find.               *)

SideOf(o) == IF o.posSide = "long" THEN MainSide ELSE o.posSide
Settle(positions, o) ==
  IF o.posSide = "long" /\ positions[MainSide] = 0 THEN positions
  ELSE [positions EXCEPT ![SideOf(o)] = @ + Signed(o.side, o.qty)]

Filled(o, at) ==
  [o EXCEPT !.status = "FILLED", !.avg = at, !.exec = o.qty]

-----------------------------------------------------------------------------
(* PlaceOrder, the liquidation path: a reduce-only market order on the     *)
(* side under stress test.  Pending closing market orders are settled      *)
(* first, then everything is zeroed; the netting order is only a record.   *)

IsLiquidationTrigger(o) ==
  o.reduce /\ o.type = "MARKET" /\ mode = "bhls_stress_test" /\ o.posSide = "long"

ForceSettled == {i \in resting : book[i].type = "MARKET" /\ book[i].reduce}

StillOpen == resting                                 \* mutant
LeftOpen == resting \ ForceSettled

Liquidate ==
  /\ LockFree
  /\ book' = [i \in DOMAIN book |->
                IF i \in ForceSettled THEN Filled(book[i], price) ELSE book[i]]
  /\ resting' = LeftOpen
  /\ pos' = [s \in Sides |-> 0]
  /\ UNCHANGED <<price, mode, attacking, sim>>

-----------------------------------------------------------------------------
(* runPriceSimulator.  While the fields of an order are being written      *)
(* nothing keeps a reader of its pointer from seeing the status of before, *)
(* that of after, or one of which only one of its two words is written.  A *)
(* tick that fills nothing writes nothing anybody reads without c.mu, and  *)
(* is one step; so is what a tick does after its last order.               *)

Writing(i) == sim.cur = i
StatusRead(i) == IF Writing(i) THEN {book[i].status, "TORN", "FILLED"} ELSE {book[i].status}

StressPrice ==
  LET next == IF attacking THEN price - 1 ELSE price + 1
  IN  IF next \in Prices THEN next ELSE price

NextPrices == IF mode = "sine" THEN Prices ELSE {StressPrice}

Matches(o, at) ==
  \/ o.type = "MARKET"
  \/ o.side = "BUY" /\ at <= o.price
  \/ o.side = "SELL" /\ at >= o.price

(* On the sine wave a price does not follow from the one before, which is  *)
(* forgotten between two ticks.                                            *)
Between(p) == IF mode = "sine" THEN 0 ELSE p

Waiting == [cur |-> 0, todo |-> {}, done |-> <<>>]
Fill(todo, done) == {[cur |-> i, todo |-> todo \ {i}, done |-> done] : i \in todo}

BeginTick ==
  /\ LockFree
  /\ \E p \in NextPrices :
       LET matched == {i \in resting : Matches(book[i], p)} IN
       /\ price' = IF matched = {} THEN Between(p) ELSE p
       /\ sim' \in IF matched = {} THEN {Waiting} ELSE Fill(matched, <<>>)
  /\ UNCHANGED <<book, resting, pos, mode, attacking>>

NothingMoved(done) == resting                        \* mutant
StillResting(done) == resting \ done

(* The positions are settled in the order of the fills; a hedge that grew  *)
(* or shrank turns the price of the stress test around.                    *)
EndTick(done) ==
  /\ resting' = StillResting(ToSet(done))
  /\ pos' = FoldLeft(LAMBDA positions, i : Settle(positions, book[i]), pos, done)
  /\ attacking' = LET before == Magnitude(pos[HedgeSide])
                      after == Magnitude(pos'[HedgeSide])
                  IN  IF after > before THEN FALSE
                      ELSE IF after < before THEN TRUE ELSE attacking
  /\ price' = Between(price)
  /\ sim' = Waiting

WriteOrder ==
  LET done == Append(sim.done, sim.cur) IN
  /\ ~LockFree
  /\ book' = [book EXCEPT ![sim.cur] = Filled(@, price)]
  /\ IF sim.todo = {} THEN EndTick(done)
     ELSE sim' \in Fill(sim.todo, done) /\ UNCHANGED <<resting, price, pos, attacking>>
  /\ UNCHANGED mode

(* The orders whose fill the tick tells of when it has given c.mu back.    *)
FilledByTick == IF LockFree \/ sim.todo # {} THEN {} ELSE ToSet(sim.done) \cup {sim.cur}

-----------------------------------------------------------------------------
MockInit ==
  /\ book = <<>> /\ resting = {}
  /\ pos = [s \in Sides |-> 0]
  /\ mode \in {"sine", "bhls_stress_test"}
  /\ price = Between(MaxPrice)
  /\ attacking = TRUE
  /\ sim = Waiting

MockStatus == {"NEW", "FILLED", "CANCELED"}
MockOrder ==
  [side : {"BUY", "SELL"}, posSide : Sides \cup {"long"}, type : {"LIMIT", "MARKET"},
   price : Int, qty : Nat, reduce : BOOLEAN, status : MockStatus, avg : Prices \cup {0}, exec : Nat]

MockTypeOK ==
  /\ book \in Seq(MockOrder) /\ Len(book) <= MaxOrders
  /\ resting \subseteq DOMAIN book
  /\ price \in Prices \cup {0}
  /\ pos \in [Sides -> Int]
  /\ mode \in {"sine", "bhls_stress_test"} /\ attacking \in BOOLEAN
  /\ sim \in [cur : 0 .. MaxOrders, todo : SUBSET DOMAIN book, done : Seq(DOMAIN book)]
=============================================================================
