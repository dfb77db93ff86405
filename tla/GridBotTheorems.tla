-------------------------- MODULE GridBotTheorems --------------------------
(***************************************************************************)
(* What follows from GridBot's inductive invariant, and the theorems that  *)
(* need an invariant of their own.                                         *)
(***************************************************************************)
EXTENDS GridBotProofs

(* The lot that a lot sold was bought as: the one with its number in the   *)
(* open order that its close order answers.                                *)
Origin == [x \in Lots(CloseSide) |-> <<src[x[1]], x[2]>>]

(* A lot sold belongs to a close order, its origin to the filled open      *)
(* order that the close order answers.                                     *)
LEMMA SoldLot ==
  ASSUME IInv, NEW x \in Lots(CloseSide)
  PROVE  /\ x[1] \in OrderId /\ x[2] \in 1 .. Lot /\ x = <<x[1], x[2]>>
         /\ IsClose(x[1]) /\ src[x[1]] \in OrderId
         /\ <<src[x[1]], x[2]>> \in Lots(OpenSide)
<1>1. x[1] \in OrderId /\ x[2] \in 1 .. Lot /\ x = <<x[1], x[2]>>
  BY DEF Lots
<1>2. book[x[1]].side = CloseSide
  BY DEF Lots
<1>3. IsClose(x[1])
  BY <1>1, <1>2, SidesDiffer DEF IsClose, Used, IInv, TypeOK, ExchangeTypeOK,
     NoOrder, Entry, OrderStatus, LiveStatus, FinalStatus, Side
<1>4. src[x[1]] \in OrderId /\ book[src[x[1]]].side = OpenSide
      /\ book[src[x[1]]].exec = Lot
  BY <1>1, <1>3 DEF IInv, Answered, CloseBacked, IsOpen, Shape,
     ExecMatchesStatus
<1>. QED
  BY <1>1, <1>3, <1>4, LotAssumption DEF Lots

(* No two lots sold have the same origin.                                  *)
LEMMA OriginInjects ==
  ASSUME IInv
  PROVE  /\ IsFiniteSet(Lots(OpenSide)) /\ IsFiniteSet(Lots(CloseSide))
         /\ Origin \in Injection(Lots(CloseSide), Lots(OpenSide))
<1>. DEFINE Bought == Lots(OpenSide)
            Sold == Lots(CloseSide)
<1>1. IsFiniteSet(OrderId \X (1 .. Lot))
  <2>1. IsFiniteSet(1 .. Lot)
    BY LotAssumption, FS_Interval
  <2>. QED
    BY <2>1, OrderIdAssumption, FS_Product
<1>2. Bought \subseteq OrderId \X (1 .. Lot) /\ Sold \subseteq OrderId \X (1 .. Lot)
  BY DEF Lots
<1>3. IsFiniteSet(Bought) /\ IsFiniteSet(Sold)
  BY <1>1, <1>2, FS_Subset
<1>4. Origin \in [Sold -> Bought]
  BY SoldLot DEF Origin
<1>5. \A x, y \in Sold : Origin[x] = Origin[y] => x = y
  <2>. SUFFICES ASSUME NEW x \in Sold, NEW y \in Sold, Origin[x] = Origin[y] PROVE x = y
    OBVIOUS
  <2>1. src[x[1]] = src[y[1]] /\ x[2] = y[2]
    BY DEF Origin
  <2>2. x[1] = y[1]
    BY <2>1, SoldLot DEF IInv, Answered, CloseBacked
  <2>. QED
    BY <2>1, <2>2, SoldLot
<1>. QED
  BY <1>3, <1>4, <1>5 DEF Injection, IsInjective

(* A lot sold maps to the lot of the open order it answers: the lots sold  *)
(* are no more than the lots bought.                                       *)
LEMMA SoldWasBought ==
  ASSUME IInv
  PROVE  NeverOversold
<1>1. Cardinality(Lots(CloseSide)) <= Cardinality(Lots(OpenSide))
  BY OriginInjects, FS_Injection
<1>2. Cardinality(Lots(CloseSide)) \in Nat /\ Cardinality(Lots(OpenSide)) \in Nat
  BY OriginInjects, FS_CardinalityType
<1>. QED
  BY <1>1, <1>2 DEF NeverOversold, Position

(* The bot never sells more than it has bought.                            *)
THEOREM GridNeverOversells == Spec => []NeverOversold
BY SoldWasBought, IInvAlways, PTL

-----------------------------------------------------------------------------
(* Whatever places open orders runs only while the grid is trading: the    *)
(* flag that relistOpenOrder reads once cannot be overtaken.               *)
PlacesWhileTrading ==
  pc \in Booting \cup {"resume", "relist", "retry"} => gstate = "TRADING"

(* Every step keeps PlacesWhileTrading.                                    *)
LEMMA PlacesWhileTradingStep ==
  ASSUME IInv, PlacesWhileTrading, Next
  PROVE  PlacesWhileTrading'
<1>. USE DEF PlacesWhileTrading, Booting, memory, control, history
<1>1. CASE BootStep
  BY <1>1 DEF BootStep, BootPosition, BootOrders, ReconcileOrders, ColdStart,
     WarmStart
<1>2. CASE MonitorStep
  BY <1>2 DEF MonitorStep, Tick, BeginPoll, BeginRetry, EndTick, RetryAllowed
<1>3. CASE StrategyStep
  <2>1. CASE InitPlace \/ InitPutOff \/ InitAbort \/ InitDone
    BY <2>1 DEF InitPlace, InitPutOff, InitAbort, InitDone, Forget
  <2>2. CASE RelistPlace \/ RelistFail
    BY <2>2 DEF RelistPlace, RelistFail
  <2>3. CASE \E i \in OrderId : See(i)
    BY <2>3 DEF See, SeeNothing, SeeProgress, SeeOpenFilled, SeeCloseFilled,
       SeeCanceled, CallRelist, RelistAllowed
  <2>4. CASE PlaceClose \/ PlaceCloseFail \/ RecordClose
    BY <2>4 DEF PlaceClose, PlaceCloseFail, RecordClose
  <2>5. CASE RetryPlace \/ RetryFail \/ RetryDone
    BY <2>5 DEF RetryPlace, RetryFail, RetryDone
  <2>6. CASE Halt \/ (\E i \in OrderId : HaltCancel(i)) \/ HaltDone
    BY <2>6 DEF Halt, HaltCancel, HaltDone
  <2>7. CASE Resume \/ ResumeNext \/ ResumeDone
    BY <2>7 DEF Resume, ResumeNext, ResumeDone, CallRelist, RelistAllowed
  <2>. QED
    BY <1>3, <2>1, <2>2, <2>3, <2>4, <2>5, <2>6, <2>7 DEF StrategyStep
<1>4. CASE ExchangeStep
  BY <1>4 DEF ExchangeStep
<1>5. CASE Crash
  BY <1>5 DEF Crash, Forget
<1>. QED
  BY <1>1, <1>2, <1>3, <1>4, <1>5 DEF Next, BotStep

(* Placing a close order, with or without a reply, adds no open order.     *)
LEMMA ClosePlacesNoOpen ==
  ASSUME IInv, NEW level \in Int, NEW refusals,
         \/ \E i \in OrderId : PlaceOk(i, CloseSide, level, cur)
         \/ PlaceErr(refusals, CloseSide, level, cur)
  PROVE  ~NewOpenOrder
<1>1. CASE UNCHANGED <<book, src>>
  BY <1>1 DEF NewOpenOrder, Used
<1>2. CASE \E i \in OrderId : PlaceOk(i, CloseSide, level, cur)
  <2>1. PICK i \in OrderId : PlaceOk(i, CloseSide, level, cur)
    BY <1>2
  <2>2. BookOK /\ Accept(i, CloseSide, level)
    BY <2>1 DEF PlaceOk, IInv, TypeOK, Shape, BookOK
  <2>3. book' = [book EXCEPT ![i] = book'[i]] /\ book'[i].side = CloseSide
    BY <2>2, SidesDiffer, AcceptStep
  <2>. QED
    BY <2>3, SidesDiffer DEF NewOpenOrder, Used, IInv, TypeOK, ExchangeTypeOK
<1>. QED
  BY <1>1, <1>2 DEF PlaceErr

(* No step taken while halted adds an open order.                          *)
LEMMA HaltedStepPlacesNothing ==
  ASSUME IInv, PlacesWhileTrading, gstate = "HALTED", Next
  PROVE  ~NewOpenOrder
<1>1. pc \notin Booting \cup {"resume", "relist", "retry"}
  BY DEF PlacesWhileTrading
<1>2. CASE book' = book
  BY <1>2 DEF NewOpenOrder, Used
<1>3. CASE PlaceClose \/ PlaceCloseFail
  <2>1. CloseLevel(price.lv) \in Int
    BY LevelTypes DEF IInv, TypeOK
  <2>. QED
    BY <1>3, <2>1, ClosePlacesNoOpen DEF PlaceClose, PlaceCloseFail
<1>4. CASE ExchangeStep \/ \E i \in OrderId : HaltCancel(i)
  <2>1. \A j \in OrderId : Used(j)' => Used(j)
    BY <1>4 DEF ExchangeStep, HaltCancel, Trade, Withdraw, Used, Live,
       LiveStatus, IInv, TypeOK, ExchangeTypeOK
  <2>. QED
    BY <2>1 DEF NewOpenOrder
<1>5. CASE BootStep
  BY <1>1, <1>5 DEF BootStep, BootPosition, BootOrders, ReconcileOrders,
     ColdStart, WarmStart, Booting
<1>6. CASE MonitorStep
  BY <1>2, <1>6 DEF MonitorStep, Tick, BeginPoll, BeginRetry, EndTick
<1>7. CASE StrategyStep
  <2>1. CASE InitPlace \/ InitPutOff \/ InitAbort \/ InitDone
    BY <1>1, <2>1 DEF InitPlace, InitPutOff, InitAbort, InitDone, Booting
  <2>2. CASE RelistPlace \/ RelistFail \/ RetryPlace \/ RetryFail \/ RetryDone \/ ResumeNext \/ ResumeDone
    BY <1>1, <2>2 DEF RelistPlace, RelistFail, RetryPlace, RetryFail, RetryDone,
       ResumeNext, ResumeDone
  <2>3. CASE (\E i \in OrderId : See(i)) \/ RecordClose \/ Halt \/ HaltDone \/ Resume
    BY <1>2, <2>3 DEF See, SeeNothing, SeeProgress, SeeOpenFilled,
       SeeCloseFilled, SeeCanceled, RecordClose, Halt, HaltDone, Resume
  <2>. QED
    BY <1>3, <1>4, <1>7, <2>1, <2>2, <2>3 DEF StrategyStep
<1>8. CASE Crash
  BY <1>2, <1>8 DEF Crash
<1>. QED
  BY <1>4, <1>5, <1>6, <1>7, <1>8 DEF Next, BotStep

(* While the grid is halted for hedging nothing places an open order.      *)
THEOREM HaltHolds == Spec => HaltedPlacesNothing
<1>1. Init => PlacesWhileTrading
  BY DEF Init, PlacesWhileTrading
<1>2. IInv /\ PlacesWhileTrading /\ [Next]_vars => PlacesWhileTrading'
  <2>1. CASE Next
    BY <2>1, PlacesWhileTradingStep
  <2>2. CASE UNCHANGED vars
    BY <2>2 DEF vars, memory, control, PlacesWhileTrading
  <2>. QED
    BY <2>1, <2>2
<1>3. Spec => []PlacesWhileTrading
  BY <1>1, <1>2, IInvAlways, PTL DEF Spec
<1>4. IInv /\ PlacesWhileTrading /\ [Next]_vars
        => [gstate = "HALTED" /\ gstate' = "HALTED" => ~NewOpenOrder]_vars
  BY HaltedStepPlacesNothing
<1>. QED
  BY <1>3, <1>4, IInvAlways, PTL DEF Spec, HaltedPlacesNothing

-----------------------------------------------------------------------------
(* What the file knows.  A write to the file that fails is logged only, so *)
(* this needs files that can be written.                                   *)

PairsAreOnDisk == pc \notin {"down", "bootOrders"} => pairs = file

ClosesArePaired ==
  \A i \in DOMAIN orders : orders[i].type = "CLOSE" =>
    i \in DOMAIN pairs /\ pairs[i] = orders[i].openPrice

PInv == PairsAreOnDisk /\ ClosesArePaired

(* What the file holds covers every tracked close order.                   *)
LEMMA PInvImplies == IInv /\ PInv => PairingOnDisk
BY DEF PInv, PairsAreOnDisk, ClosesArePaired, PairingOnDisk, IInv, Shape,
   BootsEmpty, Booting

(* Steps that leave the pairs alone and turn no order into a close order.  *)
LEMMA PairFrame ==
  ASSUME PInv, pairs' = pairs, file' = file, pc # "down", pc # "bootOrders",
         \A i \in DOMAIN orders' :
           \/ i \in DOMAIN orders /\ orders'[i].type = orders[i].type
              /\ orders'[i].openPrice = orders[i].openPrice
           \/ orders'[i].type = "OPEN"
  PROVE  PInv'
BY DEF PInv, PairsAreOnDisk, ClosesArePaired

(* Reading the file and the restored orders back keeps PInv.               *)
LEMMA PairBootStep ==
  ASSUME IInv, PInv, BootStep
  PROVE  PInv'
<1>1. pc \in Booting \ {"init"} => DOMAIN orders = {}
  BY DEF IInv, Shape, BootsEmpty
<1>2. CASE BootPosition \/ BootOrders
  BY <1>1, <1>2 DEF BootPosition, BootOrders, PInv, PairsAreOnDisk,
     ClosesArePaired, Booting, memory
<1>3. CASE ReconcileOrders \/ ColdStart
  BY <1>3, PairFrame DEF ReconcileOrders, ColdStart, memory
<1>4. CASE WarmStart
  <2>1. \A i \in DOMAIN orders' : orders'[i].type = "CLOSE" =>
          i \in DOMAIN pairs /\ pairs[i] = orders'[i].openPrice
    BY <1>4 DEF WarmStart, RestoredOrder, RestoredCloses
  <2>. QED
    BY <1>4, <2>1 DEF WarmStart, PInv, PairsAreOnDisk, ClosesArePaired
<1>. QED
  BY <1>2, <1>3, <1>4 DEF BootStep

(* OnOrderUpdate removes a pair with its order, in one handler.            *)
LEMMA PairSeeStep ==
  ASSUME IInv, PInv, "save" \notin Env, NEW i \in OrderId, See(i)
  PROVE  PInv'
<1>1. i \in DOMAIN orders /\ \A j \in DOMAIN orders : orders[j] \in Order
  BY DEF See, IInv, Shape, VisitsTracked, TypeOK, Maps
<1>2. pc = "poll"
  BY DEF See
<1>3. CASE SeeNothing(i)
  BY <1>2, <1>3, PairFrame DEF SeeNothing, memory
<1>4. CASE SeeProgress(i)
  <2>1. DOMAIN orders' = DOMAIN orders
    BY <1>4 DEF SeeProgress
  <2>2. \A j \in DOMAIN orders : /\ orders'[j].type = orders[j].type
                                /\ orders'[j].openPrice = orders[j].openPrice
    BY <1>1, <1>4 DEF SeeProgress, Order
  <2>. QED
    BY <1>2, <1>4, <2>1, <2>2, PairFrame DEF SeeProgress
<1>5. CASE SeeOpenFilled(i)
  BY <1>2, <1>5, PairFrame DEF SeeOpenFilled, Without
<1>6. CASE SeeCloseFilled(i) \/ SeeCanceled(i)
  <2>1. orders' = Without(orders, i) /\ pairs' = Without(pairs, i) /\ file' = pairs'
    BY <1>6 DEF SeeCloseFilled, SeeCanceled, Save
  <2>. QED
    BY <2>1 DEF Without, PInv, PairsAreOnDisk, ClosesArePaired
<1>. QED
  BY <1>3, <1>4, <1>5, <1>6 DEF See

(* The strategy records a pair with the close order it belongs to.         *)
LEMMA PairStrategyStep ==
  ASSUME IInv, PInv, "save" \notin Env, StrategyStep
  PROVE  PInv'
<1>1. CASE InitPlace \/ RelistPlace \/ RetryPlace
  <2>1. \E i \in OrderId : \E p : orders' = With(orders, i, NewOrder("OPEN", p))
    BY <1>1 DEF InitPlace, RelistPlace, RetryPlace
  <2>2. \A j \in DOMAIN orders' : \/ j \in DOMAIN orders /\ orders'[j] = orders[j]
                                  \/ orders'[j].type = "OPEN"
    BY <2>1 DEF With, NewOrder
  <2>3. pairs' = pairs /\ file' = file /\ pc \in {"init", "relist", "retry"}
    BY <1>1 DEF InitPlace, RelistPlace, RetryPlace
  <2>. QED
    BY <2>2, <2>3, PairFrame
<1>2. CASE InitAbort
  BY <1>2 DEF InitAbort, Forget, NoEntries, PInv, PairsAreOnDisk,
     ClosesArePaired
<1>3. CASE InitPutOff \/ InitDone \/ RelistFail \/ PlaceClose \/ PlaceCloseFail \/ RetryFail \/ RetryDone
  BY <1>3, PairFrame DEF InitPutOff, InitDone, RelistFail, PlaceClose,
     PlaceCloseFail, RetryFail, RetryDone, memory
<1>4. CASE \E i \in OrderId : See(i)
  BY <1>4, PairSeeStep
<1>5. CASE RecordClose
  <2>1. /\ orders' = With(orders, placed, NewOrder("CLOSE", price))
        /\ pairs' = With(pairs, placed, price) /\ file' = pairs'
    BY <1>5 DEF RecordClose, Save
  <2>. QED
    BY <2>1 DEF With, NewOrder, PInv, PairsAreOnDisk, ClosesArePaired
<1>6. CASE Halt \/ (\E i \in OrderId : HaltCancel(i)) \/ HaltDone \/ Resume \/ ResumeNext \/ ResumeDone
  BY <1>6, PairFrame DEF Halt, HaltCancel, HaltDone, Resume, ResumeNext,
     ResumeDone, memory
<1>. QED
  BY <1>1, <1>2, <1>3, <1>4, <1>5, <1>6 DEF StrategyStep

(* Every step keeps PInv when the file can be written.                     *)
LEMMA PairStep ==
  ASSUME "save" \notin Env
  PROVE  IInv /\ PInv /\ [Next]_vars => PInv'
<1>. SUFFICES ASSUME IInv, PInv, [Next]_vars PROVE PInv'
  OBVIOUS
<1>1. CASE BootStep
  BY <1>1, PairBootStep
<1>2. CASE MonitorStep
  BY <1>2, PairFrame DEF MonitorStep, Tick, BeginPoll, BeginRetry, EndTick,
     memory
<1>3. CASE StrategyStep
  BY <1>3, PairStrategyStep
<1>4. CASE ExchangeStep \/ UNCHANGED vars
  BY <1>4 DEF ExchangeStep, vars, memory, control, PInv, PairsAreOnDisk,
     ClosesArePaired
<1>5. CASE Crash
  BY <1>5 DEF Crash, Forget, NoEntries, PInv, PairsAreOnDisk, ClosesArePaired
<1>. QED
  BY <1>1, <1>2, <1>3, <1>4, <1>5 DEF Next, BotStep

(* As long as the state file can be written, every close order the bot     *)
(* tracks is on disk with the price it will relist.                        *)
THEOREM PairingsSurvive ==
  ASSUME "save" \notin Env
  PROVE  Spec => []PairingOnDisk
<1>1. Init => PInv
  BY DEF Init, NoEntries, PInv, PairsAreOnDisk, ClosesArePaired
<1>2. IInv /\ PInv /\ [Next]_vars => PInv'
  BY PairStep
<1>3. IInv /\ PInv => PairingOnDisk
  BY PInvImplies
<1>. QED
  BY <1>1, <1>2, <1>3, IInvAlways, PTL DEF Spec
=============================================================================
