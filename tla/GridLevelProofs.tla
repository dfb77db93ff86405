-------------------------- MODULE GridLevelProofs --------------------------
(***************************************************************************)
(* GridBot's levels: what the bot knows of the level an order belongs to,  *)
(* that no level is bought twice, that a running bot tracks its orders,    *)
(* and that it implements GridLevels.                                      *)
(***************************************************************************)
EXTENDS GridBotTheorems

(* An order is put on a level that InitOrders, RetryPlacePendingOrders or  *)
(* relistOpenOrder holds in hand.                                          *)
Claimed(l) ==
  \/ pc \in {"init", "retry"} /\ l \in queue
  \/ pc = "relist" /\ l = price.lv

(* All that a step can do to the exchange's book.                          *)
PutsOpen(i, l) == PlaceOk(i, OpenSide, l, None) /\ Claimed(l)
PutsClose(i, l) == PlaceOk(i, CloseSide, l, cur) /\ pc = "placeClose"
Ends(i) == \E s \in {"CANCELED", "EXPIRED"} : Withdraw(i, s)

BookMove ==
  \/ UNCHANGED <<book, src>>
  \/ \E i \in OrderId : (Trade(i) \/ Ends(i)) /\ src' = src
  \/ \E i \in OrderId, l \in Int : PutsOpen(i, l)
  \/ \E i \in OrderId, l \in Int : PutsClose(i, l)

(* Every step makes one of these moves.                                    *)
LEMMA StepMovesBook == IInv /\ [Next]_vars => BookMove
<1>. SUFFICES ASSUME IInv, [Next]_vars PROVE BookMove
  OBVIOUS
<1>1. CASE UNCHANGED <<book, src>>
  BY <1>1 DEF BookMove
<1>2. CASE BootStep
  BY <1>1, <1>2 DEF BootStep, BootPosition, BootOrders, ReconcileOrders,
     ColdStart, WarmStart, history
<1>3. CASE MonitorStep
  BY <1>1, <1>3 DEF MonitorStep, Tick, BeginPoll, BeginRetry, EndTick, history
<1>4. CASE ExchangeStep
  BY <1>4 DEF ExchangeStep, BookMove, Ends, history
<1>5. CASE Crash \/ UNCHANGED vars
  BY <1>1, <1>5 DEF Crash, vars, history
<1>6. CASE StrategyStep
  <2>1. /\ pc \in {"init", "retry"} /\ queue # {} => First(queue) \in queue /\ First(queue) \in Int
        /\ price.lv \in Int /\ CloseLevel(price.lv) \in Int
    BY FirstIsMember, LevelTypes DEF IInv, TypeOK
  <2>2. CASE InitPlace \/ RetryPlace
    BY <2>1, <2>2 DEF InitPlace, RetryPlace, BookMove, PutsOpen, Claimed
  <2>3. CASE InitAbort \/ RetryFail
    <3>1. \E refusals : PlaceErr(refusals, OpenSide, First(queue), None)
      BY <2>3 DEF InitAbort, RetryFail
    <3>. QED
      BY <1>1, <2>1, <2>3, <3>1 DEF InitAbort, RetryFail, PlaceErr, BookMove, PutsOpen, Claimed
  <2>4. CASE RelistPlace \/ RelistFail
    BY <1>1, <2>1, <2>4 DEF RelistPlace, RelistFail, PlaceErr, BookMove, PutsOpen, Claimed
  <2>5. CASE PlaceClose \/ PlaceCloseFail
    BY <1>1, <2>1, <2>5 DEF PlaceClose, PlaceCloseFail, PlaceErr, BookMove, PutsClose
  <2>6. CASE \E i \in OrderId : HaltCancel(i)
    BY <1>1, <2>6 DEF HaltCancel, BookMove, Ends, Withdraw, history
  <2>7. CASE InitPutOff \/ InitDone \/ RetryDone \/ RecordClose \/ (\E i \in OrderId : See(i))
    BY <1>1, <2>7 DEF InitPutOff, InitDone, RetryDone, RecordClose, See,
       SeeNothing, SeeProgress, SeeOpenFilled, SeeCloseFilled, SeeCanceled, history
  <2>8. CASE Halt \/ HaltDone \/ Resume \/ ResumeNext \/ ResumeDone
    BY <1>1, <2>8 DEF Halt, HaltDone, Resume, ResumeNext, ResumeDone, history
  <2>. QED
    BY <1>6, <2>2, <2>3, <2>4, <2>5, <2>6, <2>7, <2>8 DEF StrategyStep
<1>. QED
  BY <1>2, <1>3, <1>4, <1>5, <1>6 DEF Next, BotStep

(* What each move leaves of the orders in the book: they keep their sides, *)
(* levels and sources, and what has traded stays traded.                   *)
Keeps ==
  /\ Evolves
  /\ \A j \in OrderId : Used(j) => src'[j] = src[j] /\ book'[j].exec >= book[j].exec

(* An order with all of its lots traded is filled.                         *)
FilledWhenDone == \A i \in OrderId : book[i].exec = Lot => book[i].status = "FILLED"

(* A new order belongs to nobody, an open order answers nothing, and a     *)
(* close order answers the filled order just seen.                         *)
LEMMA NewOrderStep ==
  ASSUME IInv, NEW i \in OrderId, NEW l \in Int, NEW side \in Side,
         NEW answers \in OrderId \cup {None}, PlaceOk(i, side, l, answers)
  PROVE  /\ ~Used(i) /\ ~IsOpen(i) /\ ~IsClose(i)
         /\ book' = [book EXCEPT ![i] = book'[i]] /\ src' = [src EXCEPT ![i] = answers]
         /\ book'[i].status = "NEW" /\ book'[i].side = side /\ book'[i].level = l
         /\ book'[i].exec = 0
<1>1. BookOK /\ Accept(i, side, l)
  BY DEF PlaceOk, IInv, TypeOK, Shape, BookOK
<1>2. /\ ~Used(i) /\ book' = [book EXCEPT ![i] = book'[i]]
      /\ book'[i].status = "NEW" /\ book'[i].side = side
  BY <1>1, AcceptStep
<1>3. book'[i].level = l /\ book'[i].exec = 0
  BY <1>1 DEF Accept, BookOK, ExchangeTypeOK
<1>. QED
  BY <1>2, <1>3 DEF PlaceOk, IsOpen, IsClose

(* Every move keeps what is in the book.                                   *)
LEMMA MoveKeeps ==
  ASSUME IInv, FilledWhenDone, BookMove
  PROVE  Keeps /\ FilledWhenDone'
<1>. USE DEF Keeps, FilledWhenDone
<1>1. BookOK
  BY DEF IInv, TypeOK, Shape, BookOK
<1>2. \A j \in OrderId : Used(j) => book[j] \in Entry
  BY DEF IInv, TypeOK, ExchangeTypeOK, Used, NoOrder
<1>3. CASE UNCHANGED <<book, src>>
  BY <1>1, <1>2, <1>3, BookStutter DEF Entry
<1>4. ASSUME NEW i \in OrderId, Trade(i), src' = src PROVE Keeps /\ FilledWhenDone'
  <2>1. Evolves
    BY <1>1, <1>4, TradeStep
  <2>2. Used(i)
    BY <1>4 DEF Trade, Live, LiveStatus, Used
  <2>3. book' = [book EXCEPT ![i] = Traded(book[i])]
    BY <1>4 DEF Trade
  <2>4. \A j \in OrderId : book'[j] = IF j = i THEN Traded(book[i]) ELSE book[j]
    BY <2>3 DEF IInv, TypeOK, ExchangeTypeOK
  <2>5. book[i].exec \in 0 .. Lot
    BY <1>2, <2>2 DEF Entry
  <2>. QED
    BY <1>2, <1>4, <2>1, <2>4, <2>5, LotAssumption DEF Traded, Entry
<1>5. ASSUME NEW i \in OrderId, Ends(i), src' = src PROVE Keeps /\ FilledWhenDone'
  <2>1. PICK s \in {"CANCELED", "EXPIRED"} : Withdraw(i, s)
    BY <1>5 DEF Ends
  <2>2. Evolves
    BY <1>1, <2>1, WithdrawStep
  <2>3. Live(i) /\ book[i].exec < Lot
    BY <2>1 DEF Withdraw, IInv, Shape, ExecMatchesStatus
  <2>4. \A j \in OrderId : book'[j].exec = book[j].exec /\ (j # i => book'[j] = book[j])
    BY <2>1 DEF Withdraw, IInv, TypeOK, ExchangeTypeOK, Entry, NoOrder
  <2>. QED
    BY <1>2, <1>5, <2>2, <2>3, <2>4, LotAssumption DEF Entry
<1>6. ASSUME NEW i \in OrderId, NEW l \in Int, NEW side \in Side,
             NEW answers \in OrderId \cup {None}, PlaceOk(i, side, l, answers)
      PROVE  Keeps /\ FilledWhenDone'
  <2>1. Evolves
    BY <1>6, PlaceOkStep DEF IInv
  <2>2. /\ ~Used(i) /\ book' = [book EXCEPT ![i] = book'[i]]
        /\ book'[i].exec = 0 /\ src' = [src EXCEPT ![i] = answers]
    BY <1>6, NewOrderStep
  <2>3. \A j \in OrderId : j # i => book'[j] = book[j] /\ src'[j] = src[j]
    BY <2>2 DEF IInv, TypeOK, ExchangeTypeOK
  <2>. QED
    BY <1>2, <2>1, <2>2, <2>3, LotAssumption DEF Entry
<1>7. ASSUME NEW i \in OrderId, NEW l \in Int, PutsOpen(i, l) PROVE Keeps /\ FilledWhenDone'
  BY <1>6, <1>7, SidesDiffer DEF PutsOpen
<1>8. ASSUME NEW i \in OrderId, NEW l \in Int, PutsClose(i, l) PROVE Keeps /\ FilledWhenDone'
  BY <1>6, <1>8, SidesDiffer DEF PutsClose, IInv, TypeOK
<1>. QED
  BY <1>3, <1>4, <1>5, <1>7, <1>8 DEF BookMove

-----------------------------------------------------------------------------
(* The level of every open price the bot carries is the level of the open  *)
(* order it belongs to, however often the price went through the exchange, *)
(* the state file and a restart.                                           *)

TracksLevel(i) ==
  orders[i].openPrice.lv = book[IF orders[i].type = "OPEN" THEN i ELSE src[i]].level

TrackedPrices == \A i \in DOMAIN orders : TracksLevel(i)

AnswersOwnLevel ==
  /\ pc \in {"placeClose", "closePlaced"} => price.lv = book[cur].level
  /\ pc = "closePlaced" => src[placed] = cur

PairedLevels(f) == \A c \in DOMAIN f : IsClose(c) /\ f[c].lv = book[src[c]].level

PricesKnown ==
  /\ FilledWhenDone /\ TrackedPrices /\ AnswersOwnLevel
  /\ PairedLevels(pairs) /\ PairedLevels(file)

(* Where the next state's prices come from.                                *)
SameOrder(i) ==
  /\ i \in DOMAIN orders
  /\ orders'[i].type = orders[i].type /\ orders'[i].openPrice = orders[i].openPrice

Remains(f, g) == \A c \in DOMAIN f : c \in DOMAIN g /\ f[c] = g[c]

(* The open order a close order answers keeps its level.                   *)
LEMMA SourceStays ==
  ASSUME IInv, Keeps, NEW c \in OrderId, IsClose(c)
  PROVE  /\ IsClose(c)' /\ src'[c] = src[c] /\ src[c] \in OrderId
         /\ book'[src'[c]].level = book[src[c]].level
BY DEF IInv, Answered, CloseBacked, IsOpen, IsClose, Keeps, Evolves

(* Prices that stay, in memory and on disk, stay right.                    *)
LEMMA PricesFrame ==
  ASSUME IInv, PricesKnown, Keeps, FilledWhenDone', AnswersOwnLevel',
         \A i \in DOMAIN orders' : SameOrder(i) \/ TracksLevel(i)',
         Remains(pairs', pairs) \/ Remains(pairs', file) \/ PairedLevels(pairs)',
         Remains(file', pairs) \/ Remains(file', file) \/ PairedLevels(file)'
  PROVE  PricesKnown'
<1>1. TrackedPrices'
  <2>. SUFFICES ASSUME NEW i \in DOMAIN orders', SameOrder(i) PROVE TracksLevel(i)'
    BY DEF TrackedPrices
  <2>1. i \in OrderId /\ i \in DOMAIN orders /\ Used(i) /\ TracksLevel(i)
    BY DEF SameOrder, IInv, TypeOK, Maps, Shape, TracksRealOrders, PricesKnown, TrackedPrices
  <2>2. CASE orders[i].type = "OPEN"
    BY <2>1, <2>2 DEF SameOrder, TracksLevel, Keeps, Evolves
  <2>3. CASE orders[i].type # "OPEN"
    <3>1. IsClose(i)
      BY <2>1, <2>3, SidesDiffer DEF IsClose, IInv, Shape, TracksRealOrders, TypeOK,
         ExchangeTypeOK, Entry, NoOrder, Used, Side, OpenSide, CloseSide
    <3>. QED
      BY <2>1, <2>3, <3>1, SourceStays DEF SameOrder, TracksLevel
  <2>. QED
    BY <2>2, <2>3
<1>2. ASSUME NEW f, NEW g, PairedLevels(g), DOMAIN g \subseteq OrderId, Remains(f, g)
      PROVE  \A c \in DOMAIN f : IsClose(c)' /\ f[c].lv = book'[src'[c]].level
  BY <1>2, SourceStays DEF Remains, PairedLevels
<1>3. DOMAIN pairs \subseteq OrderId /\ DOMAIN file \subseteq OrderId
  BY DEF IInv, TypeOK, Maps
<1>4. PairedLevels(pairs)' /\ PairedLevels(file)'
  BY <1>2, <1>3 DEF PricesKnown, PairedLevels
<1>. QED
  BY <1>1, <1>4 DEF PricesKnown

(* Start-up reads the prices back from the file and from the exchange.     *)
LEMMA PricesBootStep ==
  ASSUME IInv, PricesKnown, Keeps, FilledWhenDone', BootStep
  PROVE  PricesKnown'
<1>. USE DEF Remains, NoEntries
<1>1. pc' \notin {"placeClose", "closePlaced"} /\ book' = book /\ src' = src
  BY DEF BootStep, BootPosition, BootOrders, ReconcileOrders, ColdStart, WarmStart, history
<1>2. AnswersOwnLevel'
  BY <1>1 DEF AnswersOwnLevel
<1>3. CASE BootPosition \/ ReconcileOrders \/ ColdStart
  BY <1>2, <1>3, PricesFrame DEF BootPosition, ReconcileOrders, ColdStart, SameOrder, memory
<1>4. CASE BootOrders
  BY <1>2, <1>4, PricesFrame DEF BootOrders, SameOrder
<1>5. CASE WarmStart
  <2>1. \A i \in DOMAIN orders' : TracksLevel(i)'
    <3>. SUFFICES ASSUME NEW i \in DOMAIN orders' PROVE TracksLevel(i)'
      OBVIOUS
    <3>1. i \in RestoredOpens \cup RestoredCloses /\ orders'[i] = RestoredOrder(i)
      BY <1>5 DEF WarmStart
    <3>. QED
      BY <1>1, <3>1 DEF TracksLevel, RestoredOrder, ReadPrice, RestoredCloses,
         PricesKnown, PairedLevels
  <2>. QED
    BY <1>2, <1>5, <2>1, PricesFrame DEF WarmStart
<1>. QED
  BY <1>3, <1>4, <1>5 DEF BootStep

(* An open order is put where its price says.                              *)
LEMMA PricesOpenStep ==
  ASSUME IInv, PricesKnown, Keeps, FilledWhenDone', InitPlace \/ RetryPlace \/ RelistPlace
  PROVE  PricesKnown'
<1>1. PICK i \in OrderId : \E p \in Price : 
        /\ PlaceOk(i, OpenSide, p.lv, None) /\ p.lv \in Int
        /\ orders' = With(orders, i, NewOrder("OPEN", p))
  <2>1. pc \in {"init", "retry"} /\ queue # {} => First(queue) \in Int
    BY FirstIsMember, LevelTypes DEF IInv, TypeOK
  <2>2. CASE InitPlace \/ RetryPlace
    <3>1. GridPrice(First(queue)) \in Price /\ GridPrice(First(queue)).lv = First(queue)
      BY <2>1, <2>2, GridPriceType DEF InitPlace, RetryPlace, GridPrice
    <3>. QED
      BY <2>1, <2>2, <3>1 DEF InitPlace, RetryPlace
  <2>3. CASE RelistPlace
    BY <2>3, LevelTypes DEF RelistPlace, IInv, TypeOK
  <2>. QED
    BY <2>2, <2>3
<1>2. PICK p \in Price :
        /\ PlaceOk(i, OpenSide, p.lv, None) /\ p.lv \in Int
        /\ orders' = With(orders, i, NewOrder("OPEN", p))
  BY <1>1
<1>3. book'[i].level = p.lv
  BY <1>2, SidesDiffer, NewOrderStep
<1>4. \A j \in DOMAIN orders' : SameOrder(j) \/ TracksLevel(j)'
  BY <1>2, <1>3 DEF With, NewOrder, SameOrder, TracksLevel
<1>5. AnswersOwnLevel'
  BY DEF InitPlace, RetryPlace, RelistPlace, AnswersOwnLevel, IInv, TypeOK
<1>6. pairs' = pairs /\ file' = file
  BY DEF InitPlace, RetryPlace, RelistPlace
<1>. QED
  BY <1>4, <1>5, <1>6, PricesFrame DEF Remains

(* OnOrderUpdate hands the price of the order it takes off to the answer.  *)
LEMMA PricesSeeStep ==
  ASSUME IInv, PricesKnown, Keeps, FilledWhenDone', NEW i \in OrderId, See(i)
  PROVE  PricesKnown'
<1>. USE DEF Remains, Without
<1>1. pc = "poll" /\ i \in DOMAIN orders /\ \A j \in DOMAIN orders : orders[j] \in Order
  BY DEF See, IInv, Shape, VisitsTracked, TypeOK, Maps
<1>2. \A j \in DOMAIN orders' : SameOrder(j)
  <2>1. CASE SeeProgress(i)
    BY <1>1, <2>1 DEF SeeProgress, SameOrder, Order
  <2>2. CASE SeeNothing(i) \/ SeeOpenFilled(i) \/ SeeCloseFilled(i) \/ SeeCanceled(i)
    BY <2>2 DEF SeeNothing, SeeOpenFilled, SeeCloseFilled, SeeCanceled, memory, SameOrder
  <2>. QED
    BY <2>1, <2>2 DEF See
<1>3. (Remains(pairs', pairs)) /\ (Remains(file', pairs) \/ Remains(file', file))
  BY DEF See, SeeNothing, SeeProgress, SeeOpenFilled, SeeCloseFilled, SeeCanceled,
     memory, Save
<1>4. AnswersOwnLevel'
  <2>1. CASE SeeOpenFilled(i)
    BY <1>1, <2>1 DEF SeeOpenFilled, AnswersOwnLevel, PricesKnown, TrackedPrices, TracksLevel
  <2>2. CASE SeeNothing(i) \/ SeeProgress(i) \/ SeeCloseFilled(i) \/ SeeCanceled(i)
    BY <1>1, <2>2 DEF SeeNothing, SeeProgress, SeeCloseFilled, SeeCanceled, CallRelist,
       AnswersOwnLevel
  <2>. QED
    BY <2>1, <2>2 DEF See
<1>. QED
  BY <1>2, <1>3, <1>4, PricesFrame

(* A close order is placed and recorded for the order being answered.      *)
LEMMA PricesCloseStep ==
  ASSUME IInv, PricesKnown, Keeps, FilledWhenDone', PlaceClose \/ PlaceCloseFail \/ RecordClose
  PROVE  PricesKnown'
<1>. USE DEF Remains
<1>1. cur \in OrderId /\ Used(cur) /\ book'[cur].level = book[cur].level
  BY DEF PlaceClose, PlaceCloseFail, RecordClose, IInv, Shape, AnswersFilled, IsOpen,
     Keeps, Evolves
<1>2. CASE PlaceClose
  <2>1. PICK i \in OrderId : PlaceOk(i, CloseSide, CloseLevel(price.lv), cur) /\ placed' = i
    BY <1>2 DEF PlaceClose
  <2>2. src'[i] = cur
    BY <2>1 DEF PlaceOk, IInv, TypeOK
  <2>3. AnswersOwnLevel'
    BY <1>1, <1>2, <2>1, <2>2 DEF PlaceClose, AnswersOwnLevel, PricesKnown
  <2>. QED
    BY <1>2, <2>3, PricesFrame DEF PlaceClose, memory, SameOrder
<1>3. CASE PlaceCloseFail
  BY <1>3, PricesFrame DEF PlaceCloseFail, memory, SameOrder, AnswersOwnLevel
<1>4. CASE RecordClose
  <2>1. PICK c \in OrderId : c = placed
    BY <1>4 DEF RecordClose, IInv, Shape, PlacedIsClose
  <2>2. IsClose(c)' /\ price.lv = book'[src'[c]].level
    <3>1. IsClose(c) /\ src[c] = cur /\ price.lv = book[cur].level
      BY <1>4, <2>1 DEF RecordClose, IInv, Shape, PlacedIsClose, PricesKnown, AnswersOwnLevel
    <3>. QED
      BY <1>1, <3>1, SourceStays
  <2>3. \A j \in DOMAIN orders' : SameOrder(j) \/ TracksLevel(j)'
    BY <1>4, <2>1, <2>2 DEF RecordClose, With, NewOrder, SameOrder, TracksLevel
  <2>4. PairedLevels(pairs)'
    <3>1. pairs' = With(pairs, c, price)
      BY <1>4, <2>1 DEF RecordClose, Save
    <3>2. \A d \in DOMAIN pairs : d \in OrderId /\ IsClose(d) /\ pairs[d].lv = book[src[d]].level
      BY DEF PricesKnown, PairedLevels, IInv, TypeOK, Maps
    <3>3. \A d \in DOMAIN pairs : IsClose(d)' /\ pairs[d].lv = book'[src'[d]].level
      BY <3>2, SourceStays
    <3>. QED
      BY <2>2, <3>1, <3>3 DEF With, PairedLevels
  <2>5. file' = pairs' \/ file' = file
    BY <1>4 DEF RecordClose, Save
  <2>6. Remains(file', file) \/ PairedLevels(file)'
    BY <2>4, <2>5 DEF PairedLevels
  <2>7. AnswersOwnLevel'
    BY <1>4 DEF RecordClose, AnswersOwnLevel
  <2>. QED
    BY <2>3, <2>4, <2>6, <2>7, PricesFrame
<1>. QED
  BY <1>2, <1>3, <1>4

(* Every step keeps the prices known.                                      *)
LEMMA PricesStep == IInv /\ PricesKnown /\ [Next]_vars => PricesKnown'
<1>. SUFFICES ASSUME IInv, PricesKnown, [Next]_vars PROVE PricesKnown'
  OBVIOUS
<1>1. Keeps /\ FilledWhenDone'
  BY StepMovesBook, MoveKeeps DEF PricesKnown
<1>2. CASE BootStep
  BY <1>1, <1>2, PricesBootStep
<1>3. ASSUME UNCHANGED <<orders, pairs, file>>, pc' \notin {"placeClose", "closePlaced"}
      PROVE  PricesKnown'
  BY <1>1, <1>3, PricesFrame DEF SameOrder, Remains, AnswersOwnLevel
<1>4. CASE MonitorStep
  BY <1>3, <1>4 DEF MonitorStep, Tick, BeginPoll, BeginRetry, EndTick, memory
<1>5. CASE StrategyStep
  <2>1. CASE InitPlace \/ RetryPlace \/ RelistPlace
    BY <1>1, <2>1, PricesOpenStep
  <2>2. CASE \E i \in OrderId : See(i)
    BY <1>1, <2>2, PricesSeeStep
  <2>3. CASE PlaceClose \/ PlaceCloseFail \/ RecordClose
    BY <1>1, <2>3, PricesCloseStep
  <2>4. CASE InitAbort
    BY <1>1, <2>4, PricesFrame DEF InitAbort, Forget, NoEntries, Remains, AnswersOwnLevel
  <2>5. CASE InitPutOff \/ InitDone \/ RetryFail \/ RetryDone \/ RelistFail
    BY <1>3, <2>5 DEF InitPutOff, InitDone, RetryFail, RetryDone, RelistFail, memory,
       IInv, TypeOK
  <2>6. CASE Halt \/ (\E i \in OrderId : HaltCancel(i)) \/ HaltDone \/ Resume \/ ResumeNext \/ ResumeDone
    BY <1>3, <2>6 DEF Halt, HaltCancel, HaltDone, Resume, ResumeNext, ResumeDone,
       CallRelist, memory
  <2>. QED
    BY <1>5, <2>1, <2>2, <2>3, <2>4, <2>5, <2>6 DEF StrategyStep
<1>6. CASE Crash
  BY <1>1, <1>6, PricesFrame DEF Crash, Forget, NoEntries, Remains, AnswersOwnLevel
<1>7. CASE ExchangeStep \/ UNCHANGED vars
  <2>1. UNCHANGED <<memory, file, control, src>>
    BY <1>7 DEF ExchangeStep, vars, history
  <2>2. AnswersOwnLevel'
    BY <1>1, <2>1 DEF AnswersOwnLevel, PricesKnown, control, IInv, Shape, AnswersFilled,
       IsOpen, Keeps, Evolves
  <2>. QED
    BY <1>1, <2>1, <2>2, PricesFrame DEF memory, SameOrder, Remains
<1>. QED
  BY <1>2, <1>4, <1>5, <1>6, <1>7 DEF Next, BotStep

-----------------------------------------------------------------------------
(* Start-up puts nothing off, and its list misses no live order.           *)
BootsWithoutPending == pc \in Booting \ {"init"} => pending = {}
ListsAllLive == pc = "reconcile" => OpenOrders \subseteq DOMAIN listed

BootsWell == BootsWithoutPending /\ ListsAllLive

(* No order comes to life except by being placed.                          *)
LEMMA MoveEnlivens ==
  ASSUME IInv, BookMove, NEW j \in OrderId, Used(j)
  PROVE  Live(j)' => Live(j)
<1>1. \A i \in OrderId : Trade(i) \/ Ends(i) => Live(i) /\ \A k \in OrderId : k # i => book'[k] = book[k]
  BY DEF Trade, Ends, Withdraw, IInv, TypeOK, ExchangeTypeOK
<1>2. ASSUME NEW i \in OrderId, NEW l \in Int, NEW side \in Side,
             NEW answers \in OrderId \cup {None}, PlaceOk(i, side, l, answers)
      PROVE  book'[j] = book[j]
  BY <1>2, NewOrderStep DEF IInv, TypeOK, ExchangeTypeOK
<1>3. (\E i \in OrderId, l \in Int : PutsOpen(i, l) \/ PutsClose(i, l)) => book'[j] = book[j]
  BY <1>2, SidesDiffer DEF PutsOpen, PutsClose, IInv, TypeOK
<1>. QED
  BY <1>1, <1>3 DEF BookMove, Live

(* Every step keeps BootsWell.                                             *)
LEMMA BootsWellStep == IInv /\ BootsWell /\ [Next]_vars => BootsWell'
<1>. SUFFICES ASSUME IInv, BootsWell, [Next]_vars PROVE BootsWell'
  OBVIOUS
<1>. USE DEF BootsWell, BootsWithoutPending, ListsAllLive, Booting
<1>1. CASE BootStep
  BY <1>1 DEF BootStep, BootPosition, BootOrders, ReconcileOrders, ColdStart, WarmStart,
     memory, OpenOrders, Live
<1>2. CASE MonitorStep
  BY <1>2 DEF MonitorStep, Tick, BeginPoll, BeginRetry, EndTick
<1>3. CASE StrategyStep
  <2>1. CASE InitAbort
    BY <2>1 DEF InitAbort, Forget
  <2>2. CASE InitPlace \/ InitPutOff \/ InitDone \/ RetryPlace \/ RetryFail \/ RetryDone
    BY <2>2 DEF InitPlace, InitPutOff, InitDone, RetryPlace, RetryFail, RetryDone
  <2>3. CASE RelistPlace \/ RelistFail \/ ResumeNext
    BY <2>3 DEF RelistPlace, RelistFail, ResumeNext, CallRelist, IInv, TypeOK
  <2>4. CASE (\E i \in OrderId : See(i)) \/ PlaceClose \/ PlaceCloseFail \/ RecordClose
    BY <2>4 DEF See, SeeNothing, SeeProgress, SeeOpenFilled, SeeCloseFilled, SeeCanceled,
       CallRelist, PlaceClose, PlaceCloseFail, RecordClose
  <2>5. CASE Halt \/ (\E i \in OrderId : HaltCancel(i)) \/ HaltDone \/ Resume \/ ResumeDone
    BY <2>5 DEF Halt, HaltCancel, HaltDone, Resume, ResumeDone
  <2>. QED
    BY <1>3, <2>1, <2>2, <2>3, <2>4, <2>5 DEF StrategyStep
<1>4. CASE ExchangeStep
  <2>1. OpenOrders' \subseteq OpenOrders
    BY <1>4 DEF ExchangeStep, Trade, Withdraw, OpenOrders, Live, IInv, TypeOK, ExchangeTypeOK
  <2>. QED
    BY <1>4, <2>1 DEF ExchangeStep, memory, control
<1>5. CASE Crash
  BY <1>5 DEF Crash, Forget
<1>6. CASE UNCHANGED vars
  BY <1>6 DEF vars, memory, control, OpenOrders, Live
<1>. QED
  BY <1>1, <1>2, <1>3, <1>4, <1>5, <1>6 DEF Next, BotStep

-----------------------------------------------------------------------------
(* Who has a level.  An open order holds its level from the moment it is   *)
(* placed until its close order is filled and nothing the bot tracks can   *)
(* make it relist the level: between the two the exchange already shows    *)
(* the level as free, but the bot has not yet put it up again.             *)

Relists(c) ==
  c \in DOMAIN orders \/ c \in DOMAIN listed \/ (pc = "closePlaced" /\ c = placed)

Holds(i) ==
  /\ IsOpen(i) /\ (Live(i) \/ book[i].exec > 0)
  /\ \A c \in OrderId : src[c] = i /\ book[c].status = "FILLED" => Relists(c)

Vacant(l) == \A i \in OrderId : Holds(i) => book[i].level # l

OneHolder ==
  \A i, j \in OrderId : Holds(i) /\ Holds(j) /\ book[i].level = book[j].level => i = j

(* The levels the bot has in hand are vacant, and it has each only once.   *)
Claims ==
  /\ \A l \in pending : Vacant(l)
  /\ pc \in {"init", "retry"} => \A l \in queue : Vacant(l) /\ l \notin pending
  /\ pc = "relist" => Vacant(price.lv) /\ price.lv \notin pending

NeverResumes == pc # "resume" /\ ret # "resume"

LInv == PricesKnown /\ BootsWell /\ NeverResumes /\ OneHolder /\ Claims

(* The close order a filled order gives rise to, the bot's own relisting   *)
(* apart, never makes an order hold again what it has given up.            *)
NoComeback == \A c \in OrderId : book[c].status = "FILLED" /\ Relists(c)' => Relists(c)

(* A live open order holds its level, and so does an open order that       *)
(* occupies it.                                                            *)
LEMMA HoldersInclude ==
  ASSUME IInv, NEW i \in OrderId
  PROVE  /\ IsOpen(i) /\ Live(i) => Holds(i)
         /\ Occupies(i) => Holds(i)
<1>1. IsOpen(i) /\ Live(i) => \A c \in OrderId : src[c] # i
  BY NoneAssumption DEF IInv, Answered, SourcesAreCloses, CloseBacked, Live, LiveStatus
<1>. QED
  BY <1>1 DEF Holds, Occupies, Closed

(* Apart from an order newly placed, nothing begins to hold a level.       *)
LEMMA HoldsShrink ==
  ASSUME IInv, FilledWhenDone, BookMove, NoComeback, NEW i \in OrderId, Holds(i)'
  PROVE  \/ Holds(i) /\ book'[i].level = book[i].level
         \/ \E l \in Int : PutsOpen(i, l) /\ book'[i].level = l
<1>1. Keeps
  BY MoveKeeps
<1>2. \A c \in OrderId : src[c] = i /\ book[c].status = "FILLED" => Relists(c)
  BY <1>1 DEF Keeps, Evolves, NoComeback, Holds, Used
<1>3. CASE UNCHANGED <<book, src>>
  BY <1>2, <1>3 DEF Holds, IsOpen, Used, Live
<1>4. CASE \E k \in OrderId : (Trade(k) \/ Ends(k)) /\ src' = src
  <2>1. PICK k \in OrderId : Trade(k) \/ Ends(k)
    BY <1>4
  <2>2. Live(k) /\ \A j \in OrderId : j # k => book'[j] = book[j]
    BY <2>1 DEF Trade, Ends, Withdraw, IInv, TypeOK, ExchangeTypeOK
  <2>3. Used(k) /\ Used(i)
    BY <2>2 DEF Live, LiveStatus, Used, Holds, IsOpen
  <2>4. IsOpen(i) /\ book'[i].level = book[i].level
    BY <1>1, <2>3 DEF Keeps, Evolves, Holds, IsOpen
  <2>5. Live(i) \/ book[i].exec > 0
    BY <2>2 DEF Holds, Live
  <2>. QED
    BY <1>2, <2>4, <2>5 DEF Holds
<1>5. ASSUME NEW k \in OrderId, NEW l \in Int, PutsOpen(k, l)
      PROVE  \/ Holds(i) /\ book'[i].level = book[i].level
             \/ \E m \in Int : PutsOpen(i, m) /\ book'[i].level = m
  <2>1. book' = [book EXCEPT ![k] = book'[k]] /\ book'[k].level = l
    BY <1>5, SidesDiffer, NewOrderStep DEF PutsOpen
  <2>2. CASE i = k
    BY <1>5, <2>1, <2>2
  <2>3. CASE i # k
    BY <1>2, <2>1, <2>3 DEF Holds, IsOpen, Used, Live, IInv, TypeOK, ExchangeTypeOK
  <2>. QED
    BY <2>2, <2>3
<1>6. ASSUME NEW k \in OrderId, NEW l \in Int, PutsClose(k, l)
      PROVE  Holds(i) /\ book'[i].level = book[i].level
  <2>1. book' = [book EXCEPT ![k] = book'[k]] /\ book'[k].side = CloseSide
    BY <1>6, SidesDiffer, NewOrderStep DEF PutsClose, IInv, TypeOK
  <2>2. i # k
    BY <2>1, SidesDiffer DEF Holds, IsOpen
  <2>. QED
    BY <1>2, <2>1, <2>2 DEF Holds, IsOpen, Used, Live, IInv, TypeOK, ExchangeTypeOK
<1>. QED
  BY <1>3, <1>4, <1>5, <1>6 DEF BookMove

(* A level stays vacant until an order is put on it.                       *)
LEMMA VacantStays ==
  ASSUME IInv, FilledWhenDone, BookMove, NoComeback, NEW l, Vacant(l),
         \A i \in OrderId, m \in Int : PutsOpen(i, m) => m # l
  PROVE  \A i \in OrderId : Holds(i)' => book'[i].level # l
BY HoldsShrink DEF Vacant

(* Only vacant levels are taken, so a level never has two holders.         *)
LEMMA OneHolderStep ==
  ASSUME IInv, LInv, BookMove, NoComeback
  PROVE  OneHolder'
<1>. SUFFICES ASSUME NEW i \in OrderId, NEW j \in OrderId, Holds(i)', Holds(j)',
                     book'[i].level = book'[j].level
              PROVE  i = j
  BY DEF OneHolder
<1>1. FilledWhenDone
  BY DEF LInv, PricesKnown
<1>2. \A k \in OrderId, l \in Int : PutsOpen(k, l) => Vacant(l)
  BY DEF PutsOpen, Claimed, LInv, Claims
<1>3. ASSUME NEW k \in OrderId, NEW l \in Int, PutsOpen(k, l), NEW m \in OrderId,
             NEW n \in Int, PutsOpen(m, n)
      PROVE  k = m
  BY <1>3, SidesDiffer, NewOrderStep DEF PutsOpen, Used, IInv, TypeOK, ExchangeTypeOK
<1>4. /\ \/ Holds(i) /\ book'[i].level = book[i].level
         \/ \E l \in Int : PutsOpen(i, l) /\ book'[i].level = l
      /\ \/ Holds(j) /\ book'[j].level = book[j].level
         \/ \E l \in Int : PutsOpen(j, l) /\ book'[j].level = l
  BY <1>1, HoldsShrink
<1>. QED
  BY <1>2, <1>3, <1>4 DEF Vacant, LInv, OneHolder

(* Without a risk manager nothing resumes the grid.                        *)
LEMMA NeverResumesStep ==
  ASSUME "risk" \notin Env
  PROVE  NeverResumes /\ [Next]_vars => NeverResumes'
<1>. SUFFICES ASSUME NeverResumes, [Next]_vars PROVE NeverResumes'
  OBVIOUS
<1>. USE DEF NeverResumes
<1>1. CASE BootStep
  BY <1>1 DEF BootStep, BootPosition, BootOrders, ReconcileOrders, ColdStart, WarmStart
<1>2. CASE MonitorStep
  BY <1>2 DEF MonitorStep, Tick, BeginPoll, BeginRetry, EndTick
<1>3. CASE StrategyStep
  <2>1. CASE InitPlace \/ InitPutOff \/ InitAbort \/ InitDone
    BY <2>1 DEF InitPlace, InitPutOff, InitAbort, InitDone, Forget, NoLocals
  <2>2. CASE RelistPlace \/ RelistFail
    BY <2>2 DEF RelistPlace, RelistFail, NoLocals
  <2>3. CASE \E i \in OrderId : See(i)
    BY <2>3 DEF See, SeeNothing, SeeProgress, SeeOpenFilled, SeeCloseFilled,
       SeeCanceled, CallRelist, NoLocals
  <2>4. CASE PlaceClose \/ PlaceCloseFail \/ RecordClose
    BY <2>4 DEF PlaceClose, PlaceCloseFail, RecordClose, NoLocals
  <2>5. CASE RetryPlace \/ RetryFail \/ RetryDone
    BY <2>5 DEF RetryPlace, RetryFail, RetryDone
  <2>6. CASE Halt \/ (\E i \in OrderId : HaltCancel(i)) \/ HaltDone
    BY <2>6 DEF Halt, HaltCancel, HaltDone
  <2>7. CASE Resume \/ ResumeNext \/ ResumeDone
    BY <2>7 DEF Resume, ResumeNext, ResumeDone
  <2>. QED
    BY <1>3, <2>1, <2>2, <2>3, <2>4, <2>5, <2>6, <2>7 DEF StrategyStep
<1>4. CASE ExchangeStep \/ UNCHANGED vars
  BY <1>4 DEF ExchangeStep, control, vars
<1>5. CASE Crash
  BY <1>5 DEF Crash, Forget, NoLocals
<1>. QED
  BY <1>1, <1>2, <1>3, <1>4, <1>5 DEF Next, BotStep

(* What the bot starts to track is live, new, or the close order it has    *)
(* just placed: no filled close order comes back.                          *)
LEMMA StepHasNoComeback == IInv /\ [Next]_vars => NoComeback
<1>. SUFFICES ASSUME IInv, [Next]_vars, NEW c \in OrderId, book[c].status = "FILLED", Relists(c)'
              PROVE  Relists(c)
  BY DEF NoComeback
<1>. USE DEF Relists, NoEntries
<1>1. ~Live(c) /\ Used(c)
  BY DEF Live, LiveStatus, Used
<1>2. CASE BootStep
  <2>1. RestoredOpens \cup RestoredCloses \subseteq DOMAIN listed
    BY DEF RestoredOpens, RestoredCloses
  <2>. QED
    BY <1>1, <1>2, <2>1 DEF BootStep, BootPosition, BootOrders, ReconcileOrders, ColdStart,
       WarmStart, OpenOrders, memory
<1>3. CASE MonitorStep
  BY <1>3 DEF MonitorStep, Tick, BeginPoll, BeginRetry, EndTick, memory
<1>4. CASE StrategyStep
  <2>1. listed' = listed /\ ret # "closePlaced"
    BY <1>4 DEF StrategyStep, IInv, TypeOK
  <2>2. CASE InitPlace \/ RetryPlace \/ RelistPlace
    BY <1>1, <2>1, <2>2 DEF InitPlace, RetryPlace, RelistPlace, PlaceOk, Accept, FreeIds, With, NoLocals
  <2>3. CASE InitAbort
    BY <2>1, <2>3 DEF InitAbort, Forget
  <2>4. CASE InitPutOff \/ InitDone \/ RetryFail \/ RetryDone \/ RelistFail
    BY <2>1, <2>4 DEF InitPutOff, InitDone, RetryFail, RetryDone, RelistFail, NoLocals, memory
  <2>5. CASE \E i \in OrderId : See(i)
    BY <2>1, <2>5 DEF See, SeeNothing, SeeProgress, SeeOpenFilled, SeeCloseFilled,
       SeeCanceled, CallRelist, Without, memory
  <2>6. CASE PlaceClose \/ PlaceCloseFail \/ RecordClose
    BY <1>1, <2>1, <2>6 DEF PlaceClose, PlaceCloseFail, RecordClose, PlaceOk, Accept, FreeIds,
       With, memory
  <2>7. CASE Halt \/ (\E i \in OrderId : HaltCancel(i)) \/ HaltDone \/ Resume \/ ResumeNext \/ ResumeDone
    BY <2>1, <2>7 DEF Halt, HaltCancel, HaltDone, Resume, ResumeNext, ResumeDone, CallRelist, memory
  <2>. QED
    BY <1>4, <2>2, <2>3, <2>4, <2>5, <2>6, <2>7 DEF StrategyStep
<1>5. CASE ExchangeStep \/ UNCHANGED vars
  BY <1>5 DEF ExchangeStep, vars, memory, control
<1>6. CASE Crash
  BY <1>6 DEF Crash, Forget
<1>. QED
  BY <1>2, <1>3, <1>4, <1>5, <1>6 DEF Next, BotStep

(* Start-up begins a new grid only on an exchange on which no level is     *)
(* held: with neither a live order nor a position, every lot bought is the *)
(* origin of a lot sold, so every purchase has a filled close order.       *)
LEMMA ColdStartVacant ==
  ASSUME IInv, FilledWhenDone, ListsAllLive, pc = "reconcile", IsColdStart, NEW i \in OrderId
  PROVE  ~Holds(i)
<1>. SUFFICES ASSUME Holds(i) PROVE FALSE
  OBVIOUS
<1>1. ~Live(i) /\ IsOpen(i) /\ book[i].exec > 0
  BY DEF IsColdStart, ListsAllLive, OpenOrders, Holds
<1>2. \A c \in OrderId : ~Relists(c)
  BY DEF IsColdStart, Relists, IInv, Shape, BootsEmpty, Booting
<1>3. book[i] \in Entry
  BY <1>1 DEF IInv, TypeOK, ExchangeTypeOK, IsOpen, Used, NoOrder
<1>4. Origin \in Surjection(Lots(CloseSide), Lots(OpenSide))
  <2>1. Cardinality(Lots(CloseSide)) \in Nat /\ Cardinality(Lots(OpenSide)) \in Nat
    BY OriginInjects, FS_CardinalityType
  <2>2. Cardinality(Lots(CloseSide)) = Cardinality(Lots(OpenSide))
    BY <2>1 DEF IsColdStart, Position
  <2>. QED
    BY <2>2, OriginInjects, FS_Injection
<1>. DEFINE lot == <<i, book[i].exec>>
<1>5. lot \in Lots(OpenSide)
  BY <1>1, <1>3, LotAssumption DEF Lots, Entry, IsOpen
<1>6. PICK x \in Lots(CloseSide) : Origin[x] = lot
  BY <1>4, <1>5 DEF Surjection
<1>7. src[x[1]] = i /\ x[2] = book[i].exec
  BY <1>6 DEF Origin
<1>8. /\ x[1] \in OrderId /\ IsClose(x[1]) /\ x[2] <= book[x[1]].exec
      /\ book[x[1]] \in Entry
  <2>1. x[1] \in OrderId /\ IsClose(x[1])
    BY SoldLot
  <2>2. x[2] <= book[x[1]].exec
    BY DEF Lots
  <2>. QED
    BY <2>1, <2>2 DEF IInv, TypeOK, ExchangeTypeOK, IsClose, Used, NoOrder
<1>9. book[i].status = "FILLED" /\ book[i].exec = Lot
  BY <1>7, <1>8 DEF IInv, Answered, CloseBacked, Shape, ExecMatchesStatus
<1>10. book[x[1]].status = "FILLED"
  BY <1>7, <1>8, <1>9, LotAssumption DEF FilledWhenDone, Entry
<1>. QED
  BY <1>2, <1>7, <1>8, <1>10 DEF Holds

-----------------------------------------------------------------------------
(* The levels in hand stay vacant.                                         *)
StaysVacant(l) == \A i \in OrderId : Holds(i)' => book'[i].level # l

Untaken(l) == \A i \in OrderId, m \in Int : PutsOpen(i, m) => m # l

(* Steps that take nothing in hand, or what was in hand before.            *)
LEMMA ClaimsFrame ==
  ASSUME IInv, LInv, BookMove, NoComeback,
         \A l \in pending' : (l \in pending \/ Vacant(l)) /\ Untaken(l),
         pc' \in {"init", "retry"} =>
            \A l \in queue' : Vacant(l) /\ Untaken(l) /\ l \notin pending',
         pc' = "relist" => Vacant(price'.lv) /\ Untaken(price'.lv) /\ price'.lv \notin pending'
  PROVE  Claims'
<1>1. \A l : Vacant(l) /\ Untaken(l) => StaysVacant(l)
  BY VacantStays DEF LInv, PricesKnown, Untaken, StaysVacant
<1>2. \A l \in pending' : StaysVacant(l)
  BY <1>1 DEF LInv, Claims
<1>3. pc' \in {"init", "retry"} => \A l \in queue' : StaysVacant(l) /\ l \notin pending'
  BY <1>1
<1>4. pc' = "relist" => StaysVacant(price'.lv) /\ price'.lv \notin pending'
  BY <1>1
<1>. QED
  BY <1>2, <1>3, <1>4 DEF Claims, Vacant, StaysVacant

(* A step that leaves the book alone takes no level.                       *)
LEMMA NothingTaken ==
  ASSUME IInv, book' = book \/ pc \notin {"init", "retry", "relist"}, NEW l
  PROVE  Untaken(l)
<1>1. ASSUME NEW i \in OrderId, NEW m \in Int, PutsOpen(i, m) PROVE FALSE
  <2>1. book' # book
    BY <1>1, SidesDiffer, NewOrderStep DEF PutsOpen, Used
  <2>. QED
    BY <1>1, <2>1 DEF PutsOpen, Claimed
<1>. QED
  BY <1>1 DEF Untaken

(* InitOrders and RetryPlacePendingOrders use up the level they take.      *)
LEMMA ClaimsLoopStep ==
  ASSUME IInv, LInv, BookMove, NoComeback, "lost" \notin Env,
         InitPlace \/ InitPutOff \/ RetryPlace \/ RetryFail
  PROVE  Claims'
<1>1. /\ First(queue) \in queue /\ queue' = queue \ {First(queue)} /\ pc' = pc
      /\ pc \in {"init", "retry"}
  BY FirstIsMember DEF InitPlace, InitPutOff, RetryPlace, RetryFail, IInv, TypeOK
<1>2. \A l \in queue : Vacant(l) /\ l \notin pending
  BY <1>1 DEF LInv, Claims
<1>3. CASE InitPlace \/ RetryPlace
  <2>1. pending' = pending
    BY <1>3 DEF InitPlace, RetryPlace
  <2>2. PICK i \in OrderId : PlaceOk(i, OpenSide, First(queue), None)
    BY <1>3 DEF InitPlace, RetryPlace
  <2>3. \A k \in OrderId, m \in Int : PutsOpen(k, m) => m = First(queue)
    <3>. SUFFICES ASSUME NEW k \in OrderId, NEW m \in Int, PutsOpen(k, m) PROVE m = First(queue)
      OBVIOUS
    <3>1. First(queue) \in Int
      BY <1>1, LevelTypes DEF IInv, TypeOK
    <3>2. book' = [book EXCEPT ![i] = book'[i]] /\ book'[i].level = First(queue)
      BY <2>2, <3>1, SidesDiffer, NewOrderStep
    <3>3. ~Used(k) /\ book'[k].status = "NEW" /\ book'[k].level = m
      BY SidesDiffer, NewOrderStep DEF PutsOpen
    <3>. QED
      BY <3>2, <3>3 DEF Used, IInv, TypeOK, ExchangeTypeOK
  <2>. QED
    BY <1>1, <1>2, <2>1, <2>3, ClaimsFrame DEF Untaken
<1>4. CASE InitPutOff \/ RetryFail
  <2>1. book' = book /\ pending' = pending \cup {First(queue)}
    BY <1>4 DEF InitPutOff, RetryFail, PlaceErr
  <2>. QED
    BY <1>1, <1>2, <2>1, NothingTaken, ClaimsFrame
<1>. QED
  BY <1>3, <1>4

(* relistOpenOrder uses up its level, or keeps it for the next attempt.    *)
LEMMA ClaimsRelistStep ==
  ASSUME IInv, LInv, BookMove, NoComeback, "lost" \notin Env, RelistPlace \/ RelistFail
  PROVE  Claims'
<1>1. pc = "relist" /\ pending' = pending /\ ret \notin {"init", "retry", "relist"}
  BY DEF RelistPlace, RelistFail, memory, IInv, TypeOK
<1>2. Vacant(price.lv) /\ price.lv \notin pending
  BY <1>1 DEF LInv, Claims
<1>3. CASE RelistPlace
  <2>1. \A k \in OrderId, m \in Int : PutsOpen(k, m) => m = price.lv
    BY <1>1 DEF PutsOpen, Claimed
  <2>. QED
    BY <1>1, <1>2, <1>3, <2>1, ClaimsFrame DEF RelistPlace, Untaken
<1>4. CASE RelistFail
  <2>1. book' = book /\ ((pc' = "relist" /\ price' = price) \/ pc' = ret)
    BY <1>1, <1>4 DEF RelistFail, PlaceErr
  <2>. QED
    BY <1>1, <1>2, <2>1, NothingTaken, ClaimsFrame
<1>. QED
  BY <1>3, <1>4

(* The fill of a close order vacates the level of the order it answers:    *)
(* that order was the only one to hold it, and nothing had been put off on *)
(* it.                                                                     *)
LEMMA ClaimsSeeCloseStep ==
  ASSUME IInv, LInv, BookMove, NoComeback, NEW c \in OrderId, See(c), SeeCloseFilled(c),
         listed' = listed
  PROVE  Claims'
<1>. DEFINE l == orders[c].openPrice.lv
<1>1. /\ pc = "poll" /\ c \in DOMAIN orders /\ orders[c].type = "CLOSE"
      /\ book[c].status = "FILLED" /\ book' = book /\ src' = src /\ pending' = pending
      /\ orders' = Without(orders, c)
  BY DEF See, SeeCloseFilled, AnswersFill, IInv, Shape, VisitsTracked
<1>2. IsClose(c)
  BY <1>1, SidesDiffer DEF IsClose, IInv, Shape, TracksRealOrders, TypeOK,
     ExchangeTypeOK, Entry, NoOrder, Used, Side, OpenSide, CloseSide
<1>3. PICK o \in OrderId : o = src[c] /\ book[o].level = l /\ IsOpen(o) /\ book[o].exec = Lot
  BY <1>1, <1>2 DEF LInv, PricesKnown, TrackedPrices, TracksLevel, IInv, Answered,
     CloseBacked, Shape, ExecMatchesStatus
<1>4. Holds(o)
  <2>1. \A d \in OrderId : src[d] = o => d = c
    BY <1>2, <1>3, NoneAssumption DEF IInv, Answered, CloseBacked, SourcesAreCloses
  <2>. QED
    BY <1>1, <1>3, <2>1, LotAssumption DEF Holds, Relists
<1>5. ~Holds(o)'
  <2>1. c \notin DOMAIN orders' /\ c \notin DOMAIN listed' /\ pc' # "closePlaced"
    BY <1>1 DEF Without, SeeCloseFilled, CallRelist, IInv, Shape, ListsRealOrders
  <2>. QED
    BY <1>1, <1>3, <2>1 DEF Holds, Relists
<1>6. l \notin pending
  BY <1>3, <1>4 DEF LInv, Claims, Vacant
<1>7. \A k : Untaken(k)
  BY <1>1, NothingTaken
<1>8. StaysVacant(l)
  <2>. SUFFICES ASSUME NEW i \in OrderId, Holds(i)', book'[i].level = l PROVE FALSE
    BY DEF StaysVacant
  <2>1. Holds(i)
    BY <1>7, HoldsShrink DEF LInv, PricesKnown, Untaken
  <2>2. i = o
    BY <1>1, <1>3, <1>4, <2>1 DEF LInv, OneHolder
  <2>. QED
    BY <1>5, <2>2
<1>9. \A k \in pending : StaysVacant(k)
  BY <1>7, VacantStays DEF LInv, PricesKnown, Claims, Untaken, StaysVacant
<1>10. pc' = "relist" => price'.lv = l
  BY <1>1 DEF SeeCloseFilled, CallRelist
<1>11. pc' \notin {"init", "retry"}
  BY <1>1 DEF SeeCloseFilled, CallRelist
<1>. HIDE DEF l
<1>. QED
  BY <1>1, <1>6, <1>8, <1>9, <1>10, <1>11 DEF Claims, Vacant, StaysVacant

(* Every step keeps the claims.                                            *)
LEMMA ClaimsStep ==
  ASSUME "lost" \notin Env, "risk" \notin Env
  PROVE  IInv /\ LInv /\ [Next]_vars => Claims'
<1>. SUFFICES ASSUME IInv, LInv, [Next]_vars PROVE Claims'
  OBVIOUS
<1>1. BookMove /\ NoComeback
  BY StepMovesBook, StepHasNoComeback
<1>. DEFINE Loops == {"init", "retry", "relist"}
<1>2. ASSUME pending' \subseteq pending, pc' \notin Loops,
             book' = book \/ pc \notin Loops
      PROVE  Claims'
  BY <1>1, <1>2, NothingTaken, ClaimsFrame
<1>3. CASE BootStep
  <2>1. CASE ColdStart
    <3>1. pending' = {} /\ book' = book /\ pc' = "init"
      BY <2>1 DEF ColdStart, memory, LInv, BootsWell, BootsWithoutPending, Booting
    <3>2. \A k : Vacant(k)
      BY <2>1, ColdStartVacant DEF ColdStart, LInv, BootsWell, PricesKnown, Vacant
    <3>. QED
      BY <1>1, <3>1, <3>2, NothingTaken, ClaimsFrame
  <2>2. CASE BootPosition \/ BootOrders \/ ReconcileOrders \/ WarmStart
    BY <1>2, <2>2 DEF BootPosition, BootOrders, ReconcileOrders, WarmStart, memory
  <2>. QED
    BY <1>3, <2>1, <2>2 DEF BootStep
<1>4. CASE MonitorStep
  <2>1. CASE BeginRetry
    <3>1. book' = book /\ pending' = {} /\ queue' = pending /\ pc' = "retry"
      BY <2>1 DEF BeginRetry
    <3>2. \A k \in pending : Vacant(k)
      BY DEF LInv, Claims
    <3>. QED
      BY <1>1, <3>1, <3>2, NothingTaken, ClaimsFrame
  <2>2. CASE Tick \/ BeginPoll \/ EndTick
    BY <1>2, <2>2 DEF Tick, BeginPoll, EndTick, memory
  <2>. QED
    BY <1>4, <2>1, <2>2 DEF MonitorStep
<1>5. CASE StrategyStep
  <2>1. CASE InitPlace \/ InitPutOff \/ RetryPlace \/ RetryFail
    BY <1>1, <2>1, ClaimsLoopStep
  <2>2. CASE RelistPlace \/ RelistFail
    BY <1>1, <2>2, ClaimsRelistStep
  <2>3. CASE InitAbort
    BY <1>2, <2>3 DEF InitAbort, Forget, PlaceErr
  <2>4. CASE InitDone \/ RetryDone \/ PlaceClose \/ PlaceCloseFail \/ RecordClose
    BY <1>2, <2>4 DEF InitDone, RetryDone, PlaceClose, PlaceCloseFail, RecordClose, memory
  <2>5. ASSUME NEW i \in OrderId, See(i) PROVE Claims'
    <3>1. CASE SeeCloseFilled(i)
      BY <1>1, <1>5, <2>5, <3>1, ClaimsSeeCloseStep DEF StrategyStep
    <3>2. CASE SeeNothing(i) \/ SeeProgress(i) \/ SeeOpenFilled(i) \/ SeeCanceled(i)
      BY <1>2, <2>5, <3>2 DEF See, SeeNothing, SeeProgress, SeeOpenFilled, SeeCanceled, memory
    <3>. QED
      BY <2>5, <3>1, <3>2 DEF See
  <2>6. CASE Halt \/ (\E i \in OrderId : HaltCancel(i)) \/ HaltDone \/ Resume \/ ResumeNext \/ ResumeDone
    BY <1>2, <2>6 DEF Halt, HaltCancel, HaltDone, Resume, ResumeNext, ResumeDone,
       memory, LInv, NeverResumes
  <2>. QED
    BY <1>5, <2>1, <2>2, <2>3, <2>4, <2>5, <2>6 DEF StrategyStep
<1>6. CASE ExchangeStep \/ UNCHANGED vars
  <2>1. UNCHANGED <<pending, pc, queue, price>>
    BY <1>6 DEF ExchangeStep, vars, memory, control
  <2>2. \A i \in OrderId : Used(i)' => Used(i)
    BY <1>6 DEF ExchangeStep, vars, Trade, Withdraw, Used, Live, LiveStatus, IInv, TypeOK,
       ExchangeTypeOK
  <2>3. \A k : Untaken(k)
    BY <2>2, SidesDiffer, NewOrderStep DEF Untaken, PutsOpen, Used
  <2>4. Claims
    BY DEF LInv
  <2>. QED
    BY <1>1, <2>1, <2>3, <2>4, ClaimsFrame DEF Claims
<1>7. CASE Crash
  BY <1>2, <1>7 DEF Crash, Forget
<1>. QED
  BY <1>3, <1>4, <1>5, <1>6, <1>7 DEF Next, BotStep

(* The invariant holds when the process first starts.                      *)
LEMMA LInvInit == Init => LInv
<1>. SUFFICES ASSUME Init PROVE LInv
  OBVIOUS
<1>1. \A i \in OrderId : ~Used(i) /\ ~Holds(i) /\ book[i].exec = 0
  BY DEF Init, ExchangeInit, NoOrder, Used, Holds, IsOpen
<1>2. DOMAIN orders = {} /\ DOMAIN pairs = {} /\ DOMAIN file = {} /\ pc = "down"
      /\ ret = "idle" /\ pending = {}
  BY DEF Init, NoEntries
<1>3. PricesKnown
  BY <1>1, <1>2, LotAssumption DEF PricesKnown, FilledWhenDone, TrackedPrices,
     AnswersOwnLevel, PairedLevels
<1>4. BootsWell /\ NeverResumes
  BY <1>2 DEF BootsWell, BootsWithoutPending, ListsAllLive, NeverResumes
<1>5. OneHolder /\ Claims
  BY <1>1, <1>2 DEF OneHolder, Claims
<1>. QED
  BY <1>3, <1>4, <1>5 DEF LInv

(* Every step keeps the invariant.                                         *)
LEMMA LInvNext ==
  ASSUME "lost" \notin Env, "risk" \notin Env
  PROVE  IInv /\ LInv /\ [Next]_vars => LInv'
<1>. SUFFICES ASSUME IInv, LInv, [Next]_vars PROVE LInv'
  OBVIOUS
<1>1. PricesKnown' /\ BootsWell' /\ NeverResumes'
  BY PricesStep, BootsWellStep, NeverResumesStep DEF LInv
<1>2. OneHolder'
  BY StepMovesBook, StepHasNoComeback, OneHolderStep
<1>3. Claims'
  BY ClaimsStep
<1>. QED
  BY <1>1, <1>2, <1>3 DEF LInv

(* The invariant of the levels holds in every behaviour in which replies   *)
(* arrive and the risk manager leaves the grid alone.                      *)
THEOREM LInvAlways ==
  ASSUME "lost" \notin Env, "risk" \notin Env
  PROVE  Spec => []LInv
<1>1. IInv /\ LInv /\ [Next]_vars => LInv'
  BY LInvNext
<1>. QED
  BY <1>1, LInvInit, IInvAlways, PTL DEF Spec

(* No level is bought twice (reconcileStateOnStartup, relistOpenOrder,     *)
(* RetryPlacePendingOrders), whatever is refused, withdrawn, put off or    *)
(* lost in a crash: for every grid and every number of orders, as long as  *)
(* an accepted order's reply arrives and nobody halts the grid.            *)
THEOREM LevelsExclusive ==
  ASSUME "lost" \notin Env, "risk" \notin Env
  PROVE  Spec => []LevelExclusive
<1>1. IInv /\ LInv => LevelExclusive
  BY HoldersInclude DEF LInv, OneHolder, LevelExclusive
<1>2. Spec => []LInv
  BY LInvAlways
<1>. QED
  BY <1>1, <1>2, IInvAlways, PTL

-----------------------------------------------------------------------------
(* The abstract grid: a level's state is that of the order that occupies   *)
(* it, and a step changes the state of one level at most.                  *)

StateOf(occupied, live) == IF ~occupied THEN "free" ELSE IF live THEN "open" ELSE "held"

ViewOK ==
  \A l \in Levels :
    /\ \A i \in OrderId :
         Occupies(i) /\ book[i].level = l => levelState[l] = StateOf(TRUE, Live(i))
    /\ (\A i \in OrderId : Occupies(i) => book[i].level # l) => levelState[l] = "free"

(* The abstract state shows the order that occupies the level.             *)
LEMMA View == IInv /\ OneHolder => ViewOK
<1>. SUFFICES ASSUME IInv, OneHolder, NEW l \in Levels
              PROVE  /\ \A i \in OrderId :
                          Occupies(i) /\ book[i].level = l => levelState[l] = StateOf(TRUE, Live(i))
                     /\ (\A i \in OrderId : Occupies(i) => book[i].level # l) => levelState[l] = "free"
  BY DEF ViewOK
<1>1. levelState[l] = IF OpenAt(l) THEN "open" ELSE IF HeldAt(l) THEN "held" ELSE "free"
  BY DEF levelState
<1>2. \A i \in OrderId : IsOpen(i) /\ Live(i) => Occupies(i)
  BY NoneAssumption DEF Occupies, Closed, IInv, Answered, SourcesAreCloses, CloseBacked, Live, LiveStatus
<1>3. \A i, j \in OrderId : Occupies(i) /\ Occupies(j) /\ book[i].level = l /\ book[j].level = l => i = j
  BY HoldersInclude DEF OneHolder
<1>4. OpenAt(l) <=> \E i \in OrderId : Occupies(i) /\ Live(i) /\ book[i].level = l
  BY <1>2 DEF OpenAt, Occupies
<1>. QED
  BY <1>1, <1>3, <1>4 DEF HeldAt, StateOf

SameAt(j) ==
  /\ Occupies(j)' <=> Occupies(j)
  /\ Occupies(j) => book'[j].level = book[j].level /\ (Live(j)' <=> Live(j))

(* When one order of a level changes and the others stay, the level moves  *)
(* as that order does.                                                     *)
LEMMA LevelMoves ==
  ASSUME ViewOK, ViewOK', NEW i \in OrderId, NEW k,
         \A j \in OrderId : j # i => SameAt(j) /\ (Occupies(j) => book[j].level # k),
         Occupies(i) => book[i].level = k, Occupies(i)' => book'[i].level = k,
         \/ ~Occupies(i) /\ Occupies(i)' /\ Live(i)'
         \/ Occupies(i) /\ Live(i)
         \/ Occupies(i) /\ ~Live(i) /\ ~Occupies(i)'
  PROVE  [Cycle!GridNext]_levelState
<1>. DEFINE before == StateOf(Occupies(i), Live(i))
            after == StateOf(Occupies(i)', Live(i)')
<1>1. ASSUME NEW l \in Levels, l # k PROVE levelState'[l] = levelState[l]
  <2>1. CASE \E j \in OrderId : Occupies(j) /\ book[j].level = l
    <3>1. PICK j \in OrderId : Occupies(j) /\ book[j].level = l
      BY <2>1
    <3>2. j # i
      BY <1>1, <3>1
    <3>3. Occupies(j)' /\ book'[j].level = l /\ (Live(j)' <=> Live(j))
      BY <3>1, <3>2 DEF SameAt
    <3>4. levelState[l] = StateOf(TRUE, Live(j)) /\ levelState'[l] = StateOf(TRUE, Live(j)')
      BY <3>1, <3>3 DEF ViewOK, Levels
    <3>. QED
      BY <3>3, <3>4 DEF StateOf
  <2>2. CASE \A j \in OrderId : Occupies(j) => book[j].level # l
    <3>1. \A j \in OrderId : Occupies(j)' => book'[j].level # l
      BY <1>1, <2>2 DEF SameAt
    <3>. QED
      BY <2>2, <3>1 DEF ViewOK, Levels
  <2>. QED
    BY <2>1, <2>2
<1>2. ASSUME k \in Levels PROVE levelState[k] = before /\ levelState'[k] = after
  <2>1. levelState[k] = before
    BY <1>2 DEF ViewOK, StateOf
  <2>2. \A j \in OrderId : j # i => (Occupies(j)' => book'[j].level # k)
    BY DEF SameAt
  <2>3. levelState'[k] = after
    BY <1>2, <2>2 DEF ViewOK, StateOf, Levels
  <2>. QED
    BY <2>1, <2>3
<1>3. /\ DOMAIN levelState = Levels /\ DOMAIN levelState' = Levels
      /\ levelState = [l \in Levels |-> levelState[l]]
      /\ levelState' = [l \in Levels |-> levelState'[l]]
  BY DEF levelState, Levels
<1>4. Levels = Cycle!Level
  BY DEF Levels, Cycle!Level
<1>5. CASE k \notin Levels \/ after = before
  <2>1. \A l \in Levels : levelState'[l] = levelState[l]
    BY <1>1, <1>2, <1>5
  <2>. HIDE DEF levelState
  <2>. QED
    BY <1>3, <2>1
<1>6. CASE k \in Levels /\ after # before
  <2>. HIDE DEF before, after, levelState
  <2>1. levelState[k] = before /\ levelState' = [levelState EXCEPT ![k] = after]
    BY <1>1, <1>2, <1>3, <1>6
  <2>2. Cycle!Step(k, before, after)
    BY <2>1 DEF Cycle!Step
  <2>3. \/ before = "free" /\ after = "open"
        \/ before = "open" /\ after = "held"
        \/ before = "open" /\ after = "free"
        \/ before = "held" /\ after = "free"
    BY <1>6 DEF before, after, StateOf
  <2>. QED
    BY <1>4, <1>6, <2>2, <2>3 DEF Cycle!GridNext, Cycle!Place, Cycle!Buy, Cycle!Leave, Cycle!Sell
<1>. QED
  BY <1>5, <1>6

(* A step of which the levels see nothing.                                 *)
LEMMA NothingMoves ==
  ASSUME ViewOK, ViewOK', \A j \in OrderId : SameAt(j)
  PROVE  levelState' = levelState
<1>1. ASSUME NEW l \in Levels PROVE levelState'[l] = levelState[l]
  <2>1. CASE \E j \in OrderId : Occupies(j) /\ book[j].level = l
    BY <2>1 DEF ViewOK, SameAt, StateOf, Levels
  <2>2. CASE \A j \in OrderId : Occupies(j) => book[j].level # l
    BY <2>2 DEF ViewOK, SameAt, Levels
  <2>. QED
    BY <2>1, <2>2
<1>2. /\ levelState = [l \in Levels |-> levelState[l]]
      /\ levelState' = [l \in Levels |-> levelState'[l]]
  BY DEF levelState, Levels
<1>. HIDE DEF levelState
<1>. QED
  BY <1>1, <1>2

(* A trade or the end of an open order moves its own level.                *)
LEMMA OpenOrderMoves ==
  ASSUME IInv, OneHolder, ViewOK, ViewOK', Keeps, NEW i \in OrderId,
         Trade(i) \/ Ends(i), src' = src, IsOpen(i)
  PROVE  [Cycle!GridNext]_levelState
<1>1. Live(i) /\ \A j \in OrderId : j # i => book'[j] = book[j]
  BY DEF Trade, Ends, Withdraw, IInv, TypeOK, ExchangeTypeOK
<1>2. \A c \in OrderId : src[c] = i => FALSE
  BY <1>1, NoneAssumption DEF IInv, Answered, SourcesAreCloses, CloseBacked, Live, LiveStatus
<1>3. Occupies(i)
  BY <1>1, <1>2 DEF Occupies, Closed
<1>4. book'[i].level = book[i].level
  BY DEF Keeps, Evolves, IsOpen
<1>5. \A j \in OrderId : src[i] # j
  BY SidesDiffer, NoneAssumption DEF IInv, Answered, SourcesAreCloses, IsOpen, IsClose
<1>6. ASSUME NEW j \in OrderId, j # i
      PROVE  SameAt(j) /\ (Occupies(j) => book[j].level # book[i].level)
  <2>1. Closed(j)' <=> Closed(j)
    BY <1>1, <1>5 DEF Closed
  <2>2. SameAt(j)
    BY <1>1, <1>6, <2>1 DEF SameAt, Occupies, IsOpen, Used, Live
  <2>. QED
    BY <1>3, <1>6, <2>2, HoldersInclude DEF OneHolder
<1>. QED
  BY <1>1, <1>3, <1>4, <1>6, LevelMoves

(* The fill of a close order moves the level of the order it answers; any  *)
(* other trade or end of a close order moves no level.                     *)
LEMMA CloseOrderMoves ==
  ASSUME IInv, OneHolder, ViewOK, ViewOK', Keeps, NEW i \in OrderId,
         Trade(i) \/ Ends(i), src' = src, IsClose(i)
  PROVE  [Cycle!GridNext]_levelState
<1>1. Live(i) /\ \A j \in OrderId : j # i => book'[j] = book[j]
  BY DEF Trade, Ends, Withdraw, IInv, TypeOK, ExchangeTypeOK
<1>2. ~IsOpen(i) /\ ~IsOpen(i)' /\ book[i].status # "FILLED"
  BY <1>1, SidesDiffer DEF IsOpen, IsClose, Keeps, Evolves, Live, LiveStatus
<1>3. PICK o \in OrderId : /\ o = src[i] /\ IsOpen(o) /\ book[o].status = "FILLED"
                           /\ \A d \in OrderId : src[d] = o => d = i
  BY NoneAssumption DEF IInv, Answered, CloseBacked, SourcesAreCloses
<1>4. o # i /\ book'[o] = book[o] /\ ~Live(o) /\ book[o].exec = Lot
  BY <1>1, <1>2, <1>3 DEF Live, LiveStatus, IInv, Shape, ExecMatchesStatus
<1>5. Occupies(o)
  BY <1>2, <1>3, <1>4, LotAssumption DEF Occupies, Closed
<1>6. ASSUME NEW j \in OrderId, j # o
      PROVE  SameAt(j) /\ (Occupies(j) => book[j].level # book[o].level)
  <2>1. Closed(j)' <=> Closed(j)
    BY <1>1, <1>3, <1>6 DEF Closed
  <2>2. SameAt(j)
    BY <1>1, <1>2, <2>1 DEF SameAt, Occupies, IsOpen, Used, Live
  <2>. QED
    BY <1>5, <1>6, <2>2, HoldersInclude DEF OneHolder
<1>7. CASE book'[i].status = "FILLED"
  <2>1. ~Occupies(o)'
    BY <1>3, <1>7 DEF Occupies, Closed
  <2>. QED
    BY <1>4, <1>5, <1>6, <2>1, LevelMoves
<1>8. CASE book'[i].status # "FILLED"
  <2>1. ~Closed(o) /\ ~Closed(o)'
    BY <1>2, <1>3, <1>8 DEF Closed
  <2>2. SameAt(o)
    BY <1>4, <2>1 DEF SameAt, Occupies, IsOpen, Used, Live
  <2>. QED
    BY <1>6, <2>2, NothingMoves
<1>. QED
  BY <1>7, <1>8

(* An order placed on a vacant level moves that level.                     *)
LEMMA PlacementMoves ==
  ASSUME IInv, LInv, ViewOK, ViewOK', NEW i \in OrderId, NEW l \in Int, PutsOpen(i, l)
  PROVE  [Cycle!GridNext]_levelState
<1>1. /\ ~Used(i) /\ ~IsOpen(i) /\ ~IsClose(i) /\ book' = [book EXCEPT ![i] = book'[i]]
      /\ src' = [src EXCEPT ![i] = None] /\ book'[i].status = "NEW"
      /\ book'[i].side = OpenSide /\ book'[i].level = l
  BY SidesDiffer, NewOrderStep DEF PutsOpen
<1>2. src' = src
  BY <1>1 DEF IInv, Answered, SourcesAreCloses, TypeOK
<1>3. \A j \in OrderId : j # i => book'[j] = book[j]
  BY <1>1 DEF IInv, TypeOK, ExchangeTypeOK
<1>4. \A c \in OrderId : src[c] # i
  BY <1>1, NoneAssumption DEF IInv, Answered, SourcesAreCloses, CloseBacked
<1>5. ~Occupies(i) /\ Occupies(i)' /\ Live(i)'
  BY <1>1, <1>2, <1>4 DEF Occupies, Closed, IsOpen, Used, Live, LiveStatus
<1>6. Vacant(l)
  BY DEF PutsOpen, Claimed, LInv, Claims
<1>7. src[i] = None
  BY <1>1 DEF IInv, Answered, SourcesAreCloses
<1>8. ASSUME NEW j \in OrderId, j # i PROVE SameAt(j) /\ (Occupies(j) => book[j].level # l)
  <2>1. Closed(j)' <=> Closed(j)
    BY <1>2, <1>3, <1>7, NoneAssumption DEF Closed
  <2>2. SameAt(j)
    BY <1>3, <1>8, <2>1 DEF SameAt, Occupies, IsOpen, Used, Live
  <2>. QED
    BY <1>6, <2>2, HoldersInclude DEF Vacant
<1>. QED
  BY <1>1, <1>5, <1>8, LevelMoves

(* Placing a close order moves no level: the purchase stays held.          *)
LEMMA ClosePlacementMoves ==
  ASSUME IInv, ViewOK, ViewOK', NEW i \in OrderId, NEW l \in Int, PutsClose(i, l)
  PROVE  levelState' = levelState
<1>1. /\ ~Used(i) /\ ~IsOpen(i) /\ book' = [book EXCEPT ![i] = book'[i]]
      /\ src' = [src EXCEPT ![i] = cur] /\ book'[i].status = "NEW"
      /\ book'[i].side = CloseSide
  BY SidesDiffer, NewOrderStep DEF PutsClose, IInv, TypeOK
<1>2. \A j \in OrderId : j # i => book'[j] = book[j] /\ src'[j] = src[j]
  BY <1>1 DEF IInv, TypeOK, ExchangeTypeOK
<1>3. ASSUME NEW j \in OrderId PROVE SameAt(j)
  <2>1. book[i].status # "FILLED" /\ book'[i].status # "FILLED"
    BY <1>1 DEF Used
  <2>2. Closed(j)' <=> Closed(j)
    BY <1>2, <2>1 DEF Closed
  <2>3. CASE j = i
    BY <1>1, <2>3, SidesDiffer DEF SameAt, Occupies, IsOpen
  <2>4. CASE j # i
    BY <1>2, <2>2, <2>4 DEF SameAt, Occupies, IsOpen, Used, Live
  <2>. QED
    BY <2>3, <2>4
<1>. QED
  BY <1>3, NothingMoves

(* Every step of the bot is a step of the abstract grid or none.           *)
LEMMA GridStepRefines ==
  ASSUME "lost" \notin Env, "risk" \notin Env
  PROVE  IInv /\ LInv /\ [Next]_vars /\ ViewOK' => [Cycle!GridNext]_levelState
<1>. SUFFICES ASSUME IInv, LInv, [Next]_vars, ViewOK' PROVE [Cycle!GridNext]_levelState
  OBVIOUS
<1>1. BookMove /\ Keeps /\ ViewOK /\ OneHolder
  BY StepMovesBook, MoveKeeps, View DEF LInv, PricesKnown
<1>2. CASE UNCHANGED <<book, src>>
  BY <1>2 DEF levelState, OpenAt, HeldAt, Occupies, Closed, IsOpen, Used, Live
<1>3. ASSUME NEW i \in OrderId, Trade(i) \/ Ends(i), src' = src
      PROVE  [Cycle!GridNext]_levelState
  <2>1. IsOpen(i) \/ IsClose(i)
    BY <1>3, SidesDiffer DEF Trade, Ends, Withdraw, Live, LiveStatus, IInv, TypeOK,
       ExchangeTypeOK, Entry, NoOrder, Side, IsOpen, IsClose, Used, OpenSide, CloseSide
  <2>. QED
    BY <1>1, <1>3, <2>1, OpenOrderMoves, CloseOrderMoves
<1>4. ASSUME NEW i \in OrderId, NEW l \in Int, PutsOpen(i, l)
      PROVE  [Cycle!GridNext]_levelState
  BY <1>1, <1>4, PlacementMoves
<1>5. ASSUME NEW i \in OrderId, NEW l \in Int, PutsClose(i, l)
      PROVE  [Cycle!GridNext]_levelState
  BY <1>1, <1>5, ClosePlacementMoves
<1>. QED
  BY <1>1, <1>2, <1>3, <1>4, <1>5 DEF BookMove

(* The bot implements the abstract grid: seen from the exchange every      *)
(* level is free, then open, then held, then sold and free again, across   *)
(* fills, withdrawals, refusals, crashes and restarts.                     *)
THEOREM GridImplemented ==
  ASSUME "lost" \notin Env, "risk" \notin Env
  PROVE  Spec => ImplementsGrid
<1>1. Init => Cycle!GridInit
  <2>. SUFFICES ASSUME Init PROVE levelState = [l \in Levels |-> "free"]
    BY DEF Cycle!GridInit, Cycle!Level, Levels
  <2>1. \A i \in OrderId : ~Used(i)
    BY DEF Init, ExchangeInit, NoOrder, Used
  <2>. QED
    BY <2>1 DEF levelState, OpenAt, HeldAt, Occupies, IsOpen
<1>2. IInv /\ LInv /\ [Next]_vars /\ ViewOK' => [Cycle!GridNext]_levelState
  BY GridStepRefines
<1>3. Spec => []LInv
  BY LInvAlways
<1>4. LInv => OneHolder
  BY DEF LInv
<1>. QED
  BY <1>1, <1>2, <1>3, <1>4, View, IInvAlways, PTL DEF Spec, ImplementsGrid, Cycle!GridSpec

-----------------------------------------------------------------------------
(* Which live orders the bot does not track while it places or polls.      *)
KnowsOf(i) ==
  \/ i \in DOMAIN orders
  \/ pc = "closePlaced" /\ i = placed
  \/ IsClose(i) /\ i \notin DOMAIN pairs

KnowsLive == pc \in Running \cup {"init"} => \A i \in OpenOrders : KnowsOf(i)

(* A step that adds no live order and forgets none.                        *)
LEMMA KnowsFrame ==
  ASSUME IInv, KnowsLive, BookMove, Keeps, pc \in Running \cup {"init"},
         book' = book \/ \A i \in OrderId : Used(i)' => Used(i),
         \A i \in DOMAIN orders : i \in DOMAIN orders' \/ ~Live(i),
         \A i \in OrderId : pc = "closePlaced" /\ i = placed =>
            i \in DOMAIN orders' \/ (pc' = "closePlaced" /\ i = placed') \/ ~Live(i),
         \A i \in DOMAIN pairs' : i \in DOMAIN pairs \/ i \in DOMAIN orders' \/ ~Live(i)
  PROVE  KnowsLive'
<1>. SUFFICES ASSUME NEW i \in OrderId, Live(i)' PROVE KnowsOf(i)'
  BY DEF KnowsLive, OpenOrders
<1>1. Used(i) /\ Live(i)
  BY MoveEnlivens DEF Live, LiveStatus, Used
<1>2. KnowsOf(i)
  BY <1>1 DEF KnowsLive, OpenOrders
<1>3. IsClose(i) => IsClose(i)'
  BY DEF Keeps, Evolves, IsClose
<1>. QED
  BY <1>1, <1>2, <1>3 DEF KnowsOf

(* The start-up that ends brings every live order back, but for the close  *)
(* orders whose open price the file does not have.                         *)
LEMMA KnowsBootStep ==
  ASSUME IInv, KnowsLive, ListsAllLive, BootStep
  PROVE  KnowsLive'
<1>. USE DEF Running
<1>1. CASE BootPosition \/ BootOrders \/ ReconcileOrders
  BY <1>1 DEF BootPosition, BootOrders, ReconcileOrders, KnowsLive
<1>2. CASE ColdStart
  <2>1. OpenOrders' = {}
    BY <1>2 DEF ColdStart, IsColdStart, ListsAllLive, OpenOrders, Live
  <2>. QED
    BY <2>1 DEF KnowsLive
<1>3. CASE WarmStart
  <2>. SUFFICES ASSUME NEW i \in OrderId, Live(i)' PROVE KnowsOf(i)'
    BY DEF KnowsLive, OpenOrders
  <2>1. book' = book /\ pairs' = pairs /\ Live(i) /\ i \in DOMAIN listed
    BY <1>3 DEF WarmStart, ListsAllLive, OpenOrders, Live
  <2>2. IsOpen(i) \/ IsClose(i)
    BY <2>1, SidesDiffer DEF Live, LiveStatus, IInv, TypeOK,
       ExchangeTypeOK, Entry, NoOrder, Side, IsOpen, IsClose, Used, OpenSide, CloseSide
  <2>3. IsOpen(i) => i \in RestoredOpens
    BY <2>1 DEF IsOpen, RestoredOpens
  <2>4. IsClose(i) => i \in RestoredCloses \/ i \notin DOMAIN pairs
    BY <2>1 DEF IsClose, RestoredCloses
  <2>5. DOMAIN orders' = RestoredOpens \cup RestoredCloses
    BY <1>3 DEF WarmStart
  <2>. QED
    BY <2>1, <2>2, <2>3, <2>4, <2>5 DEF KnowsOf, IsClose, Used
<1>. QED
  BY <1>1, <1>2, <1>3 DEF BootStep

(* Every order the bot places and hears of it tracks or is about to.       *)
LEMMA KnowsPlaceStep ==
  ASSUME IInv, KnowsLive, BookMove, Keeps, InitPlace \/ RetryPlace \/ RelistPlace \/ PlaceClose
  PROVE  KnowsLive'
<1>1. PICK i \in OrderId, side \in Side, l \in Int, answers \in OrderId \cup {None} :
        /\ PlaceOk(i, side, l, answers)
        /\ i \in DOMAIN orders' \/ (pc' = "closePlaced" /\ placed' = i)
  <2>1. /\ pc \in {"init", "retry"} /\ queue # {} => First(queue) \in Int
        /\ price.lv \in Int /\ CloseLevel(price.lv) \in Int /\ cur \in OrderId \cup {None}
    BY FirstIsMember, LevelTypes DEF IInv, TypeOK
  <2>2. CASE InitPlace \/ RetryPlace
    BY <2>1, <2>2, SidesDiffer DEF InitPlace, RetryPlace, With
  <2>3. CASE RelistPlace
    BY <2>1, <2>3, SidesDiffer DEF RelistPlace, With
  <2>4. CASE PlaceClose
    BY <2>1, <2>4, SidesDiffer DEF PlaceClose
  <2>. QED
    BY <2>2, <2>3, <2>4
<1>2. /\ DOMAIN orders \subseteq DOMAIN orders' /\ pairs' = pairs
      /\ pc \in (Running \cup {"init"}) \ {"closePlaced"}
  BY DEF InitPlace, RetryPlace, RelistPlace, PlaceClose, With, memory, Running
<1>. SUFFICES ASSUME NEW j \in OrderId, Live(j)' PROVE KnowsOf(j)'
  BY DEF KnowsLive, OpenOrders
<1>3. CASE j = i
  BY <1>1, <1>3 DEF KnowsOf
<1>4. CASE j # i
  <2>1. book'[j] = book[j]
    BY <1>1, <1>4, NewOrderStep DEF IInv, TypeOK, ExchangeTypeOK
  <2>2. KnowsOf(j)
    BY <1>2, <2>1 DEF KnowsLive, OpenOrders, Live
  <2>. QED
    BY <1>2, <2>1, <2>2 DEF KnowsOf, IsClose, Used
<1>. QED
  BY <1>3, <1>4

(* OnOrderUpdate forgets only what is no longer live.                      *)
LEMMA KnowsSeeStep ==
  ASSUME IInv, KnowsLive, BookMove, Keeps, NEW i \in OrderId, See(i)
  PROVE  KnowsLive'
<1>. USE DEF Running
<1>1. pc = "poll" /\ book' = book
  BY DEF See, SeeNothing, SeeProgress, SeeOpenFilled, SeeCloseFilled, SeeCanceled
<1>2. \A j \in DOMAIN pairs' : j \in DOMAIN pairs
  BY DEF See, SeeNothing, SeeProgress, SeeOpenFilled, SeeCloseFilled, SeeCanceled,
     Save, Without, memory
<1>3. \A j \in DOMAIN orders : j \in DOMAIN orders' \/ ~Live(j)
  <2>1. CASE SeeNothing(i) \/ SeeProgress(i)
    BY <2>1 DEF SeeNothing, SeeProgress, memory
  <2>2. CASE SeeOpenFilled(i) \/ SeeCloseFilled(i) \/ SeeCanceled(i)
    BY <2>2 DEF SeeOpenFilled, SeeCloseFilled, SeeCanceled, AnswersFill, Without, Live, LiveStatus
  <2>. QED
    BY <2>1, <2>2 DEF See
<1>. QED
  BY <1>1, <1>2, <1>3, KnowsFrame

(* Every step keeps the live orders known.                                 *)
LEMMA KnowsStep ==
  ASSUME "lost" \notin Env
  PROVE  IInv /\ FilledWhenDone /\ ListsAllLive /\ KnowsLive /\ [Next]_vars => KnowsLive'
<1>. SUFFICES ASSUME IInv, FilledWhenDone, ListsAllLive, KnowsLive, [Next]_vars PROVE KnowsLive'
  OBVIOUS
<1>1. BookMove /\ Keeps
  BY StepMovesBook, MoveKeeps
<1>. DEFINE Up == Running \cup {"init"}
<1>2. ASSUME pc' \in Up => pc \in Up, UNCHANGED <<orders, pairs>>,
             \A i \in OrderId : Used(i)' => Used(i),
             pc = "closePlaced" => pc' = "closePlaced" /\ placed' = placed
      PROVE  KnowsLive'
  BY <1>1, <1>2, KnowsFrame DEF KnowsLive
<1>3. CASE BootStep
  BY <1>3, KnowsBootStep
<1>4. CASE MonitorStep
  BY <1>2, <1>4 DEF MonitorStep, Tick, BeginPoll, BeginRetry, EndTick, memory, Running, Used
<1>5. CASE StrategyStep
  <2>1. CASE InitPlace \/ RetryPlace \/ RelistPlace \/ PlaceClose
    BY <1>1, <2>1, KnowsPlaceStep
  <2>2. CASE \E i \in OrderId : See(i)
    BY <1>1, <2>2, KnowsSeeStep
  <2>3. CASE InitAbort
    BY <2>3 DEF InitAbort, Forget, KnowsLive, Running
  <2>4. CASE InitPutOff \/ InitDone \/ RetryFail \/ RetryDone
    BY <1>2, <2>4 DEF InitPutOff, InitDone, RetryFail, RetryDone, PlaceErr, memory, Running, Used
  <2>5. CASE RelistFail \/ PlaceCloseFail
    BY <1>2, <2>5 DEF RelistFail, PlaceCloseFail, PlaceErr, memory, Running, Used
  <2>6. CASE RecordClose
    BY <1>1, <2>6, KnowsFrame DEF RecordClose, With, Save, Running
  <2>7. CASE Halt \/ HaltDone \/ Resume \/ ResumeNext \/ ResumeDone
    BY <1>2, <2>7 DEF Halt, HaltDone, Resume, ResumeNext, ResumeDone, memory, Running, Used
  <2>8. CASE \E i \in OrderId : HaltCancel(i)
    <3>1. \A j \in OrderId : Used(j)' => Used(j)
      BY <2>8 DEF HaltCancel, Live, LiveStatus, Used, IInv, TypeOK, ExchangeTypeOK
    <3>. QED
      BY <1>2, <2>8, <3>1 DEF HaltCancel, Running
  <2>. QED
    BY <1>5, <2>1, <2>2, <2>3, <2>4, <2>5, <2>6, <2>7, <2>8 DEF StrategyStep
<1>6. CASE ExchangeStep \/ UNCHANGED vars
  <2>1. \A i \in OrderId : Used(i)' => Used(i)
    BY <1>6 DEF ExchangeStep, vars, Trade, Withdraw, Used, Live, LiveStatus, IInv, TypeOK,
       ExchangeTypeOK
  <2>. QED
    BY <1>2, <1>6, <2>1 DEF ExchangeStep, vars, memory, control
<1>7. CASE Crash
  BY <1>7 DEF Crash, Forget, KnowsLive, Running
<1>. QED
  BY <1>3, <1>4, <1>5, <1>6, <1>7 DEF Next, BotStep

(* A running bot tracks every live order, but for the close order it is    *)
(* about to record and one whose pairing a crash kept from the file        *)
(* (RestoreMonitoredOrders, HaltForHedging, OnOrderUpdate): even while the *)
(* risk manager halts and resumes the grid, as long as replies arrive.     *)
THEOREM NoGhosts ==
  ASSUME "lost" \notin Env
  PROVE  Spec => []NoGhostOrders
<1>1. Init => PricesKnown /\ BootsWell /\ KnowsLive
  BY LInvInit DEF LInv, Init, KnowsLive, Running
<1>2. IInv /\ PricesKnown /\ [Next]_vars => PricesKnown'
  BY PricesStep
<1>3. IInv /\ BootsWell /\ [Next]_vars => BootsWell'
  BY BootsWellStep
<1>4. IInv /\ PricesKnown /\ BootsWell /\ KnowsLive /\ [Next]_vars => KnowsLive'
  BY KnowsStep DEF PricesKnown, BootsWell
<1>5. KnowsLive => NoGhostOrders
  BY DEF KnowsLive, KnowsOf, NoGhostOrders
<1>. QED
  BY <1>1, <1>2, <1>3, <1>4, <1>5, IInvAlways, PTL DEF Spec
=============================================================================
