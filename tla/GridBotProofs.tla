--------------------------- MODULE GridBotProofs ---------------------------
(***************************************************************************)
(* GridBot's safety for every grid, every number of orders and every       *)
(* environment.                                                            *)
(***************************************************************************)
EXTENDS GridBot, FiniteSetTheorems, WellFoundedInduction, TLAPS

(* How the strategy's memory fits the exchange's book.                     *)

ExecMatchesStatus ==
  \A i \in OrderId :
    /\ Live(i) => book[i].exec < Lot
    /\ book[i].status = "FILLED" => book[i].exec = Lot

TracksRealOrders ==
  \A i \in DOMAIN orders :
    Used(i) /\ (orders[i].type = "OPEN" <=> book[i].side = OpenSide)

VisitsTracked == todo \subseteq DOMAIN orders

PlacedIsClose ==
  pc = "closePlaced" => placed \in OrderId /\ IsClose(placed)

ListsRealOrders ==
  /\ \A i \in DOMAIN listed : Used(i)
  /\ pc # "reconcile" => DOMAIN listed = {}

AnswersFilled ==
  pc \in {"placeClose", "closePlaced"} =>
    cur \in OrderId /\ IsOpen(cur) /\ book[cur].status = "FILLED"
    /\ cur \notin DOMAIN orders

BootsEmpty == pc \in Booting \ {"init"} => DOMAIN orders = {}

Shape ==
  /\ ExecMatchesStatus /\ TracksRealOrders /\ VisitsTracked
  /\ PlacedIsClose /\ ListsRealOrders /\ AnswersFilled
  /\ BootsEmpty

(* Which close order answers which open order.                             *)

Unanswered(i) == \A c \in OrderId : src[c] # i

SourcesAreCloses == \A c \in OrderId : src[c] # None => IsClose(c)

TrackedIsUnsettled ==
  \A i \in DOMAIN orders \cup DOMAIN listed : Unanswered(i) /\ booked[i] = 0

CurrentIsUnanswered ==
  /\ pc = "placeClose" => Unanswered(cur)
  /\ pc = "closePlaced" => booked[placed] = 0

Answered ==
  /\ SourcesAreCloses /\ CloseBacked /\ TradeBookedOnce
  /\ TrackedIsUnsettled /\ CurrentIsUnanswered

IInv == TypeOK /\ Shape /\ Answered

(* A non-empty set of levels has a smallest member.                        *)
LEMMA FirstIsMember ==
  ASSUME NEW S \in SUBSET Levels, S # {}
  PROVE  First(S) \in S
<1>. DEFINE R == {ss \in Nat \X Nat : ss[1] < ss[2]}
<1>1. S \subseteq Nat
  BY GridNumAssumption DEF Levels
<1>2. IsWellFoundedOn(R, Nat)
  BY NatLessThanWellFounded DEF OpToRel
<1>. HIDE DEF R
<1>3. PICK l \in S : \A m \in S : ~ (<<m, l>> \in R)
  BY <1>1, <1>2, WFMin
<1>4. \A m \in S : l <= m
  <2>. SUFFICES ASSUME NEW m \in S, m < l PROVE FALSE
    BY <1>1
  <2>1. m \in Nat /\ l \in Nat
    BY <1>1
  <2>2. <<m, l>> \in R
    BY <2>1 DEF R
  <2>. QED
    BY <2>2, <1>3
<1>. QED
  BY <1>4 DEF First

(* Open and close orders stand on opposite sides of the book.              *)
LEMMA SidesDiffer == OpenSide \in Side /\ CloseSide \in Side /\ OpenSide # CloseSide
BY DirectionAssumption DEF OpenSide, CloseSide, Side

(* The initial states are well-typed and have the invariant's shape.       *)
LEMMA TypeInit == Init => TypeOK /\ Shape
<1>. SUFFICES ASSUME Init PROVE TypeOK /\ Shape
  OBVIOUS
<1>. USE DEF Init, NoEntries
<1>1. ExchangeTypeOK
  BY DEF ExchangeInit, ExchangeTypeOK
<1>2. Maps(orders, OrderId, Order)
  BY DEF Maps
<1>3. Maps(pairs, OrderId, Price) /\ Maps(file, OrderId, Price)
  BY DEF Maps
<1>4. Maps(listed, OrderId, LiveStatus)
  BY DEF Maps
<1>5. price \in Price
  BY DEF Price, GridPrice
<1>6. invHalted \in BOOLEAN /\ sawFlat \in BOOLEAN
  OBVIOUS
<1>7. src \in [OrderId -> OrderId \cup {None}] /\ booked \in [OrderId -> Nat]
  OBVIOUS
<1>8. TypeOK
  BY <1>1, <1>2, <1>3, <1>4, <1>5, <1>6, <1>7, GridNumAssumption, MaxRetriesAssumption
     DEF TypeOK, Booting
<1>9. Shape
  BY DEF Shape, ExchangeInit, NoOrder, ExecMatchesStatus, TracksRealOrders,
     VisitsTracked, PlacedIsClose, ListsRealOrders, AnswersFilled, BootsEmpty,
     Live, LiveStatus
<1>. QED
  BY <1>8, <1>9

(* What any step does to the exchange's book: an order keeps its side and  *)
(* its level for ever, and a filled order never changes again.             *)
Evolves ==
  \A j \in OrderId : Used(j) =>
    /\ Used(j)' /\ book'[j].side = book[j].side /\ book'[j].level = book[j].level
    /\ book[j].status = "FILLED" => book'[j] = book[j]

BookOK == ExchangeTypeOK /\ ExecMatchesStatus

(* An accepted order takes a fresh id and changes no other order.          *)
LEMMA AcceptStep ==
  ASSUME BookOK, NEW i \in OrderId, NEW side \in Side, NEW level \in Int,
         Accept(i, side, level)
  PROVE  /\ BookOK' /\ Evolves
         /\ ~Used(i) /\ book' = [book EXCEPT ![i] = book'[i]]
         /\ book'[i].status = "NEW" /\ book'[i].side = side
BY LotAssumption DEF BookOK, ExchangeTypeOK, ExecMatchesStatus, Accept, Evolves,
   FreeIds, Used, Entry, NoOrder, OrderStatus, LiveStatus, FinalStatus, Live

(* A trade fills a live order by one lot and changes no other order.       *)
LEMMA TradeStep ==
  ASSUME BookOK, NEW i \in OrderId, Trade(i)
  PROVE  BookOK' /\ Evolves
<1>1. book[i] \in Entry /\ book[i].exec < Lot /\ book[i].status # "FILLED"
  BY DEF BookOK, ExchangeTypeOK, ExecMatchesStatus, Trade, Live, LiveStatus,
     NoOrder
<1>. DEFINE new == Traded(book[i])
<1>2. book' = [book EXCEPT ![i] = new]
  BY DEF Trade
<1>3. new \in Entry
  BY <1>1, LotAssumption DEF Traded, Entry, OrderStatus, LiveStatus, FinalStatus
<1>4. /\ new.side = book[i].side /\ new.level = book[i].level
      /\ new.status \in LiveStatus => new.exec < Lot
      /\ new.status = "FILLED" => new.exec = Lot
  BY <1>1, LotAssumption DEF Traded, Entry, LiveStatus
<1>. HIDE DEF new
<1>. QED
  BY <1>1, <1>2, <1>3, <1>4 DEF BookOK, ExchangeTypeOK, ExecMatchesStatus,
     Evolves, Used, Entry, OrderStatus, LiveStatus, FinalStatus, Live

(* A withdrawal ends a live order and keeps what it executed.              *)
LEMMA WithdrawStep ==
  ASSUME BookOK, NEW i \in OrderId, NEW s \in {"CANCELED", "EXPIRED"}, Withdraw(i, s)
  PROVE  BookOK' /\ Evolves
BY LotAssumption DEF BookOK, ExchangeTypeOK, ExecMatchesStatus, Withdraw,
   Evolves, Used, Entry, NoOrder, OrderStatus, LiveStatus, FinalStatus, Live

(* A step that leaves the book alone keeps its invariant.                  *)
LEMMA BookStutter == BookOK /\ book' = book => BookOK' /\ Evolves
BY DEF BookOK, ExchangeTypeOK, ExecMatchesStatus, Evolves, Used, Live

(* A placement that succeeds puts exactly one order in the book.           *)
LEMMA PlaceOkStep ==
  ASSUME TypeOK, Shape, NEW i \in OrderId, NEW side \in Side, NEW level \in Int,
         NEW answers \in OrderId \cup {None}, PlaceOk(i, side, level, answers)
  PROVE  /\ BookOK' /\ Evolves /\ src' \in [OrderId -> OrderId \cup {None}]
         /\ ~Used(i) /\ Used(i)' /\ book'[i].side = side
         /\ book' = [book EXCEPT ![i] = book'[i]]
<1>1. BookOK /\ Accept(i, side, level)
  BY DEF BookOK, TypeOK, Shape, PlaceOk
<1>2. src' \in [OrderId -> OrderId \cup {None}]
  BY DEF PlaceOk, TypeOK
<1>. QED
  BY <1>1, <1>2, AcceptStep DEF Used

(* A placement that fails leaves a sound book, order or no order.          *)
LEMMA PlaceErrStep ==
  ASSUME TypeOK, Shape, NEW side \in Side, NEW level \in Int, NEW refusals,
         NEW answers \in OrderId \cup {None}, PlaceErr(refusals, side, level, answers)
  PROVE  BookOK' /\ Evolves /\ src' \in [OrderId -> OrderId \cup {None}]
<1>1. CASE UNCHANGED <<book, src>>
  BY <1>1, BookStutter DEF BookOK, TypeOK, Shape
<1>2. CASE \E i \in OrderId : PlaceOk(i, side, level, answers)
  BY <1>2, PlaceOkStep
<1>. QED
  BY <1>1, <1>2 DEF PlaceErr

(* Adding an entry to a well-typed map keeps it well-typed.                *)
LEMMA WithMaps ==
  ASSUME NEW S, NEW T, NEW f, Maps(f, S, T), NEW k \in S, NEW v \in T
  PROVE  Maps(With(f, k, v), S, T)
BY DEF Maps, With

(* Removing an entry from a well-typed map keeps it well-typed.            *)
LEMMA WithoutMaps ==
  ASSUME NEW S, NEW T, NEW f, Maps(f, S, T), NEW k
  PROVE  Maps(Without(f, k), S, T)
BY DEF Maps, Without

(* The price of a level is a price, formatted by either writer.            *)
LEMMA GridPriceType == \A l \in Int : GridPrice(l) \in Price /\ ReadPrice(l) \in Price
BY DEF GridPrice, ReadPrice, Price

(* What each formatter yields is a price string.                           *)
LEMMA PriceStrType ==
  /\ NoStr \in PriceStr
  /\ \A l \in Int : FixedStr(l) \in PriceStr
  /\ \A p \in Price : ShortStr(p) \in PriceStr
BY DEF NoStr, FixedStr, ShortStr, PriceStr, Price

(* A freshly tracked order is well-typed.                                  *)
LEMMA NewOrderType ==
  ASSUME NEW type \in {"OPEN", "CLOSE"}, NEW p \in Price
  PROVE  NewOrder(type, p) \in Order
BY PriceStrType DEF NewOrder, Order, OrderStatus, LiveStatus

(* Grid levels, and the level next to one, are integers.                   *)
LEMMA LevelTypes ==
  /\ Levels \subseteq Int
  /\ \A p \in Price : p.lv \in Int /\ CloseLevel(p.lv) \in Int
BY GridNumAssumption DEF Levels, Price, CloseLevel

(* What a warm start rebuilds from the list and file is well-typed.        *)
LEMMA RestoredOrderType ==
  ASSUME TypeOK, Shape, NEW i \in RestoredOpens \cup RestoredCloses
  PROVE  RestoredOrder(i) \in Order /\ i \in OrderId
<1>1. i \in OrderId /\ listed[i] \in OrderStatus /\ book[i] \in Entry
  BY DEF RestoredOpens, RestoredCloses, TypeOK, Maps, OrderStatus, Shape,
     ListsRealOrders, ExchangeTypeOK, NoOrder, Used
<1>2. book[i].level \in Int
  BY <1>1 DEF Entry
<1>3. i \notin RestoredOpens => pairs[i] \in Price
  BY DEF RestoredCloses, TypeOK, Maps
<1>. QED
  BY <1>1, <1>2, <1>3, GridPriceType, PriceStrType DEF RestoredOrder, Order

(* An order that is not filled was neither answered nor booked.            *)
LEMMA UnfilledIsUnsettled ==
  ASSUME TypeOK, Answered, NEW i \in OrderId, book[i].status # "FILLED"
  PROVE  Unanswered(i) /\ booked[i] = 0
<1>1. Unanswered(i)
  BY NoneAssumption DEF Answered, SourcesAreCloses, CloseBacked, Unanswered
<1>2. booked[i] = 0
  BY DEF TypeOK, Answered, TradeBookedOnce
<1>. QED
  BY <1>1, <1>2

(* Close orders are answers and have no answer of their own.               *)
LEMMA CloseIsUnanswered ==
  ASSUME TypeOK, Answered, NEW i \in OrderId, IsClose(i)
  PROVE  Unanswered(i)
BY NoneAssumption, SidesDiffer DEF Answered, SourcesAreCloses, CloseBacked,
   Unanswered, IsOpen, IsClose

(* Steps that place no close order and book no trade keep the invariant    *)
(* when what they start to track was tracked before, is not filled, or is  *)
(* the close order just placed.                                            *)
LEMMA AnsweredFrame ==
  ASSUME IInv, TypeOK', Evolves, src' = src, booked' = booked,
         \A i \in DOMAIN orders' \cup DOMAIN listed' :
            \/ i \in DOMAIN orders \cup DOMAIN listed
            \/ book[i].status # "FILLED"
            \/ pc = "closePlaced" /\ i = placed,
         pc' = "placeClose" => pc = "placeClose" /\ cur' = cur,
         pc' = "closePlaced" => pc = "closePlaced" /\ placed' = placed,
         \A i \in OrderId : ~Used(i) /\ Used(i)' => book'[i].side = OpenSide
  PROVE  Answered'
<1>. USE DEF IInv
<1>1. \A i \in OrderId : IsClose(i) <=> IsClose(i)'
  BY SidesDiffer DEF IsClose, Evolves, Used
<1>2. \A i \in OrderId : IsOpen(i) => IsOpen(i)'
  BY DEF IsOpen, Evolves, Used
<1>3. SourcesAreCloses'
  BY <1>1 DEF Answered, SourcesAreCloses
<1>4. CloseBacked'
  BY <1>1, <1>2 DEF Answered, CloseBacked, Evolves, IsOpen
<1>5. TradeBookedOnce'
  BY DEF Answered, TradeBookedOnce, Evolves, Used
<1>6. TrackedIsUnsettled'
  <2>. SUFFICES ASSUME NEW i \in DOMAIN orders' \cup DOMAIN listed'
                PROVE  Unanswered(i) /\ booked[i] = 0
    BY DEF TrackedIsUnsettled, Unanswered
  <2>1. i \in OrderId
    BY DEF TypeOK, Maps
  <2>2. CASE i \in DOMAIN orders \cup DOMAIN listed
    BY <2>2 DEF Answered, TrackedIsUnsettled
  <2>3. CASE book[i].status # "FILLED"
    BY <2>1, <2>3, UnfilledIsUnsettled
  <2>4. CASE pc = "closePlaced" /\ i = placed
    BY <2>1, <2>4, CloseIsUnanswered DEF Answered, CurrentIsUnanswered, Shape,
       PlacedIsClose
  <2>. QED
    BY <2>2, <2>3, <2>4
<1>7. CurrentIsUnanswered'
  BY DEF Answered, CurrentIsUnanswered, Unanswered
<1>. QED
  BY <1>3, <1>4, <1>5, <1>6, <1>7 DEF Answered

(* A failed open placement can add no close order.                         *)
LEMMA PlaceErrOpen ==
  ASSUME IInv, NEW level \in Int, NEW refusals, PlaceErr(refusals, OpenSide, level, None)
  PROVE  /\ src' = src
         /\ \A j \in OrderId : ~Used(j) /\ Used(j)' => book'[j].side = OpenSide
<1>1. CASE UNCHANGED <<book, src>>
  BY <1>1 DEF Used
<1>2. CASE \E i \in OrderId : PlaceOk(i, OpenSide, level, None)
  <2>1. PICK i \in OrderId : PlaceOk(i, OpenSide, level, None)
    BY <1>2
  <2>2. BookOK /\ Accept(i, OpenSide, level)
    BY <2>1 DEF PlaceOk, IInv, TypeOK, Shape, BookOK
  <2>3. ~Used(i) /\ book' = [book EXCEPT ![i] = book'[i]] /\ book'[i].side = OpenSide
    BY <2>2, SidesDiffer, AcceptStep
  <2>4. src' = src
    BY <2>1, <2>3 DEF PlaceOk, IInv, Answered, SourcesAreCloses, IsClose, TypeOK
  <2>. QED
    BY <2>3, <2>4 DEF Used, IInv, TypeOK, ExchangeTypeOK
<1>. QED
  BY <1>1, <1>2 DEF PlaceErr

(* Placing the paired close answers the filled order just taken off.       *)
LEMMA CloseAccepted ==
  ASSUME IInv, TypeOK', pc = "placeClose", NEW i \in OrderId, NEW level \in Int,
         PlaceOk(i, CloseSide, level, cur), UNCHANGED <<orders, listed, booked>>,
         pc' # "placeClose", pc' = "closePlaced" => placed' = i
  PROVE  Answered'
<1>. USE DEF IInv
<1>1. /\ cur \in OrderId /\ IsOpen(cur) /\ book[cur].status = "FILLED" /\ Unanswered(cur)
      /\ cur \notin DOMAIN orders /\ DOMAIN listed = {}
  BY DEF Shape, AnswersFilled, ListsRealOrders, Answered, CurrentIsUnanswered
<1>2. /\ Evolves /\ ~Used(i) /\ Used(i)' /\ book'[i].side = CloseSide
      /\ book' = [book EXCEPT ![i] = book'[i]]
  BY <1>1, SidesDiffer, PlaceOkStep
<1>3. src' = [src EXCEPT ![i] = cur]
  BY DEF PlaceOk
<1>4. \A c \in OrderId : c # i => (IsClose(c)' <=> IsClose(c)) /\ src'[c] = src[c]
  BY <1>2, <1>3 DEF IsClose, Used, TypeOK, ExchangeTypeOK
<1>5. IsClose(i)' /\ src'[i] = cur
  BY <1>2, <1>3 DEF IsClose, TypeOK
<1>6. \A o \in OrderId : IsOpen(o) /\ book[o].status = "FILLED"
                         => IsOpen(o)' /\ book'[o].status = "FILLED"
  BY <1>2 DEF Evolves, IsOpen
<1>7. SourcesAreCloses'
  BY <1>4, <1>5 DEF Answered, SourcesAreCloses
<1>8. CloseBacked'
  BY <1>1, <1>4, <1>5, <1>6 DEF Answered, CloseBacked, Unanswered
<1>9. TradeBookedOnce'
  BY <1>2 DEF Answered, TradeBookedOnce, Evolves, Used
<1>10. TrackedIsUnsettled'
  BY <1>1, <1>4, <1>5 DEF Answered, TrackedIsUnsettled, Unanswered
<1>11. CurrentIsUnanswered'
  BY <1>2, UnfilledIsUnsettled DEF CurrentIsUnanswered, Used
<1>. QED
  BY <1>7, <1>8, <1>9, <1>10, <1>11 DEF Answered

(* Booking a filled order happens as it leaves the tracked orders.         *)
LEMMA BookedTrade ==
  ASSUME IInv, TypeOK', pc = "poll", NEW i \in DOMAIN orders, i \in OrderId,
         book[i].status = "FILLED", Book(i), orders' = Without(orders, i),
         UNCHANGED <<book, src, listed>>,
         pc' # "closePlaced", pc' = "placeClose" => cur' = i
  PROVE  Answered'
<1>. USE DEF IInv
<1>1. DOMAIN orders' = DOMAIN orders \ {i} /\ DOMAIN listed' = {}
  BY DEF Without, Shape, ListsRealOrders
<1>2. Unanswered(i) /\ booked[i] = 0
  BY DEF Answered, TrackedIsUnsettled
<1>3. booked' = [booked EXCEPT ![i] = 1]
  BY <1>2 DEF Book, TypeOK
<1>4. SourcesAreCloses' /\ CloseBacked'
  BY DEF Answered, SourcesAreCloses, CloseBacked, IsClose, IsOpen, Used
<1>5. TradeBookedOnce'
  BY <1>3 DEF Answered, TradeBookedOnce, TypeOK
<1>6. TrackedIsUnsettled'
  BY <1>1, <1>3 DEF Answered, TrackedIsUnsettled, Unanswered, TypeOK, Maps
<1>7. CurrentIsUnanswered'
  BY <1>2 DEF CurrentIsUnanswered, Unanswered
<1>. QED
  BY <1>4, <1>5, <1>6, <1>7 DEF Answered

(* A warm start tracks live orders only: nothing filled comes back.        *)
LEMMA WarmStartStep ==
  ASSUME IInv, WarmStart
  PROVE  IInv'
<1>. USE DEF IInv
<1>1. BookOK' /\ Evolves
  BY BookStutter DEF WarmStart, TypeOK, Shape, BookOK
<1>2. Maps(orders', OrderId, Order)
  BY RestoredOrderType DEF WarmStart, Maps
<1>3. active' \subseteq PriceStr
  BY PriceStrType DEF WarmStart, RestoredCloses, TypeOK, Maps
<1>4. TypeOK'
  BY <1>1, <1>2, <1>3 DEF WarmStart, TypeOK, BookOK, Maps, NoEntries, history,
     Running
<1>5. /\ DOMAIN orders' = RestoredOpens \cup RestoredCloses
      /\ \A i \in DOMAIN orders' : orders'[i].type = IF i \in RestoredOpens THEN "OPEN" ELSE "CLOSE"
  BY DEF WarmStart, RestoredOrder
<1>6. TracksRealOrders'
  BY <1>1, <1>5, SidesDiffer DEF TracksRealOrders, RestoredOpens,
     RestoredCloses, Shape, ListsRealOrders, WarmStart, Used
<1>7. DOMAIN listed' = {} /\ pc' = "idle"
  BY DEF WarmStart, NoEntries
<1>8. todo' = {}
  BY DEF WarmStart, Shape, VisitsTracked, BootsEmpty, Booting
<1>9. Shape'
  BY <1>1, <1>4, <1>6, <1>7, <1>8 DEF BookOK, Shape, VisitsTracked,
     PlacedIsClose, ListsRealOrders, AnswersFilled, BootsEmpty, Booting
<1>10. Answered'
  BY <1>1, <1>4, AnsweredFrame DEF WarmStart, history, NoEntries, LiveStatus,
     Used, TypeOK, Maps, RestoredOpens, RestoredCloses
<1>. QED
  BY <1>4, <1>9, <1>10

(* placePairedCloseOrder records the close order it has placed.            *)
LEMMA RecordCloseStep ==
  ASSUME IInv, RecordClose, UNCHANGED <<sawFlat, listed>>
  PROVE  IInv'
<1>. USE DEF IInv
<1>1. BookOK' /\ Evolves
  BY BookStutter DEF RecordClose, TypeOK, Shape, BookOK
<1>2. placed \in OrderId /\ IsClose(placed) /\ price \in Price
  BY DEF RecordClose, Shape, PlacedIsClose, TypeOK
<1>3. Maps(orders', OrderId, Order)
  BY <1>2, WithMaps, NewOrderType DEF RecordClose, TypeOK
<1>4. Maps(pairs', OrderId, Price) /\ Maps(file', OrderId, Price)
  BY <1>2, WithMaps DEF RecordClose, TypeOK, Save
<1>5. TypeOK'
  BY <1>1, <1>3, <1>4, GridPriceType, MaxRetriesAssumption DEF RecordClose,
     TypeOK, BookOK, NoLocals, history, Running
<1>6. Shape'
  BY <1>1, <1>2, SidesDiffer DEF RecordClose, Shape, ExecMatchesStatus,
     TracksRealOrders, VisitsTracked, PlacedIsClose, ListsRealOrders,
     AnswersFilled, BootsEmpty, Evolves, BookOK, IsOpen, IsClose, NoLocals,
     With, NewOrder, Used, TypeOK, Maps, history, Booting
<1>7. Answered'
  BY <1>1, <1>5, AnsweredFrame DEF RecordClose, history, NoLocals, With,
     LiveStatus, Used, TypeOK, Maps
<1>. QED
  BY <1>5, <1>6, <1>7

(* A step that leaves the exchange, the tracked orders and the history     *)
(* alone keeps the invariant unless it starts to answer a fill.            *)
LEMMA QuietStep ==
  ASSUME IInv, TypeOK', UNCHANGED <<book, orders, src, booked>>,
         todo' \subseteq DOMAIN orders, DOMAIN listed' = {},
         pc' \notin {"placeClose", "closePlaced"},
         pc' \in Booting \ {"init"} => pc \in Booting \ {"init"}
  PROVE  IInv'
<1>. USE DEF IInv
<1>1. Shape'
  BY DEF Shape, ExecMatchesStatus, TracksRealOrders, VisitsTracked,
     PlacedIsClose, ListsRealOrders, AnswersFilled, BootsEmpty, Used, Live
<1>2. Answered'
  BY DEF Answered, SourcesAreCloses, CloseBacked, TradeBookedOnce,
     TrackedIsUnsettled, CurrentIsUnanswered, IsOpen, IsClose, Used, Unanswered
<1>. QED
  BY <1>1, <1>2

(* ResumeTrading's loop only chooses the next level to relist.             *)
LEMMA ResumeNextStep ==
  ASSUME IInv, ResumeNext, UNCHANGED <<sawFlat, listed>>
  PROVE  IInv'
<1>. USE DEF IInv
<1>1. First(queue) \in Int
  BY FirstIsMember, LevelTypes DEF ResumeNext, TypeOK
<1>2. TypeOK'
  BY <1>1, GridPriceType, MaxRetriesAssumption DEF ResumeNext, CallRelist,
     NoLocals, TypeOK, ExchangeTypeOK, memory, history, Running
<1>3. todo' \subseteq DOMAIN orders /\ DOMAIN listed' = {}
  BY DEF ResumeNext, Shape, VisitsTracked, ListsRealOrders, memory
<1>. QED
  BY <1>2, <1>3, QuietStep DEF ResumeNext, memory, history, Booting, CallRelist,
     NoLocals

(* Reading the position at start only opens the state file.                *)
LEMMA BootPositionStep ==
  ASSUME IInv, BootPosition
  PROVE  IInv'
<1>. USE DEF IInv
<1>1. TypeOK'
  BY DEF BootPosition, TypeOK, ExchangeTypeOK, memory, history, Maps, Running,
     Booting
<1>2. todo' \subseteq DOMAIN orders /\ DOMAIN listed' = {}
  BY DEF BootPosition, Shape, VisitsTracked, ListsRealOrders, memory
<1>. QED
  BY <1>1, <1>2, QuietStep DEF BootPosition, memory, history, Booting

(* Reading the open orders at start only removes or loads the file.        *)
LEMMA BootOrdersStep ==
  ASSUME IInv, BootOrders
  PROVE  IInv'
<1>. USE DEF IInv
<1>1. TypeOK'
  BY DEF BootOrders, TypeOK, ExchangeTypeOK, history, Maps, Running, Booting,
     NoEntries
<1>2. todo' \subseteq DOMAIN orders /\ DOMAIN listed' = {}
  BY DEF BootOrders, Shape, VisitsTracked, ListsRealOrders, NoEntries
<1>. QED
  BY <1>1, <1>2, QuietStep DEF BootOrders, history, Booting

(* Reconciling lists live orders, which nothing has answered.              *)
LEMMA ReconcileOrdersStep ==
  ASSUME IInv, ReconcileOrders
  PROVE  IInv'
<1>. USE DEF IInv
<1>1. BookOK' /\ Evolves
  BY BookStutter DEF ReconcileOrders, TypeOK, Shape, BookOK
<1>2. TypeOK'
  BY <1>1 DEF ReconcileOrders, TypeOK, BookOK, ExchangeTypeOK, memory, history,
     Maps, Running, Booting, OpenOrders, Live, LiveStatus
<1>3. Shape'
  BY <1>1 DEF ReconcileOrders, TypeOK, Used, Shape, ExecMatchesStatus,
     TracksRealOrders, VisitsTracked, PlacedIsClose, ListsRealOrders,
     AnswersFilled, BootsEmpty, Evolves, BookOK, IsOpen, IsClose, memory,
     history, Maps, Running, Booting, OpenOrders, Live, LiveStatus
<1>4. Answered'
  BY <1>1, <1>2, AnsweredFrame DEF ReconcileOrders, memory, history, Live,
     LiveStatus, Used, TypeOK, Maps, OpenOrders, Live, LiveStatus
<1>. QED
  BY <1>2, <1>3, <1>4

(* A cold start tracks nothing yet and goes on to InitOrders.              *)
LEMMA ColdStartStep ==
  ASSUME IInv, ColdStart
  PROVE  IInv'
<1>. USE DEF IInv
<1>1. TypeOK'
  BY DEF ColdStart, TypeOK, ExchangeTypeOK, memory, history, Maps, Running,
     Booting, NoEntries
<1>2. todo' \subseteq DOMAIN orders /\ DOMAIN listed' = {}
  BY DEF ColdStart, Shape, VisitsTracked, ListsRealOrders, NoEntries, memory
<1>. QED
  BY <1>1, <1>2, QuietStep DEF ColdStart, memory, history, Booting

(* A tick of the monitor only decides what to do next.                     *)
LEMMA TickStep ==
  ASSUME IInv, Tick
  PROVE  IInv'
<1>. USE DEF IInv
<1>1. TypeOK'
  BY DEF Tick, TypeOK, ExchangeTypeOK, history, Maps, Running, Booting,
     InvestmentVerdict
<1>2. todo' \subseteq DOMAIN orders /\ DOMAIN listed' = {}
  BY DEF Tick, Shape, VisitsTracked, ListsRealOrders
<1>. QED
  BY <1>1, <1>2, QuietStep DEF Tick, history, Booting

(* Polling visits the orders tracked when it begins.                       *)
LEMMA BeginPollStep ==
  ASSUME IInv, BeginPoll
  PROVE  IInv'
<1>. USE DEF IInv
<1>1. TypeOK'
  BY DEF BeginPoll, TypeOK, ExchangeTypeOK, memory, history, Maps, Running,
     Booting, Monitored
<1>2. todo' \subseteq DOMAIN orders /\ DOMAIN listed' = {}
  BY DEF BeginPoll, Shape, VisitsTracked, ListsRealOrders, Monitored, memory
<1>. QED
  BY <1>1, <1>2, QuietStep DEF BeginPoll, memory, history, Booting

(* Retrying visits the levels put off, not the orders.                     *)
LEMMA BeginRetryStep ==
  ASSUME IInv, BeginRetry
  PROVE  IInv'
<1>. USE DEF IInv
<1>1. TypeOK'
  BY DEF BeginRetry, TypeOK, ExchangeTypeOK, history, Maps, Running, Booting
<1>2. todo' \subseteq DOMAIN orders /\ DOMAIN listed' = {}
  BY DEF BeginRetry, Shape, VisitsTracked, ListsRealOrders
<1>. QED
  BY <1>1, <1>2, QuietStep DEF BeginRetry, history, Booting

(* The end of a tick forgets nothing.                                      *)
LEMMA EndTickStep ==
  ASSUME IInv, EndTick
  PROVE  IInv'
<1>. USE DEF IInv
<1>1. TypeOK'
  BY DEF EndTick, TypeOK, ExchangeTypeOK, memory, history, Maps, Running,
     Booting
<1>2. todo' \subseteq DOMAIN orders /\ DOMAIN listed' = {}
  BY DEF EndTick, Shape, VisitsTracked, ListsRealOrders, memory
<1>. QED
  BY <1>1, <1>2, QuietStep DEF EndTick, memory, history, Booting

(* InitOrders puts a level off without touching an order.                  *)
LEMMA InitPutOffStep ==
  ASSUME IInv, InitPutOff, UNCHANGED <<sawFlat, listed>>
  PROVE  IInv'
<1>. USE DEF IInv
<1>1. TypeOK'
  BY FirstIsMember DEF InitPutOff, TypeOK, ExchangeTypeOK, history, Maps,
     Running, Booting
<1>2. todo' \subseteq DOMAIN orders /\ DOMAIN listed' = {}
  BY DEF InitPutOff, Shape, VisitsTracked, ListsRealOrders
<1>. QED
  BY <1>1, <1>2, QuietStep DEF InitPutOff, history, Booting

(* The end of InitOrders hands over to the monitor.                        *)
LEMMA InitDoneStep ==
  ASSUME IInv, InitDone, UNCHANGED <<sawFlat, listed>>
  PROVE  IInv'
<1>. USE DEF IInv
<1>1. TypeOK'
  BY DEF InitDone, TypeOK, ExchangeTypeOK, memory, history, Maps, Running,
     Booting
<1>2. todo' \subseteq DOMAIN orders /\ DOMAIN listed' = {}
  BY DEF InitDone, Shape, VisitsTracked, ListsRealOrders, memory
<1>. QED
  BY <1>1, <1>2, QuietStep DEF InitDone, memory, history, Booting

(* The end of a retry hands back to the monitor.                           *)
LEMMA RetryDoneStep ==
  ASSUME IInv, RetryDone, UNCHANGED <<sawFlat, listed>>
  PROVE  IInv'
<1>. USE DEF IInv
<1>1. TypeOK'
  BY DEF RetryDone, TypeOK, ExchangeTypeOK, memory, history, Maps, Running,
     Booting
<1>2. todo' \subseteq DOMAIN orders /\ DOMAIN listed' = {}
  BY DEF RetryDone, Shape, VisitsTracked, ListsRealOrders, memory
<1>. QED
  BY <1>1, <1>2, QuietStep DEF RetryDone, memory, history, Booting

(* HaltForHedging begins by marking the grid halted.                       *)
LEMMA HaltStep ==
  ASSUME IInv, Halt, UNCHANGED <<sawFlat, listed>>
  PROVE  IInv'
<1>. USE DEF IInv
<1>1. TypeOK'
  BY DEF Halt, TypeOK, ExchangeTypeOK, history, Maps, Running, Booting,
     OrdersToCancel
<1>2. todo' \subseteq DOMAIN orders /\ DOMAIN listed' = {}
  BY DEF Halt, Shape, VisitsTracked, ListsRealOrders, OrdersToCancel
<1>. QED
  BY <1>1, <1>2, QuietStep DEF Halt, history, Booting

(* HaltForHedging ends when it has asked for every cancellation.           *)
LEMMA HaltDoneStep ==
  ASSUME IInv, HaltDone, UNCHANGED <<sawFlat, listed>>
  PROVE  IInv'
<1>. USE DEF IInv
<1>1. TypeOK'
  BY DEF HaltDone, TypeOK, ExchangeTypeOK, memory, history, Maps, Running,
     Booting
<1>2. todo' \subseteq DOMAIN orders /\ DOMAIN listed' = {}
  BY DEF HaltDone, Shape, VisitsTracked, ListsRealOrders, memory
<1>. QED
  BY <1>1, <1>2, QuietStep DEF HaltDone, memory, history, Booting

(* ResumeTrading begins by marking the grid trading.                       *)
LEMMA ResumeStep ==
  ASSUME IInv, Resume, UNCHANGED <<sawFlat, listed>>
  PROVE  IInv'
<1>. USE DEF IInv
<1>1. TypeOK'
  BY DEF Resume, TypeOK, ExchangeTypeOK, history, Maps, Running, Booting,
     FreeLevels
<1>2. todo' \subseteq DOMAIN orders /\ DOMAIN listed' = {}
  BY DEF Resume, Shape, VisitsTracked, ListsRealOrders
<1>. QED
  BY <1>1, <1>2, QuietStep DEF Resume, history, Booting

(* ResumeTrading ends when no free level is left.                          *)
LEMMA ResumeDoneStep ==
  ASSUME IInv, ResumeDone, UNCHANGED <<sawFlat, listed>>
  PROVE  IInv'
<1>. USE DEF IInv
<1>1. TypeOK'
  BY DEF ResumeDone, TypeOK, ExchangeTypeOK, memory, history, Maps, Running,
     Booting
<1>2. todo' \subseteq DOMAIN orders /\ DOMAIN listed' = {}
  BY DEF ResumeDone, Shape, VisitsTracked, ListsRealOrders, memory
<1>. QED
  BY <1>1, <1>2, QuietStep DEF ResumeDone, memory, history, Booting

(* InitOrders tracks the open order it has just placed.                    *)
LEMMA InitPlaceStep ==
  ASSUME IInv, InitPlace, UNCHANGED <<sawFlat, listed>>
  PROVE  IInv'
<1>. USE DEF IInv
<1>1. First(queue) \in Int /\ GridPrice(First(queue)) \in Price
  BY FirstIsMember, LevelTypes, GridPriceType DEF InitPlace, TypeOK
<1>2. PICK i \in OrderId :
        /\ PlaceOk(i, OpenSide, First(queue), None)
        /\ orders' = With(orders, i, NewOrder("OPEN", GridPrice(First(queue))))
  BY DEF InitPlace
<1>3. /\ BookOK' /\ Evolves /\ src' \in [OrderId -> OrderId \cup {None}]
      /\ ~Used(i) /\ Used(i)' /\ book'[i].side = OpenSide
      /\ book' = [book EXCEPT ![i] = book'[i]]
  BY <1>1, <1>2, SidesDiffer, PlaceOkStep
<1>4. Maps(orders', OrderId, Order)
  BY <1>1, <1>2, WithMaps, NewOrderType DEF TypeOK
<1>5. TypeOK'
  BY <1>3, <1>4, GridPriceType, MaxRetriesAssumption DEF InitPlace, TypeOK,
     BookOK, Running, Booting
<1>6. /\ DOMAIN orders' = DOMAIN orders \cup {i}
      /\ orders'[i].type = "OPEN"
      /\ \A j \in DOMAIN orders : j # i => orders'[j] = orders[j]
  BY <1>2 DEF With, NewOrder
<1>7. TracksRealOrders'
  BY <1>3, <1>6 DEF TracksRealOrders, Shape, Evolves, TypeOK, Maps
<1>8. Shape'
  BY <1>3, <1>6, <1>7 DEF InitPlace, TypeOK, Maps, Used, Booting, Shape,
     ExecMatchesStatus, VisitsTracked, PlacedIsClose, ListsRealOrders,
     AnswersFilled, BootsEmpty, Evolves, BookOK, IsOpen, IsClose
<1>9. src' = src
  BY <1>2, <1>3 DEF PlaceOk, Answered, SourcesAreCloses, IsClose, TypeOK
<1>10. \A j \in OrderId : ~Used(j) /\ Used(j)' => book'[j].side = OpenSide
  BY <1>3 DEF Used, TypeOK, ExchangeTypeOK
<1>11. Answered'
  BY <1>3, <1>5, <1>6, <1>9, <1>10, AnsweredFrame DEF InitPlace, TypeOK, Maps,
     Used
<1>. QED
  BY <1>5, <1>8, <1>11

(* relistOpenOrder tracks the open order it has just placed.               *)
LEMMA RelistPlaceStep ==
  ASSUME IInv, RelistPlace, UNCHANGED <<sawFlat, listed>>
  PROVE  IInv'
<1>. USE DEF IInv
<1>1. price.lv \in Int /\ price \in Price
  BY FirstIsMember, LevelTypes, GridPriceType DEF RelistPlace, TypeOK
<1>2. PICK i \in OrderId :
        /\ PlaceOk(i, OpenSide, price.lv, None)
        /\ orders' = With(orders, i, NewOrder("OPEN", price))
  BY DEF RelistPlace
<1>3. /\ BookOK' /\ Evolves /\ src' \in [OrderId -> OrderId \cup {None}]
      /\ ~Used(i) /\ Used(i)' /\ book'[i].side = OpenSide
      /\ book' = [book EXCEPT ![i] = book'[i]]
  BY <1>1, <1>2, SidesDiffer, PlaceOkStep
<1>4. Maps(orders', OrderId, Order)
  BY <1>1, <1>2, WithMaps, NewOrderType DEF TypeOK
<1>5. TypeOK'
  BY <1>3, <1>4, GridPriceType, MaxRetriesAssumption DEF RelistPlace, TypeOK,
     BookOK, NoLocals, Running, Booting
<1>6. /\ DOMAIN orders' = DOMAIN orders \cup {i}
      /\ orders'[i].type = "OPEN"
      /\ \A j \in DOMAIN orders : j # i => orders'[j] = orders[j]
  BY <1>2 DEF With, NewOrder
<1>7. TracksRealOrders'
  BY <1>3, <1>6 DEF TracksRealOrders, Shape, Evolves, TypeOK, Maps
<1>8. Shape'
  BY <1>3, <1>6, <1>7 DEF RelistPlace, TypeOK, Maps, NoLocals, Used, Booting,
     Shape, ExecMatchesStatus, VisitsTracked, PlacedIsClose, ListsRealOrders,
     AnswersFilled, BootsEmpty, Evolves, BookOK, IsOpen, IsClose
<1>9. src' = src
  BY <1>2, <1>3 DEF PlaceOk, Answered, SourcesAreCloses, IsClose, TypeOK
<1>10. \A j \in OrderId : ~Used(j) /\ Used(j)' => book'[j].side = OpenSide
  BY <1>3 DEF Used, TypeOK, ExchangeTypeOK
<1>11. Answered'
  BY <1>3, <1>5, <1>6, <1>9, <1>10, AnsweredFrame DEF RelistPlace, NoLocals,
     TypeOK, Maps, Used
<1>. QED
  BY <1>5, <1>8, <1>11

(* RetryPlacePendingOrders tracks the open order it has just placed.       *)
LEMMA RetryPlaceStep ==
  ASSUME IInv, RetryPlace, UNCHANGED <<sawFlat, listed>>
  PROVE  IInv'
<1>. USE DEF IInv
<1>1. First(queue) \in Int /\ GridPrice(First(queue)) \in Price
  BY FirstIsMember, LevelTypes, GridPriceType DEF RetryPlace, TypeOK
<1>2. PICK i \in OrderId :
        /\ PlaceOk(i, OpenSide, First(queue), None)
        /\ orders' = With(orders, i, NewOrder("OPEN", GridPrice(First(queue))))
  BY DEF RetryPlace
<1>3. /\ BookOK' /\ Evolves /\ src' \in [OrderId -> OrderId \cup {None}]
      /\ ~Used(i) /\ Used(i)' /\ book'[i].side = OpenSide
      /\ book' = [book EXCEPT ![i] = book'[i]]
  BY <1>1, <1>2, SidesDiffer, PlaceOkStep
<1>4. Maps(orders', OrderId, Order)
  BY <1>1, <1>2, WithMaps, NewOrderType DEF TypeOK
<1>5. TypeOK'
  BY <1>3, <1>4, GridPriceType, MaxRetriesAssumption DEF RetryPlace, TypeOK,
     BookOK, Running, Booting
<1>6. /\ DOMAIN orders' = DOMAIN orders \cup {i}
      /\ orders'[i].type = "OPEN"
      /\ \A j \in DOMAIN orders : j # i => orders'[j] = orders[j]
  BY <1>2 DEF With, NewOrder
<1>7. TracksRealOrders'
  BY <1>3, <1>6 DEF TracksRealOrders, Shape, Evolves, TypeOK, Maps
<1>8. Shape'
  BY <1>3, <1>6, <1>7 DEF RetryPlace, TypeOK, Maps, Used, Booting, Shape,
     ExecMatchesStatus, VisitsTracked, PlacedIsClose, ListsRealOrders,
     AnswersFilled, BootsEmpty, Evolves, BookOK, IsOpen, IsClose
<1>9. src' = src
  BY <1>2, <1>3 DEF PlaceOk, Answered, SourcesAreCloses, IsClose, TypeOK
<1>10. \A j \in OrderId : ~Used(j) /\ Used(j)' => book'[j].side = OpenSide
  BY <1>3 DEF Used, TypeOK, ExchangeTypeOK
<1>11. Answered'
  BY <1>3, <1>5, <1>6, <1>9, <1>10, AnsweredFrame DEF RetryPlace, TypeOK, Maps,
     Used
<1>. QED
  BY <1>5, <1>8, <1>11

(* placePairedCloseOrder answers the filled order, for the first time.     *)
LEMMA PlaceCloseStep ==
  ASSUME IInv, PlaceClose, UNCHANGED <<sawFlat, listed>>
  PROVE  IInv'
<1>. USE DEF IInv
<1>1. CloseLevel(price.lv) \in Int
  BY LevelTypes DEF TypeOK
<1>2. PICK i \in OrderId :
        PlaceOk(i, CloseSide, CloseLevel(price.lv), cur) /\ placed' = i
  BY DEF PlaceClose
<1>3. /\ BookOK' /\ Evolves /\ src' \in [OrderId -> OrderId \cup {None}]
      /\ ~Used(i) /\ Used(i)' /\ book'[i].side = CloseSide
  BY <1>1, <1>2, SidesDiffer, PlaceOkStep DEF TypeOK
<1>4. TypeOK'
  BY <1>2, <1>3 DEF PlaceClose, TypeOK, BookOK, memory, Running
<1>5. Shape'
  <2>1. ExecMatchesStatus' /\ BootsEmpty'
    BY <1>3 DEF PlaceClose, Shape, ExecMatchesStatus, BootsEmpty, Booting, BookOK
  <2>2. TracksRealOrders' /\ VisitsTracked' /\ ListsRealOrders'
    BY <1>2, <1>3 DEF PlaceClose, TypeOK, Maps, Used, memory, Shape,
       TracksRealOrders, VisitsTracked, ListsRealOrders, Evolves
  <2>3. PlacedIsClose' /\ AnswersFilled'
    BY <1>2, <1>3, SidesDiffer DEF PlaceClose, TypeOK, Used, memory, Shape,
       PlacedIsClose, AnswersFilled, Evolves, IsOpen, IsClose
  <2>. QED
    BY <2>1, <2>2, <2>3 DEF Shape
<1>6. Answered'
  BY <1>1, <1>2, <1>4, CloseAccepted DEF PlaceClose, memory
<1>. QED
  BY <1>4, <1>5, <1>6

(* A relist that fails leaves at most an order nobody tracks.              *)
LEMMA RelistFailStep ==
  ASSUME IInv, RelistFail, UNCHANGED <<sawFlat, listed>>
  PROVE  IInv'
<1>. USE DEF IInv
<1>1. price.lv \in Int
  BY FirstIsMember, LevelTypes DEF RelistFail, TypeOK
<1>2. BookOK' /\ Evolves /\ src' \in [OrderId -> OrderId \cup {None}]
  BY <1>1, SidesDiffer, PlaceErrStep DEF RelistFail, TypeOK
<1>3. TypeOK'
  BY <1>1, <1>2, GridPriceType, MaxRetriesAssumption DEF RelistFail,
     MayTryAgain, TypeOK, BookOK, NoLocals, memory, Maps, Running, Booting
<1>4. Shape'
  BY <1>2 DEF RelistFail, TypeOK, Maps, NoLocals, memory, Used, Booting, Shape,
     ExecMatchesStatus, TracksRealOrders, VisitsTracked, PlacedIsClose,
     ListsRealOrders, AnswersFilled, BootsEmpty, Evolves, BookOK, IsOpen,
     IsClose
<1>5. /\ src' = src
      /\ \A j \in OrderId : ~Used(j) /\ Used(j)' => book'[j].side = OpenSide
  BY <1>1, SidesDiffer, PlaceErrOpen DEF RelistFail
<1>6. Answered'
  BY <1>2, <1>3, <1>5, AnsweredFrame DEF RelistFail, NoLocals, memory, TypeOK
<1>. QED
  BY <1>3, <1>4, <1>6

(* A close that fails leaves the filled order answered at most once.       *)
LEMMA PlaceCloseFailStep ==
  ASSUME IInv, PlaceCloseFail, UNCHANGED <<sawFlat, listed>>
  PROVE  IInv'
<1>. USE DEF IInv
<1>1. CloseLevel(price.lv) \in Int
  BY FirstIsMember, LevelTypes DEF PlaceCloseFail, TypeOK
<1>2. BookOK' /\ Evolves /\ src' \in [OrderId -> OrderId \cup {None}]
  BY <1>1, SidesDiffer, PlaceErrStep DEF PlaceCloseFail, TypeOK
<1>3. TypeOK'
  BY <1>1, <1>2, GridPriceType, MaxRetriesAssumption DEF PlaceCloseFail, TypeOK,
     BookOK, NoLocals, memory, Maps, Running, Booting
<1>4. Shape'
  BY <1>2 DEF PlaceCloseFail, TypeOK, Maps, NoLocals, memory, Used, Booting,
     Shape, ExecMatchesStatus, TracksRealOrders, VisitsTracked, PlacedIsClose,
     ListsRealOrders, AnswersFilled, BootsEmpty, Evolves, BookOK, IsOpen,
     IsClose
<1>5. Answered'
  <2>1. CASE UNCHANGED <<book, src>>
    BY <2>1, <1>2, <1>3, AnsweredFrame DEF PlaceCloseFail, NoLocals, memory,
       Used
  <2>2. CASE \E i \in OrderId : PlaceOk(i, CloseSide, CloseLevel(price.lv), cur)
    BY <1>1, <2>2, <1>3, CloseAccepted DEF PlaceCloseFail, memory
  <2>. QED
    BY <2>1, <2>2 DEF PlaceCloseFail, PlaceErr
<1>. QED
  BY <1>3, <1>4, <1>5

(* A retry that fails leaves at most an order nobody tracks.               *)
LEMMA RetryFailStep ==
  ASSUME IInv, RetryFail, UNCHANGED <<sawFlat, listed>>
  PROVE  IInv'
<1>. USE DEF IInv
<1>1. First(queue) \in Int /\ First(queue) \in Levels
  BY FirstIsMember, LevelTypes DEF RetryFail, TypeOK
<1>2. BookOK' /\ Evolves /\ src' \in [OrderId -> OrderId \cup {None}]
  BY <1>1, SidesDiffer, PlaceErrStep DEF RetryFail, TypeOK
<1>3. TypeOK'
  BY <1>1, <1>2, GridPriceType, MaxRetriesAssumption DEF RetryFail, TypeOK,
     BookOK, Maps, Running, Booting
<1>4. Shape'
  BY <1>2 DEF RetryFail, TypeOK, Maps, Used, Booting, Shape, ExecMatchesStatus,
     TracksRealOrders, VisitsTracked, PlacedIsClose, ListsRealOrders,
     AnswersFilled, BootsEmpty, Evolves, BookOK, IsOpen, IsClose
<1>5. /\ src' = src
      /\ \A j \in OrderId : ~Used(j) /\ Used(j)' => book'[j].side = OpenSide
  BY <1>1, SidesDiffer, PlaceErrOpen DEF RetryFail
<1>6. Answered'
  BY <1>2, <1>3, <1>5, AnsweredFrame DEF RetryFail, TypeOK
<1>. QED
  BY <1>3, <1>4, <1>6

(* A poll that finds an order unchanged changes nothing.                   *)
LEMMA SeeNothingStep ==
  ASSUME IInv, NEW i \in todo, pc = "poll", todo' = todo \ {i}, queue' = queue,
         SeeNothing(i), UNCHANGED <<sawFlat, listed>>
  PROVE  IInv'
<1>. USE DEF IInv
<1>1. BookOK' /\ Evolves
  BY BookStutter DEF SeeNothing, TypeOK, Shape, BookOK
<1>2. /\ i \in OrderId /\ i \in DOMAIN orders /\ Used(i) /\ orders[i] \in Order
      /\ book[i].status \in OrderStatus /\ orders[i].openPrice \in Price
  BY DEF TypeOK, Maps, Shape, VisitsTracked, TracksRealOrders, ExchangeTypeOK,
     Entry, NoOrder, Used, Order
<1>3. Maps(orders', OrderId, Order)
  BY <1>2, WithoutMaps DEF SeeNothing, TypeOK, memory
<1>4. Maps(pairs', OrderId, Price) /\ Maps(file', OrderId, Price)
  BY DEF SeeNothing, TypeOK, memory
<1>5. TypeOK'
  BY <1>1, <1>2, <1>3, <1>4, GridPriceType, PriceStrType, MaxRetriesAssumption
     DEF SeeNothing, TypeOK, BookOK, Order, memory, history, Running
<1>6. Shape'
  BY <1>1, <1>2, SidesDiffer DEF SeeNothing, TypeOK, Maps, Used, memory,
     history, Booting, Shape, ExecMatchesStatus, TracksRealOrders,
     VisitsTracked, PlacedIsClose, ListsRealOrders, AnswersFilled, BootsEmpty,
     Evolves, BookOK, IsOpen, IsClose
<1>7. Answered'
  BY <1>1, <1>5, AnsweredFrame DEF SeeNothing, memory, history, LiveStatus,
     Used, TypeOK, Maps
<1>. QED
  BY <1>5, <1>6, <1>7

(* A poll that finds progress records the status only.                     *)
LEMMA SeeProgressStep ==
  ASSUME IInv, NEW i \in todo, pc = "poll", todo' = todo \ {i}, queue' = queue,
         SeeProgress(i), UNCHANGED <<sawFlat, listed>>
  PROVE  IInv'
<1>. USE DEF IInv
<1>1. BookOK' /\ Evolves
  BY BookStutter DEF SeeProgress, TypeOK, Shape, BookOK
<1>2. /\ i \in OrderId /\ i \in DOMAIN orders /\ Used(i) /\ orders[i] \in Order
      /\ book[i].status \in OrderStatus /\ orders[i].openPrice \in Price
  BY DEF TypeOK, Maps, Shape, VisitsTracked, TracksRealOrders, ExchangeTypeOK,
     Entry, NoOrder, Used, Order
<1>3. Maps(orders', OrderId, Order)
  BY <1>2, WithoutMaps DEF SeeProgress, TypeOK, Maps, Order
<1>4. Maps(pairs', OrderId, Price) /\ Maps(file', OrderId, Price)
  BY DEF SeeProgress, TypeOK
<1>5. TypeOK'
  BY <1>1, <1>2, <1>3, <1>4, GridPriceType, PriceStrType, MaxRetriesAssumption
     DEF SeeProgress, TypeOK, BookOK, Order, history, Running
<1>6. Shape'
  BY <1>1, <1>2, SidesDiffer DEF SeeProgress, TypeOK, Maps, Used, AnswersFill,
     history, Booting, Shape, ExecMatchesStatus, TracksRealOrders,
     VisitsTracked, PlacedIsClose, ListsRealOrders, AnswersFilled, BootsEmpty,
     Evolves, BookOK, IsOpen, IsClose
<1>7. Answered'
  BY <1>1, <1>5, AnsweredFrame DEF SeeProgress, history, LiveStatus, Used,
     TypeOK, Maps
<1>. QED
  BY <1>5, <1>6, <1>7

(* A poll that finds an open order filled takes it off and books it.       *)
LEMMA SeeOpenFilledStep ==
  ASSUME IInv, NEW i \in todo, pc = "poll", todo' = todo \ {i}, queue' = queue,
         SeeOpenFilled(i), UNCHANGED <<sawFlat, listed>>
  PROVE  IInv'
<1>. USE DEF IInv
<1>1. BookOK' /\ Evolves
  BY BookStutter DEF SeeOpenFilled, TypeOK, Shape, BookOK
<1>2. /\ i \in OrderId /\ i \in DOMAIN orders /\ Used(i) /\ orders[i] \in Order
      /\ book[i].status \in OrderStatus /\ orders[i].openPrice \in Price
  BY DEF TypeOK, Maps, Shape, VisitsTracked, TracksRealOrders, ExchangeTypeOK,
     Entry, NoOrder, Used, Order
<1>3. Maps(orders', OrderId, Order)
  BY <1>2, WithoutMaps DEF SeeOpenFilled, TypeOK
<1>4. Maps(pairs', OrderId, Price) /\ Maps(file', OrderId, Price)
  BY DEF SeeOpenFilled, TypeOK
<1>5. TypeOK'
  BY <1>1, <1>2, <1>3, <1>4, GridPriceType, PriceStrType, MaxRetriesAssumption
     DEF SeeOpenFilled, TypeOK, BookOK, Book, Order, Running
<1>6. Shape'
  BY <1>1, <1>2, SidesDiffer DEF SeeOpenFilled, TypeOK, Maps, Used, Without,
     AnswersFill, Booting, Shape, ExecMatchesStatus, TracksRealOrders,
     VisitsTracked, PlacedIsClose, ListsRealOrders, AnswersFilled, BootsEmpty,
     Evolves, BookOK, IsOpen, IsClose
<1>7. Answered'
  BY <1>2, <1>5, BookedTrade DEF SeeOpenFilled, AnswersFill
<1>. QED
  BY <1>5, <1>6, <1>7

(* A poll that finds a close order filled takes it off and books it.       *)
LEMMA SeeCloseFilledStep ==
  ASSUME IInv, NEW i \in todo, pc = "poll", todo' = todo \ {i}, queue' = queue,
         SeeCloseFilled(i), UNCHANGED <<sawFlat, listed>>
  PROVE  IInv'
<1>. USE DEF IInv
<1>1. BookOK' /\ Evolves
  BY BookStutter DEF SeeCloseFilled, TypeOK, Shape, BookOK
<1>2. /\ i \in OrderId /\ i \in DOMAIN orders /\ Used(i) /\ orders[i] \in Order
      /\ book[i].status \in OrderStatus /\ orders[i].openPrice \in Price
  BY DEF TypeOK, Maps, Shape, VisitsTracked, TracksRealOrders, ExchangeTypeOK,
     Entry, NoOrder, Used, Order
<1>3. Maps(orders', OrderId, Order)
  BY <1>2, WithoutMaps DEF SeeCloseFilled, TypeOK
<1>4. Maps(pairs', OrderId, Price) /\ Maps(file', OrderId, Price)
  BY WithoutMaps DEF SeeCloseFilled, TypeOK, Save
<1>5. TypeOK'
  BY <1>1, <1>2, <1>3, <1>4, GridPriceType, PriceStrType, MaxRetriesAssumption
     DEF SeeCloseFilled, TypeOK, BookOK, Book, CallRelist, NoLocals, Order,
     Running
<1>6. Shape'
  BY <1>1, <1>2, SidesDiffer DEF SeeCloseFilled, TypeOK, Maps, Used, Without,
     CallRelist, NoLocals, AnswersFill, Booting, Shape, ExecMatchesStatus,
     TracksRealOrders, VisitsTracked, PlacedIsClose, ListsRealOrders,
     AnswersFilled, BootsEmpty, Evolves, BookOK, IsOpen, IsClose
<1>7. Answered'
  BY <1>2, <1>5, BookedTrade DEF SeeCloseFilled, AnswersFill, CallRelist
<1>. QED
  BY <1>5, <1>6, <1>7

(* A poll that finds an order canceled takes it off, answering nothing.    *)
LEMMA SeeCanceledStep ==
  ASSUME IInv, NEW i \in todo, pc = "poll", todo' = todo \ {i}, queue' = queue,
         SeeCanceled(i), UNCHANGED <<sawFlat, listed>>
  PROVE  IInv'
<1>. USE DEF IInv
<1>1. BookOK' /\ Evolves
  BY BookStutter DEF SeeCanceled, TypeOK, Shape, BookOK
<1>2. /\ i \in OrderId /\ i \in DOMAIN orders /\ Used(i) /\ orders[i] \in Order
      /\ book[i].status \in OrderStatus /\ orders[i].openPrice \in Price
  BY DEF TypeOK, Maps, Shape, VisitsTracked, TracksRealOrders, ExchangeTypeOK,
     Entry, NoOrder, Used, Order
<1>3. Maps(orders', OrderId, Order)
  BY <1>2, WithoutMaps DEF SeeCanceled, TypeOK
<1>4. Maps(pairs', OrderId, Price) /\ Maps(file', OrderId, Price)
  BY WithoutMaps DEF SeeCanceled, TypeOK, Save
<1>5. TypeOK'
  BY <1>1, <1>2, <1>3, <1>4, GridPriceType, PriceStrType, MaxRetriesAssumption
     DEF SeeCanceled, TypeOK, BookOK, Order, history, Running
<1>6. Shape'
  BY <1>1, <1>2, SidesDiffer DEF SeeCanceled, TypeOK, Maps, Used, Without,
     history, Booting, Shape, ExecMatchesStatus, TracksRealOrders,
     VisitsTracked, PlacedIsClose, ListsRealOrders, AnswersFilled, BootsEmpty,
     Evolves, BookOK, IsOpen, IsClose
<1>7. Answered'
  BY <1>1, <1>5, AnsweredFrame DEF SeeCanceled, history, Without, LiveStatus,
     Used, TypeOK, Maps
<1>. QED
  BY <1>5, <1>6, <1>7

(* HaltForHedging takes off the open order it has canceled.                *)
LEMMA HaltCancelStep ==
  ASSUME IInv, NEW i \in OrderId, HaltCancel(i), UNCHANGED <<sawFlat, listed>>
  PROVE  IInv'
<1>. USE DEF IInv
<1>1. BookOK' /\ Evolves
  <2>1. CASE Live(i) /\ book' = [book EXCEPT ![i].status = "CANCELED"]
    BY <2>1, WithdrawStep DEF Withdraw, TypeOK, Shape, BookOK
  <2>2. CASE book' = book
    BY <2>2, BookStutter DEF TypeOK, Shape, BookOK
  <2>. QED
    BY <2>1, <2>2 DEF HaltCancel
<1>2. TypeOK'
  BY <1>1 DEF HaltCancel, TypeOK, BookOK, history
<1>3. Shape'
  BY <1>1 DEF HaltCancel, TypeOK, Maps, Used, Booting, Shape, ExecMatchesStatus,
     TracksRealOrders, VisitsTracked, PlacedIsClose, ListsRealOrders,
     AnswersFilled, BootsEmpty, Evolves, BookOK, IsOpen, IsClose
<1>4. \A j \in OrderId : Used(j)' => Used(j)
  BY DEF HaltCancel, Used, Live, LiveStatus, TypeOK, ExchangeTypeOK
<1>5. Answered'
  BY <1>1, <1>2, <1>4, AnsweredFrame DEF HaltCancel, history
<1>. QED
  BY <1>2, <1>3, <1>5

(* Whatever the exchange does to its book keeps the invariant.             *)
LEMMA ExchangeMoves ==
  ASSUME IInv, ExchangeStep
  PROVE  IInv'
<1>. USE DEF IInv
<1>1. BookOK' /\ Evolves
  BY TradeStep, WithdrawStep DEF ExchangeStep, TypeOK, Shape, BookOK
<1>2. TypeOK'
  BY <1>1 DEF ExchangeStep, TypeOK, BookOK, memory, control, history
<1>3. Shape'
  BY <1>1 DEF ExchangeStep, TypeOK, Maps, Used, Booting, memory, control, Shape,
     ExecMatchesStatus, TracksRealOrders, VisitsTracked, PlacedIsClose,
     ListsRealOrders, AnswersFilled, BootsEmpty, Evolves, BookOK, IsOpen,
     IsClose
<1>4. \A j \in OrderId : Used(j)' => Used(j)
  BY DEF ExchangeStep, Trade, Withdraw, Used, Live, LiveStatus, TypeOK,
     ExchangeTypeOK
<1>5. Answered'
  BY <1>1, <1>2, <1>4, AnsweredFrame DEF ExchangeStep, memory, control, history
<1>. QED
  BY <1>2, <1>3, <1>5

(* Forgetting everything leaves a well-typed state.                        *)
LEMMA ForgetType ==
  ASSUME TypeOK, Shape, Forget, BookOK', Evolves, src' \in [OrderId -> OrderId \cup {None}],
         sawFlat' \in BOOLEAN, Maps(listed', OrderId, LiveStatus), DOMAIN listed' = {}
  PROVE  TypeOK' /\ Shape'
<1>1. \A S, T : Maps(NoEntries, S, T)
  BY DEF Maps, NoEntries
<1>2. invHalted' \in BOOLEAN
  BY DEF Forget
<1>3. price' \in Price
  BY GridPriceType DEF Forget, NoLocals
<1>4. TypeOK'
  BY <1>1, <1>2, <1>3, MaxRetriesAssumption DEF Forget, NoLocals, TypeOK,
     BookOK, Booting
<1>5. Shape'
  BY DEF BookOK, Forget, NoLocals, NoEntries, Shape, ExecMatchesStatus,
     TracksRealOrders, VisitsTracked, PlacedIsClose, ListsRealOrders,
     AnswersFilled, BootsEmpty, Evolves, BookOK, IsOpen, IsClose
<1>. QED
  BY <1>4, <1>5

(* A crash forgets the memory; book and file keep the invariant.           *)
LEMMA CrashStep ==
  ASSUME IInv, Crash
  PROVE  IInv'
<1>. USE DEF IInv
<1>1. BookOK' /\ Evolves
  BY BookStutter DEF Crash, TypeOK, Shape, BookOK
<1>2. sawFlat' \in BOOLEAN /\ Maps(listed', OrderId, LiveStatus) /\ DOMAIN listed' = {}
  BY DEF Crash, NoEntries, Maps
<1>3. TypeOK' /\ Shape'
  BY <1>1, <1>2, ForgetType DEF Crash, TypeOK
<1>4. Answered'
  BY <1>1, <1>3, AnsweredFrame DEF Crash, NoLocals, Forget, NoEntries,
     LiveStatus, Used, TypeOK, Maps
<1>. QED
  BY <1>3, <1>4

(* A failed first start ends the process, as a crash does.                 *)
LEMMA InitAbortStep ==
  ASSUME IInv, InitAbort, UNCHANGED <<sawFlat, listed>>
  PROVE  IInv'
<1>. USE DEF IInv
<1>1. First(queue) \in Int
  BY FirstIsMember, LevelTypes DEF InitAbort, TypeOK
<1>2. BookOK' /\ Evolves /\ src' \in [OrderId -> OrderId \cup {None}]
  BY <1>1, SidesDiffer, PlaceErrStep DEF InitAbort
<1>3. TypeOK' /\ Shape'
  BY <1>2, ForgetType DEF InitAbort, Shape, ListsRealOrders, TypeOK
<1>4. /\ src' = src
      /\ \A j \in OrderId : ~Used(j) /\ Used(j)' => book'[j].side = OpenSide
  BY <1>1, SidesDiffer, PlaceErrOpen DEF InitAbort
<1>5. Answered'
  BY <1>2, <1>3, <1>4, AnsweredFrame DEF InitAbort, NoLocals, Forget, NoEntries,
     TypeOK
<1>. QED
  BY <1>3, <1>5

-----------------------------------------------------------------------------
(* Every step of the bot, of the exchange and of a crash.                  *)

(* OnOrderUpdate keeps the invariant, whatever the poll finds.             *)
LEMMA SeeStep ==
  ASSUME IInv, NEW i \in OrderId, See(i), UNCHANGED <<sawFlat, listed>>
  PROVE  IInv'
<1>1. i \in todo /\ pc = "poll" /\ todo' = todo \ {i} /\ queue' = queue
  BY DEF See
<1>2. CASE SeeNothing(i)
  BY <1>1, <1>2, SeeNothingStep
<1>3. CASE SeeProgress(i)
  BY <1>1, <1>3, SeeProgressStep
<1>4. CASE SeeOpenFilled(i)
  BY <1>1, <1>4, SeeOpenFilledStep
<1>5. CASE SeeCloseFilled(i)
  BY <1>1, <1>5, SeeCloseFilledStep
<1>6. CASE SeeCanceled(i)
  BY <1>1, <1>6, SeeCanceledStep
<1>. QED
  BY <1>2, <1>3, <1>4, <1>5, <1>6 DEF See

(* Every step of the strategy keeps the invariant.                         *)
LEMMA StrategyMoves ==
  ASSUME IInv, StrategyStep
  PROVE  IInv'
<1>1. UNCHANGED <<sawFlat, listed>>
  BY DEF StrategyStep
<1>2. CASE InitPlace \/ InitPutOff \/ InitAbort \/ InitDone
  BY <1>1, <1>2, InitPlaceStep, InitPutOffStep, InitAbortStep, InitDoneStep
<1>3. CASE RelistPlace \/ RelistFail
  BY <1>1, <1>3, RelistPlaceStep, RelistFailStep
<1>4. CASE \E i \in OrderId : See(i)
  BY <1>1, <1>4, SeeStep
<1>5. CASE PlaceClose \/ PlaceCloseFail \/ RecordClose
  BY <1>1, <1>5, PlaceCloseStep, PlaceCloseFailStep, RecordCloseStep
<1>6. CASE RetryPlace \/ RetryFail \/ RetryDone
  BY <1>1, <1>6, RetryPlaceStep, RetryFailStep, RetryDoneStep
<1>7. CASE Halt \/ (\E i \in OrderId : HaltCancel(i)) \/ HaltDone
  BY <1>1, <1>7, HaltStep, HaltCancelStep, HaltDoneStep
<1>8. CASE Resume \/ ResumeNext \/ ResumeDone
  BY <1>1, <1>8, ResumeStep, ResumeNextStep, ResumeDoneStep
<1>. QED
  BY <1>2, <1>3, <1>4, <1>5, <1>6, <1>7, <1>8 DEF StrategyStep

(* A step that changes nothing keeps the invariant.                        *)
LEMMA StutterStep ==
  ASSUME IInv, UNCHANGED vars
  PROVE  IInv'
<1>. USE DEF IInv
<1>1. BookOK' /\ Evolves
  BY BookStutter DEF vars, TypeOK, Shape, BookOK
<1>2. TypeOK'
  BY DEF vars, memory, control, history, TypeOK, ExchangeTypeOK, Maps
<1>3. Shape'
  BY <1>1 DEF vars, memory, control, BookOK, Shape, TracksRealOrders,
     VisitsTracked, PlacedIsClose, ListsRealOrders, AnswersFilled, BootsEmpty,
     Used, IsOpen, IsClose
<1>4. Answered'
  BY <1>1, <1>2, AnsweredFrame DEF vars, memory, control, history, Used
<1>. QED
  BY <1>2, <1>3, <1>4

(* The invariant holds when the process first starts.                      *)
LEMMA IInvInit == Init => IInv
<1>. SUFFICES ASSUME Init PROVE Answered
  BY TypeInit DEF IInv
<1>. QED
  BY DEF Init, ExchangeInit, NoOrder, NoEntries, Answered, SourcesAreCloses,
     CloseBacked, TradeBookedOnce, TrackedIsUnsettled, CurrentIsUnanswered,
     IsClose, Used

(* Every step keeps the invariant.                                         *)
LEMMA IInvNext == IInv /\ [Next]_vars => IInv'
<1>. SUFFICES ASSUME IInv, [Next]_vars PROVE IInv'
  OBVIOUS
<1>1. CASE BootStep
  BY <1>1, BootPositionStep, BootOrdersStep, ReconcileOrdersStep, ColdStartStep, WarmStartStep
     DEF BootStep
<1>2. CASE MonitorStep
  BY <1>2, TickStep, BeginPollStep, BeginRetryStep, EndTickStep DEF MonitorStep
<1>3. CASE StrategyStep
  BY <1>3, StrategyMoves
<1>4. CASE ExchangeStep
  BY <1>4, ExchangeMoves
<1>5. CASE Crash
  BY <1>5, CrashStep
<1>6. CASE UNCHANGED vars
  BY <1>6, StutterStep
<1>. QED
  BY <1>1, <1>2, <1>3, <1>4, <1>5, <1>6 DEF Next, BotStep

(* The inductive invariant holds in every reachable state.                 *)
THEOREM IInvAlways == Spec => []IInv
BY IInvInit, IInvNext, PTL DEF Spec

(* Every variable of the bot and of the exchange keeps its type.           *)
THEOREM TypeCorrect == Spec => []TypeOK
<1>1. IInv => TypeOK
  BY DEF IInv
<1>. QED
  BY <1>1, IInvAlways, PTL

(* Each close order answers a filled open order of its own: no fill is     *)
(* answered twice (OnOrderUpdate, placePairedCloseOrder), for every grid,  *)
(* crash, lost reply and restart.                                          *)
THEOREM FillsAnsweredOnce == Spec => []CloseBacked
<1>1. IInv => CloseBacked
  BY DEF IInv, Answered
<1>. QED
  BY <1>1, IInvAlways, PTL

(* No order is booked twice as a trade, none before it is filled.          *)
THEOREM TradesBookedOnce == Spec => []TradeBookedOnce
<1>1. IInv => TradeBookedOnce
  BY DEF IInv, Answered
<1>. QED
  BY <1>1, IInvAlways, PTL
=============================================================================
