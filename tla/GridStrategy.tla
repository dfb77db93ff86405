---------------------------- MODULE GridStrategy ----------------------------
(***************************************************************************)
(* strategy/grid.go: the grid strategy's memory and its operations, one    *)
(* action per step that the rest of the world can observe.  A network call *)
(* (placing or cancelling an order) is a step of its own wherever the code *)
(* makes it without holding the strategy's lock or makes several in a row, *)
(* so that the exchange trades, and the process dies, between them.        *)
(*                                                                         *)
(* Prices are grid levels.  The bot formats a price for the exchange with  *)
(* the symbol's fixed precision and reads it back from there, so a price   *)
(* read back may be another float than the one the grid computed, and the  *)
(* fixed string another one than strconv.FormatFloat(p, 'f', -1, 64):      *)
(* RoundTrip and FullWidth say for which levels neither happens.           *)
(***************************************************************************)
EXTENDS Exchange

CONSTANTS GridNum,     \* config: number of grid levels
          Direction,   \* config: "long" or "short"
          MaxRetries,  \* attempts of relistOpenOrder (3 in the code)
          RoundTrip,   \* levels whose float survives formatting and parsing
          FullWidth,   \* levels whose shortest decimal has full precision
          Env,         \* what the environment does in this instance
          None         \* no order

EnvKinds == {"fail",      \* the exchange refuses a request
             "lost",      \* it accepts an order but the reply is lost
             "range",     \* it refuses a price with code -4024
             "withdraw",  \* orders are cancelled or expire without the bot
             "save",      \* the state file cannot be written
             "crash",     \* the process dies
             "risk",      \* the risk manager halts and resumes the grid
             "limit"}     \* the investment manager pauses opening

ASSUME GridNumAssumption == GridNum \in Nat \ {0}
ASSUME DirectionAssumption == Direction \in {"long", "short"}
ASSUME MaxRetriesAssumption == MaxRetries \in Nat \ {0}
ASSUME LevelAssumption == RoundTrip \subseteq Int /\ FullWidth \subseteq Int
ASSUME EnvAssumption == Env \subseteq EnvKinds
ASSUME NoneAssumption == None \notin OrderId

VARIABLES
  orders,    \* g.orders: order id -> order the strategy tracks
  active,    \* keys of g.activePositions
  pending,   \* levels in g.pendingOrders (kept in ascending order)
  gstate,    \* g.state
  invHalted, \* g.isTradingHalted
  pairs,     \* StateManager's PairedOrderPrices in memory
  file,      \* the same on disk
  pc,        \* where the goroutine that runs the strategy is
  todo,      \* orders the running loop (poll, halt) still has to visit
  queue,     \* grid levels the running loop (init, resume, retry) still has
  cur,       \* the filled open order being answered
  price,     \* the open price being answered or relisted
  placed,    \* a close order accepted but not yet recorded
  tries,     \* attempt number of relistOpenOrder
  ret,       \* loop relistOpenOrder returns to
  src,       \* history: close order -> the open order it answers
  booked     \* history: how often an order was handed to OnTrade

memory == <<orders, active, pending, gstate, invHalted, pairs>>
control == <<pc, todo, queue, cur, price, placed, tries, ret>>
history == <<src, booked>>

-----------------------------------------------------------------------------
(* Prices, levels and strings.                                             *)

Levels == 0 .. GridNum - 1
Price == [lv : Int, rounded : BOOLEAN]

GridPrice(l) == [lv |-> l, rounded |-> FALSE]
ReadPrice(l) == [lv |-> l, rounded |-> l \notin RoundTrip]

NoStr == [kind |-> "empty", lv |-> 0, rounded |-> FALSE]
FixedStr(l) == [kind |-> "fixed", lv |-> l, rounded |-> FALSE]
ShortStr(p) ==
  IF p.lv \in FullWidth /\ (p.rounded \/ p.lv \in RoundTrip)
    THEN FixedStr(p.lv)
    ELSE [kind |-> "short", lv |-> p.lv, rounded |-> p.rounded]
PriceStr == [kind : {"empty", "fixed", "short"}, lv : Int, rounded : BOOLEAN]

OpenSide == IF Direction = "short" THEN "SELL" ELSE "BUY"
CloseSide == IF Direction = "short" THEN "BUY" ELSE "SELL"
CloseLevel(l) == IF Direction = "short" THEN l - 1 ELSE l + 1

(* The net position of the grid's position side.                           *)
Position == Cardinality(Lots(OpenSide)) - Cardinality(Lots(CloseSide))

-----------------------------------------------------------------------------
(* The strategy's data.                                                    *)

(* openPrice is an open order's own Price and a close order's PairedPrice. *)
Order == [type : {"OPEN", "CLOSE"}, openPrice : Price,
          status : OrderStatus, str : PriceStr]

NewOrder(type, p) ==
  [type |-> type, openPrice |-> p, status |-> "NEW", str |-> NoStr]

NoEntries == [i \in {} |-> None]
With(f, k, v) == [x \in DOMAIN f \cup {k} |-> IF x = k THEN v ELSE f[x]]
Without(f, k) == [x \in DOMAIN f \ {k} |-> f[x]]

First(levels) == CHOOSE l \in levels : \A m \in levels : l <= m

(* GetMonitoredOrders: the tracked orders whose status is not final.       *)
UntouchedStatus == {"NEW"}                           \* mutant
MonitoredStatus == {"NEW", "PARTIALLY_FILLED"}
Monitored == {i \in DOMAIN orders : orders[i].status \in MonitoredStatus}

(* The status that OnOrderUpdate answers with a trade.                     *)
AnswersAnyFill(s) == s \in {"PARTIALLY_FILLED", "FILLED"}   \* mutant
AnswersFill(s) == s = "FILLED"

(* Metadata is written through to the state file; when that fails the map  *)
(* in memory has already changed.                                          *)
SaveInMemory(p) == pairs' = p /\ file' = file        \* mutant
Save(p) ==
  /\ pairs' = p
  /\ \/ file' = p
     \/ "save" \in Env /\ file' = file

(* What keeps relistOpenOrder from placing an order.                       *)
RelistUnlessLimited == ~invHalted                    \* mutant
RelistAllowed == gstate = "TRADING" /\ ~invHalted

(* What keeps RetryPlacePendingOrders from running.                        *)
RetryAllowed == gstate = "TRADING" /\ pending # {}

(* HaltForHedging cancels these.                                           *)
OrdersToCancel == {i \in DOMAIN orders : orders[i].type = "OPEN"}

(* The levels ResumeTrading takes for free: those whose price string no    *)
(* tracked order and no active position carries.                           *)
ActivePrices == {orders[i].str : i \in DOMAIN orders} \cup active
FreeLevels == {l \in Levels : ShortStr(GridPrice(l)) \notin ActivePrices}

-----------------------------------------------------------------------------
(* placeOrderFunc: the exchange accepts the order and the bot learns its   *)
(* id, or the bot gets an error: the order was refused, or it was accepted *)
(* and the reply did not arrive.                                           *)

PlaceOk(i, side, level, answers) ==
  /\ Accept(i, side, level)
  /\ src' = [src EXCEPT ![i] = answers]

PlaceErr(refusals, side, level, answers) ==
  \/ /\ Env \cap refusals # {} \/ FreeIds = {}
     /\ UNCHANGED <<book, src>>
  \/ /\ "lost" \in Env
     /\ \E i \in OrderId : PlaceOk(i, side, level, answers)

(* The local variables of a call that has returned.                        *)
NoLocals ==
  /\ cur' = None /\ price' = GridPrice(0) /\ placed' = None
  /\ tries' = 0 /\ ret' = "idle"

(* The process is gone: nothing but the file and the exchange remain.      *)
Forget ==
  /\ orders' = NoEntries /\ active' = {} /\ pending' = {}
  /\ gstate' = "TRADING" /\ invHalted' = FALSE /\ pairs' = NoEntries
  /\ pc' = "down" /\ todo' = {} /\ queue' = {}
  /\ NoLocals
  /\ UNCHANGED <<file, booked>>

-----------------------------------------------------------------------------
(* InitOrders: one open order per level.  A price out of range is put off; *)
(* any other error ends the process (log.Fatalf in main).                  *)

InitPlace ==
  /\ pc = "init" /\ queue # {}
  /\ \E i \in OrderId :
       /\ PlaceOk(i, OpenSide, First(queue), None)
       /\ orders' = With(orders, i, NewOrder("OPEN", GridPrice(First(queue))))
  /\ queue' = queue \ {First(queue)}
  /\ UNCHANGED <<active, pending, gstate, invHalted, pairs, file,
                 pc, todo, cur, price, placed, tries, ret, booked>>

InitPutOff ==
  /\ pc = "init" /\ queue # {} /\ "range" \in Env
  /\ pending' = pending \cup {First(queue)}
  /\ queue' = queue \ {First(queue)}
  /\ UNCHANGED <<book, orders, active, gstate, invHalted, pairs, file,
                 pc, todo, cur, price, placed, tries, ret, history>>

InitAbort ==
  /\ pc = "init" /\ queue # {}
  /\ PlaceErr({"fail"}, OpenSide, First(queue), None)
  /\ Forget

InitDone ==
  /\ pc = "init" /\ queue = {}
  /\ pc' = "idle"
  /\ UNCHANGED <<book, memory, file, todo, queue, cur, price, placed, tries,
                 ret, history>>

-----------------------------------------------------------------------------
(* relistOpenOrder: the two flags are read once, under the lock; then up   *)
(* to MaxRetries attempts are made without it.                             *)

CallRelist(p, back) ==
  \/ /\ RelistAllowed
     /\ pc' = "relist" /\ price' = p /\ tries' = 1 /\ ret' = back
     /\ UNCHANGED <<cur, placed>>
  \/ /\ ~RelistAllowed
     /\ pc' = back
     /\ NoLocals

RelistPlace ==
  /\ pc = "relist"
  /\ \E i \in OrderId :
       /\ PlaceOk(i, OpenSide, price.lv, None)
       /\ orders' = With(orders, i, NewOrder("OPEN", price))
  /\ pc' = ret
  /\ NoLocals
  /\ UNCHANGED <<active, pending, gstate, invHalted, pairs, file,
                 todo, queue, booked>>

OneTryTooMany == tries <= MaxRetries                  \* mutant
MayTryAgain == tries < MaxRetries

RelistFail ==
  /\ pc = "relist"
  /\ PlaceErr({"fail", "range"}, OpenSide, price.lv, None)
  /\ \/ /\ MayTryAgain
        /\ tries' = tries + 1
        /\ UNCHANGED <<pc, cur, price, placed, ret>>
     \/ /\ ~MayTryAgain
        /\ pc' = ret
        /\ NoLocals
  /\ UNCHANGED <<memory, file, todo, queue, booked>>

-----------------------------------------------------------------------------
(* OnOrderUpdate, called by the monitor with the status it has just read.  *)
(* Only the monitor changes the strategy's memory, so reading the status   *)
(* and the section under the lock are one step.                            *)

Book(i) == booked' = [booked EXCEPT ![i] = @ + 1]

(* The exchange did not answer, or the status is the one already known.    *)
SeeNothing(i) ==
  /\ "fail" \in Env \/ book[i].status = orders[i].status
  /\ UNCHANGED <<book, memory, file, pc, cur, price, placed, tries, ret, history>>

SeeProgress(i) ==
  /\ book[i].status # orders[i].status
  /\ ~AnswersFill(book[i].status) /\ book[i].status # "CANCELED"
  /\ orders' = [orders EXCEPT ![i].status = book[i].status]
  /\ UNCHANGED <<book, active, pending, gstate, invHalted, pairs, file,
                 pc, cur, price, placed, tries, ret, history>>

SeeOpenFilled(i) ==
  /\ AnswersFill(book[i].status) /\ orders[i].type = "OPEN"
  /\ Book(i)
  /\ orders' = Without(orders, i)
  /\ active' = active \cup {orders[i].str}
  /\ cur' = i /\ price' = orders[i].openPrice
  /\ pc' = "placeClose"
  /\ UNCHANGED <<book, pending, gstate, invHalted, pairs, file,
                 placed, tries, ret, src>>

SeeCloseFilled(i) ==
  /\ AnswersFill(book[i].status) /\ orders[i].type = "CLOSE"
  /\ Book(i)
  /\ orders' = Without(orders, i)
  /\ active' = active \ {ShortStr(orders[i].openPrice)}
  /\ Save(Without(pairs, i))
  /\ CallRelist(orders[i].openPrice, "poll")
  /\ UNCHANGED <<book, pending, gstate, invHalted, src>>

SeeCanceled(i) ==
  /\ book[i].status = "CANCELED"
  /\ orders' = Without(orders, i)
  /\ Save(Without(pairs, i))
  /\ UNCHANGED <<book, active, pending, gstate, invHalted,
                 pc, cur, price, placed, tries, ret, history>>

See(i) ==
  /\ pc = "poll" /\ i \in todo
  /\ todo' = todo \ {i}
  /\ queue' = queue
  /\ \/ SeeNothing(i)
     \/ SeeProgress(i)
     \/ SeeOpenFilled(i)
     \/ SeeCloseFilled(i)
     \/ SeeCanceled(i)

-----------------------------------------------------------------------------
(* placePairedCloseOrder: place the close order, then record it in memory  *)
(* and on disk.  A failed placement is logged and not tried again.         *)

PlaceClose ==
  /\ pc = "placeClose"
  /\ \E i \in OrderId :
       /\ PlaceOk(i, CloseSide, CloseLevel(price.lv), cur)
       /\ placed' = i
  /\ pc' = "closePlaced"
  /\ UNCHANGED <<memory, file, todo, queue, cur, price, tries, ret, booked>>

PlaceCloseFail ==
  /\ pc = "placeClose"
  /\ PlaceErr({"fail", "range"}, CloseSide, CloseLevel(price.lv), cur)
  /\ pc' = "poll"
  /\ NoLocals
  /\ UNCHANGED <<memory, file, todo, queue, booked>>

RecordClose ==
  /\ pc = "closePlaced"
  /\ orders' = With(orders, placed, NewOrder("CLOSE", price))
  /\ Save(With(pairs, placed, price))
  /\ pc' = "poll"
  /\ NoLocals
  /\ UNCHANGED <<book, active, pending, gstate, invHalted,
                 todo, queue, history>>

-----------------------------------------------------------------------------
(* RetryPlacePendingOrders, at the end of every tick.                      *)

RetryPlace ==
  /\ pc = "retry" /\ queue # {}
  /\ \E i \in OrderId :
       /\ PlaceOk(i, OpenSide, First(queue), None)
       /\ orders' = With(orders, i, NewOrder("OPEN", GridPrice(First(queue))))
  /\ queue' = queue \ {First(queue)}
  /\ UNCHANGED <<active, pending, gstate, invHalted, pairs, file,
                 pc, todo, cur, price, placed, tries, ret, booked>>

RetryFail ==
  /\ pc = "retry" /\ queue # {}
  /\ PlaceErr({"fail", "range"}, OpenSide, First(queue), None)
  /\ pending' = pending \cup {First(queue)}
  /\ queue' = queue \ {First(queue)}
  /\ UNCHANGED <<orders, active, gstate, invHalted, pairs, file,
                 pc, todo, cur, price, placed, tries, ret, booked>>

RetryDone ==
  /\ pc = "retry" /\ queue = {}
  /\ pc' = "idle"
  /\ UNCHANGED <<book, memory, file, todo, queue, cur, price, placed, tries,
                 ret, history>>

-----------------------------------------------------------------------------
(* HaltForHedging: the state changes first, then the open orders are       *)
(* cancelled one after the other; they stay tracked until a poll sees what *)
(* became of them.  ResumeTrading relists the levels it takes for free.    *)

Halt ==
  /\ pc = "risk" /\ "risk" \in Env /\ gstate = "TRADING"
  /\ gstate' = "HALTED"
  /\ todo' = OrdersToCancel
  /\ pc' = "halt"
  /\ UNCHANGED <<book, orders, active, pending, invHalted, pairs, file,
                 queue, cur, price, placed, tries, ret, history>>

HaltCancel(i) ==
  /\ pc = "halt" /\ i \in todo
  /\ \/ /\ Live(i)
        /\ book' = [book EXCEPT ![i].status = "CANCELED"]
     \/ /\ ~Live(i) \/ "fail" \in Env
        /\ book' = book
  /\ todo' = todo \ {i}
  /\ UNCHANGED <<orders, active, pending, gstate, invHalted, pairs, file,
                 pc, queue, cur, price, placed, tries, ret, history>>

HaltDone ==
  /\ pc = "halt" /\ todo = {}
  /\ pc' = "risk"
  /\ UNCHANGED <<book, memory, file, todo, queue, cur, price, placed, tries,
                 ret, history>>

Resume ==
  /\ pc = "risk" /\ "risk" \in Env
  /\ gstate' = "TRADING"
  /\ queue' = FreeLevels
  /\ pc' = "resume"
  /\ UNCHANGED <<book, orders, active, pending, invHalted, pairs, file,
                 todo, cur, price, placed, tries, ret, history>>

ResumeNext ==
  /\ pc = "resume" /\ queue # {}
  /\ queue' = queue \ {First(queue)}
  /\ CallRelist(GridPrice(First(queue)), "resume")
  /\ UNCHANGED <<book, memory, file, todo, history>>

ResumeDone ==
  /\ pc = "resume" /\ queue = {}
  /\ pc' = "risk"
  /\ UNCHANGED <<book, memory, file, todo, queue, cur, price, placed, tries,
                 ret, history>>
=============================================================================
