------------------------------ MODULE GridBot ------------------------------
(***************************************************************************)
(* The running bot: orchestrator.go brings it up against whatever the      *)
(* exchange and the state file hold, monitor/rest.go drives the strategy   *)
(* tick by tick, the exchange trades meanwhile, and the process may die    *)
(* between any two steps and be started again.                             *)
(***************************************************************************)
EXTENDS GridStrategy

VARIABLES
  sawFlat,   \* start-up: the position was zero when it was first read
  listed     \* start-up: the open orders as they were listed, id -> status

vars == <<book, memory, file, control, history, sawFlat, listed>>

(* pc values at which the strategy is up.                                  *)
Running == {"idle", "risk", "halt", "resume", "poll", "placeClose",
            "closePlaced", "relist", "retry"}
Booting == {"down", "bootOrders", "list", "reconcile", "init"}

-----------------------------------------------------------------------------
(* NewOrchestrator: an idle exchange makes the old state file void.  The   *)
(* position is read before the orders are listed.  A hedge position, which *)
(* only the risk manager opens, also counts.                               *)

HedgeOpen == IF "risk" \in Env THEN BOOLEAN ELSE {FALSE}

IsTrulyIdle == sawFlat /\ OpenOrders = {}

BootPosition ==
  /\ pc = "down"
  /\ \E hedged \in HedgeOpen : sawFlat' = (Position = 0 /\ ~hedged)
  /\ pc' = "bootOrders"
  /\ UNCHANGED <<book, memory, file, todo, queue, cur, price, placed, tries,
                 ret, history, listed>>

BootOrders ==
  /\ pc = "bootOrders"
  /\ \/ IsTrulyIdle /\ file' = NoEntries
     \/ (~IsTrulyIdle \/ "save" \in Env) /\ file' = file
  /\ pairs' = file'
  /\ sawFlat' = FALSE
  /\ pc' = "list"
  /\ UNCHANGED <<book, orders, active, pending, gstate, invHalted,
                 todo, queue, cur, price, placed, tries, ret, history, listed>>

(* reconcileStateOnStartup: the open orders are listed first, the position *)
(* is read afterwards; only if there is neither is the grid set up anew.   *)

ReconcileOrders ==
  /\ pc = "list"
  /\ listed' = [i \in OpenOrders |-> book[i].status]
  /\ pc' = "reconcile"
  /\ UNCHANGED <<book, memory, file, todo, queue, cur, price, placed, tries,
                 ret, history, sawFlat>>

ColdIfNoOrders == DOMAIN listed = {}                 \* mutant
ColdIfEither == DOMAIN listed = {} \/ Position = 0   \* mutant
IsColdStart == DOMAIN listed = {} /\ Position = 0

ColdStart ==
  /\ pc = "reconcile" /\ IsColdStart
  /\ queue' = Levels
  /\ pc' = "init"
  /\ listed' = NoEntries
  /\ UNCHANGED <<book, memory, file, todo, cur, price, placed, tries,
                 ret, history, sawFlat>>

(* The exchange may leave the grid's side out and the client answer with   *)
(* the hedge: then the bot restores its orders although it has none.       *)
FoundHedge == TRUE \in HedgeOpen

(* RestoreMonitoredOrders: every listed open order, and every listed close *)
(* order whose open price is known; the other close orders are ignored.    *)
RestoredCloses == {i \in DOMAIN listed : book[i].side = CloseSide /\ i \in DOMAIN pairs}
RestoredIfUntouched ==                               \* mutant
  {i \in DOMAIN listed : book[i].side = OpenSide /\ listed[i] = "NEW"}
RestoredOpens == {i \in DOMAIN listed : book[i].side = OpenSide}

RestoredOrder(i) ==
  [type |-> IF i \in RestoredOpens THEN "OPEN" ELSE "CLOSE",
   openPrice |-> IF i \in RestoredOpens THEN ReadPrice(book[i].level) ELSE pairs[i],
   status |-> listed[i],
   str |-> FixedStr(book[i].level)]

WarmStart ==
  /\ pc = "reconcile" /\ (~IsColdStart \/ FoundHedge)
  /\ orders' = [i \in RestoredOpens \cup RestoredCloses |-> RestoredOrder(i)]
  /\ active' = {ShortStr(pairs[i]) : i \in RestoredCloses}
  /\ pc' = "idle"
  /\ listed' = NoEntries
  /\ UNCHANGED <<book, pending, gstate, invHalted, pairs, file, todo, queue,
                 cur, price, placed, tries, ret, history, sawFlat>>

-----------------------------------------------------------------------------
(* monitor.Start: one tick.  The investment manager's verdict is copied to *)
(* the strategy, the risk manager's instructions are carried out, the      *)
(* monitored orders are polled, the pending ones retried.                  *)

InvestmentVerdict == IF "limit" \in Env THEN BOOLEAN ELSE {FALSE}

Tick ==
  /\ pc = "idle"
  /\ invHalted' \in InvestmentVerdict
  /\ pc' = "risk"
  /\ UNCHANGED <<book, orders, active, pending, gstate, pairs, file, todo, queue,
                 cur, price, placed, tries, ret, history, sawFlat, listed>>

BeginPoll ==
  /\ pc = "risk"
  /\ todo' = Monitored
  /\ pc' = "poll"
  /\ UNCHANGED <<book, memory, file, queue, cur, price, placed, tries,
                 ret, history, sawFlat, listed>>

BeginRetry ==
  /\ pc = "poll" /\ todo = {} /\ RetryAllowed
  /\ queue' = pending
  /\ pending' = {}
  /\ pc' = "retry"
  /\ UNCHANGED <<book, orders, active, gstate, invHalted, pairs, file, todo,
                 cur, price, placed, tries, ret, history, sawFlat, listed>>

EndTick ==
  /\ pc = "poll" /\ todo = {} /\ ~RetryAllowed
  /\ pc' = "idle"
  /\ UNCHANGED <<book, memory, file, todo, queue, cur, price, placed, tries,
                 ret, history, sawFlat, listed>>

-----------------------------------------------------------------------------
(* The process dies, or gives up because a request of its start-up is      *)
(* refused (log.Fatalf in main).                                           *)
Crash ==
  /\ \/ "crash" \in Env /\ pc # "down"
     \/ "fail" \in Env /\ pc \in {"bootOrders", "list", "reconcile"}
  /\ Forget
  /\ sawFlat' = FALSE
  /\ listed' = NoEntries
  /\ UNCHANGED <<book, src>>

BootStep == BootPosition \/ BootOrders \/ ReconcileOrders \/ ColdStart \/ WarmStart

MonitorStep == Tick \/ BeginPoll \/ BeginRetry \/ EndTick

StrategyStep ==
  /\ \/ InitPlace \/ InitPutOff \/ InitAbort \/ InitDone
     \/ RelistPlace \/ RelistFail
     \/ \E i \in OrderId : See(i)
     \/ PlaceClose \/ PlaceCloseFail \/ RecordClose
     \/ RetryPlace \/ RetryFail \/ RetryDone
     \/ Halt \/ (\E i \in OrderId : HaltCancel(i)) \/ HaltDone
     \/ Resume \/ ResumeNext \/ ResumeDone
  /\ UNCHANGED <<sawFlat, listed>>

ExchangeStep ==
  /\ \E i \in OrderId :
       \/ Trade(i)
       \/ "withdraw" \in Env /\ \E s \in {"CANCELED", "EXPIRED"} : Withdraw(i, s)
  /\ UNCHANGED <<memory, file, control, history, sawFlat, listed>>

BotStep == BootStep \/ MonitorStep \/ StrategyStep

Next == BotStep \/ ExchangeStep \/ Crash

Init ==
  /\ ExchangeInit
  /\ orders = NoEntries /\ active = {} /\ pending = {}
  /\ gstate = "TRADING" /\ invHalted = FALSE
  /\ pairs = NoEntries /\ file = NoEntries
  /\ pc = "down" /\ todo = {} /\ queue = {}
  /\ cur = None /\ price = GridPrice(0) /\ placed = None
  /\ tries = 0 /\ ret = "idle"
  /\ src = [i \in OrderId |-> None]
  /\ booked = [i \in OrderId |-> 0]
  /\ sawFlat = FALSE /\ listed = NoEntries

Spec == Init /\ [][Next]_vars

(* One goroutine does all the bot's work and its ticker never stops.       *)
FairSpec == Spec /\ WF_vars(BotStep)

-----------------------------------------------------------------------------
(* What the bot owes its user.                                             *)

Maps(f, S, T) == DOMAIN f \subseteq S /\ f \in [DOMAIN f -> T]

(* Every variable has its type.                                            *)
TypeOK ==
  /\ ExchangeTypeOK
  /\ Maps(orders, OrderId, Order)
  /\ active \subseteq PriceStr
  /\ pending \subseteq Levels
  /\ gstate \in {"TRADING", "HALTED"}
  /\ invHalted \in BOOLEAN
  /\ Maps(pairs, OrderId, Price)
  /\ Maps(file, OrderId, Price)
  /\ pc \in Booting \cup Running
  /\ todo \subseteq OrderId
  /\ queue \subseteq Levels
  /\ cur \in OrderId \cup {None}
  /\ price \in Price
  /\ placed \in OrderId \cup {None}
  /\ tries \in 0 .. MaxRetries
  /\ ret \in {"idle", "poll", "resume"}
  /\ src \in [OrderId -> OrderId \cup {None}]
  /\ booked \in [OrderId -> Nat]
  /\ sawFlat \in BOOLEAN
  /\ Maps(listed, OrderId, LiveStatus)

IsOpen(i) == Used(i) /\ book[i].side = OpenSide
IsClose(i) == Used(i) /\ book[i].side = CloseSide

(* Each close order the bot ever places answers an open order of its own   *)
(* that has been filled completely: no fill is answered twice, whatever    *)
(* crashes, lost replies and restarts come between (OnOrderUpdate and      *)
(* placePairedCloseOrder, RestoreMonitoredOrders).                         *)
CloseBacked ==
  \A c \in OrderId : IsClose(c) =>
    /\ src[c] \in OrderId /\ IsOpen(src[c]) /\ book[src[c]].status = "FILLED"
    /\ \A d \in OrderId : IsClose(d) /\ src[d] = src[c] => d = c

(* The grid never sells more than it has bought: however its orders trade, *)
(* the position of its side does not turn negative.                        *)
NeverOversold == Position >= 0

(* An order is handed to the profit accountant at most once, and only when *)
(* all of it has traded (OnOrderUpdate calling OnTrade), restarts included.*)
TradeBookedOnce ==
  \A i \in OrderId : booked[i] > 0 => booked[i] = 1 /\ book[i].status = "FILLED"

(* A live open order, or one that traded and whose close order has not     *)
(* been filled, occupies its level.                                        *)
Closed(i) == \E c \in OrderId : src[c] = i /\ book[c].status = "FILLED"
Occupies(i) == IsOpen(i) /\ (Live(i) \/ book[i].exec > 0) /\ ~Closed(i)

(* No level is bought twice: an order is put on a level only when the      *)
(* level's last purchase has been sold again.  Start-up decides between a  *)
(* new grid and the old one on two separate reads of the exchange          *)
(* (reconcileStateOnStartup), relistOpenOrder on the fill of a close order.*)
LevelExclusive ==
  \A i, j \in OrderId :
    Occupies(i) /\ Occupies(j) /\ book[i].level = book[j].level => i = j

(* A close order the strategy tracks is on disk with the open price the    *)
(* strategy will relist, so that a restart at any moment finds it there    *)
(* (OnCloseOrderPlaced, OnOrderCancelled, the removal of old state files). *)
PairingOnDisk ==
  \A i \in DOMAIN orders : orders[i].type = "CLOSE" =>
    /\ i \in DOMAIN file /\ file[i] = orders[i].openPrice
    /\ i \in DOMAIN pairs /\ pairs[i] = file[i]

(* Once the strategy is up it tracks every live order on the exchange.     *)
(* The only exceptions are the close order it is about to record and one   *)
(* whose pairing a crash kept from the file.                               *)
NoGhostOrders ==
  pc \in Running =>
    \A i \in OpenOrders : \/ i \in DOMAIN orders \/ i = placed
                          \/ IsClose(i) /\ i \notin DOMAIN pairs

NewOpenOrder == \E i \in OrderId : ~Used(i) /\ Used(i)' /\ book'[i].side = OpenSide

(* While the grid is halted for hedging no step places an open order:      *)
(* neither a fill, nor a pending order, nor a retry that began before.     *)
HaltedPlacesNothing ==
  [][gstate = "HALTED" /\ gstate' = "HALTED" => ~NewOpenOrder]_vars

(* Each level lives through free, open and held, seen from the exchange.   *)
HeldAt(l) == \E i \in OrderId : Occupies(i) /\ ~Live(i) /\ book[i].level = l
OpenAt(l) == \E i \in OrderId : IsOpen(i) /\ Live(i) /\ book[i].level = l
levelState == [l \in Levels |-> IF OpenAt(l) THEN "open"
                                ELSE IF HeldAt(l) THEN "held" ELSE "free"]

Cycle == INSTANCE GridLevels WITH state <- levelState

(* The bot implements the abstract grid: a level is bought, held, sold and *)
(* only then bought again, across restarts and refused requests.           *)
ImplementsGrid == Cycle!GridSpec

(* A filled open order gets its close order, as long as the exchange takes *)
(* orders.                                                                 *)
FillAnswered ==
  \A i \in OrderId :
    (IsOpen(i) /\ book[i].status = "FILLED")
      ~> (FreeIds = {} \/ \E c \in OrderId : src[c] = i)

(* Every level keeps coming back to life: again and again it has had one   *)
(* open order more than it has had filled close orders.  A level is given  *)
(* up only when an order of its own is taken from the book by somebody     *)
(* else, or when the grid is paused at the moment it should be relisted    *)
(* (relistOpenOrder); what happens to the other levels must not matter.    *)
OpensAt(l) == {i \in OrderId : IsOpen(i) /\ book[i].level = l}
ClosedAt(l) == {i \in OpensAt(l) : Closed(i)}
BelongsTo(i, l) == i \in OpensAt(l) \/ src[i] \in OpensAt(l)
WithdrawnAt(l) == \E i \in OrderId : BelongsTo(i, l) /\ book[i].status \in {"CANCELED", "EXPIRED"}
LevelsServed ==
  \A l \in Levels :
    [](~invHalted /\ ~WithdrawnAt(l)) => []<>(FreeIds = {} \/ OpensAt(l) # ClosedAt(l))

-----------------------------------------------------------------------------
(* What the source says of itself.                                         *)

(* ResumeTrading: "Get all active price points (including pending orders   *)
(* and occupied positions)", then 'Find "truly free" grid points': the     *)
(* levels it is going to relist hold no tracked close order's position.    *)
ResumesFreeLevelsOnly ==
  pc = "resume" =>
    \A i \in DOMAIN orders :
      orders[i].type = "CLOSE" => orders[i].openPrice.lv \notin queue
=============================================================================
