----------------------------- MODULE Simulation ------------------------------
(***************************************************************************)
(* The bot on the simulated exchange: the goroutine that starts the grid   *)
(* and then runs the monitor, the goroutine of the price simulator, and    *)
(* one goroutine for every callback the exchange starts.  They meet at two *)
(* mutexes, c.mu of the exchange and g.mu of the strategy, and at the      *)
(* orders the exchange hands out by pointer.                               *)
(*                                                                         *)
(* A critical section of g.mu without a call in it is one step; InitOrders *)
(* and HaltForHedging keep g.mu across their calls of the exchange, and    *)
(* meanwhile gmuHeld is set.  The grid is long.  The risk manager is not   *)
(* in the repository: it may ask for a halt, a hedge or the liquidation at *)
(* any tick, but closes no hedge it has not opened, and never resumes the  *)
(* grid (GridBot does).                                                    *)
(***************************************************************************)
EXTENDS MockClient

CONSTANTS Levels,      \* the prices of the grid, one apart
          MaxHedges    \* bound: hedges opened in a behaviour

ASSUME SimulationAssumption == Levels \subseteq Prices /\ MaxHedges \in Nat

VARIABLES
  th,        \* the goroutines, by the order whose callback they are
  gmuHeld,   \* g.mu is held by the monitor's goroutine across its calls
  orders,    \* the keys of g.orders
  info,      \* the strategy's Order of every id, also after it left orders
  halted,    \* g.state = StateHaltedForHedging
  acc,       \* the grid's accountant
  booked,    \* history: the orders whose trade OnTrade passed on
  hedges,    \* the risk manager's hedges: opened and closed
  closing,   \* the way the liquidation went: "no", "orders" or "zeroed"
  notify     \* onOrderUpdate # nil

grid == <<gmuHeld, orders, info, halted, acc, booked>>
risk == <<hedges, closing>>
vars == <<mock, th, grid, risk, notify>>

Monitor == 0
Thread == OrderId \cup {Monitor}

Untracked == [kind |-> "NONE", level |-> 0, status |-> "NONE"]
Placed(kind, l) == [kind |-> kind, level |-> l, status |-> "NEW"]

(* What a goroutine is about to do, the order it does it for, the status   *)
(* it was told, the order it has placed, the position it has read; and the *)
(* monitor's list of what is left to cancel, place or poll.                *)
Idle == [pc |-> "idle", order |-> 0, status |-> "NONE", new |-> 0, amt |-> 0, todo |-> {}]

(* OnOrderUpdate is entered: only a fill is looked up.                     *)
Entered(g, i, s) ==
  [g EXCEPT !.pc = IF s = "FILLED" THEN "fetch" ELSE "section", !.order = i, !.status = s]
(* It returns: a callback ends, the monitor goes on polling.               *)
Returned(t) == [Idle EXCEPT !.pc = IF t = Monitor THEN "poll" ELSE "idle", !.todo = th[t].todo]

GoTo(t, pc) == th' = [th EXCEPT ![t].pc = pc]
Return(t) == th' = [th EXCEPT ![t] = Returned(t)]

(* The exchange tells of a change in a goroutine of its own ("Deadlock     *)
(* fix"): whoever caused the change does not wait for it.                  *)
InlineNotify(threads, ids, s) ==                     \* mutant
  [threads EXCEPT ![Monitor] =
     IF notify /\ ids # {} /\ s = "CANCELED" THEN Entered(@, CHOOSE i \in ids : TRUE, s) ELSE @]
CancelsOnly(threads, ids, s) ==                      \* mutant
  [t \in Thread |-> IF notify /\ t \in ids /\ s = "CANCELED" THEN Entered(Idle, t, s)
                    ELSE threads[t]]
Notify(threads, ids, s) ==
  [t \in Thread |-> IF notify /\ t \in ids THEN Entered(Idle, t, s) ELSE threads[t]]

-----------------------------------------------------------------------------
(* OnOrderUpdate and what it calls, in the monitor's goroutine or in that  *)
(* of a callback.                                                          *)

(* The monitor's goroutine may hold g.mu itself; a Go mutex is not         *)
(* reentrant, so that whoever wants it waits.                              *)
GmuFree == ~gmuHeld

(* GetOrder in OnOrderUpdate: the exchange's lock is only given while no   *)
(* tick writes, so that what is read later is whole.                       *)
SkipFetch(t) == TRUE                                 \* mutant
LockForFetch(t) == LockFree

FetchFill(t) ==
  /\ th[t].pc = "fetch" /\ LockForFetch(t)
  /\ GoTo(t, "section")
  /\ UNCHANGED <<mock, grid, risk, notify>>

AnyNews(i, s) == TRUE                                \* mutant
IsNews(i, s) == i \in orders /\ info[i].status # s

Section(t) ==
  LET i == th[t].order
      s == th[t].status
  IN
  /\ th[t].pc = "section" /\ GmuFree
  /\ IF ~IsNews(i, s) THEN Return(t) /\ UNCHANGED grid
     ELSE /\ info' = [info EXCEPT ![i].status = s]
          /\ orders' = IF s \in {"FILLED", "CANCELED"} THEN orders \ {i} ELSE orders
          /\ IF s = "FILLED"
               THEN /\ acc' = RecordTrade(acc, book[i].side, book[i].avg, book[i].exec)
                    /\ booked' = booked \cup {i}
                    /\ GoTo(t, IF info[i].kind = "OPEN" THEN "place" ELSE "relist")
               ELSE Return(t) /\ UNCHANGED <<acc, booked>>
          /\ UNCHANGED <<gmuHeld, halted>>
  /\ UNCHANGED <<mock, risk, notify>>

(* relistOpenOrder reads the halt before it calls the exchange.            *)
CheckHalt(t) ==
  /\ th[t].pc = "relist" /\ GmuFree
  /\ IF halted THEN Return(t) ELSE GoTo(t, "place")
  /\ UNCHANGED <<mock, grid, risk, notify>>

GridOrder(kind, l) == IF kind = "OPEN" THEN Limit("BUY", l) ELSE Limit("SELL", l + 1)
NewKind(t) == IF info[th[t].order].kind = "OPEN" THEN "CLOSE" ELSE "OPEN"

PlaceNext(t) ==
  /\ th[t].pc = "place"
  /\ IF NextId \notin OrderId THEN LockFree /\ Return(t) /\ UNCHANGED mock
     ELSE /\ PlaceOrder(GridOrder(NewKind(t), info[th[t].order].level))
          /\ th' = [th EXCEPT ![t].pc = "record", ![t].new = NextId]
  /\ UNCHANGED <<grid, risk, notify>>

RecordNext(t) ==
  /\ th[t].pc = "record" /\ GmuFree
  /\ orders' = orders \cup {th[t].new}
  /\ info' = [info EXCEPT ![th[t].new] = Placed(NewKind(t), info[th[t].order].level)]
  /\ Return(t)
  /\ UNCHANGED <<mock, gmuHeld, halted, acc, booked, risk, notify>>

OnOrderUpdate(t) ==
  FetchFill(t) \/ Section(t) \/ CheckHalt(t) \/ PlaceNext(t) \/ RecordNext(t)

-----------------------------------------------------------------------------
(* The goroutine that starts the grid and runs the monitor.                *)

InitOrder(l) ==
  /\ th[Monitor].pc = "init" /\ l \in th[Monitor].todo
  /\ PlaceOrder(GridOrder("OPEN", l))
  /\ orders' = orders \cup {NextId}
  /\ info' = [info EXCEPT ![NextId] = Placed("OPEN", l)]
  /\ th' = [th EXCEPT ![Monitor].todo = @ \ {l}]
  /\ UNCHANGED <<gmuHeld, halted, acc, booked, risk, notify>>

EndInit ==
  /\ th[Monitor].pc = "init" /\ th[Monitor].todo = {}
  /\ gmuHeld' = FALSE
  /\ GoTo(Monitor, "risk")
  /\ UNCHANGED <<mock, orders, info, halted, acc, booked, risk, notify>>

AtRisk == th[Monitor].pc = "risk"
InStressTest == mode = "bhls_stress_test"

BeginHalt ==
  /\ AtRisk /\ GmuFree /\ ~halted
  /\ gmuHeld' = TRUE /\ halted' = TRUE
  /\ th' = [th EXCEPT ![Monitor].pc = "halt",
                      ![Monitor].todo = {i \in orders : info[i].kind = "OPEN"}]
  /\ UNCHANGED <<mock, orders, info, acc, booked, risk, notify>>

(* An order that is not there any more is only logged.                     *)
HaltCancels(i) ==
  LET left == [th EXCEPT ![Monitor].todo = @ \ {i}] IN
  /\ th[Monitor].pc = "halt" /\ i \in th[Monitor].todo /\ LockFree
  /\ IF i \in resting THEN CancelOrder(i) /\ th' = Notify(left, {i}, "CANCELED")
     ELSE th' = left /\ UNCHANGED mock
  /\ UNCHANGED <<grid, risk, notify>>

EndHalt ==
  /\ th[Monitor].pc = "halt" /\ th[Monitor].todo = {}
  /\ gmuHeld' = FALSE
  /\ GoTo(Monitor, "risk")
  /\ UNCHANGED <<mock, orders, info, halted, acc, booked, risk, notify>>

OpenHedge ==
  /\ AtRisk /\ InStressTest /\ hedges.opened < MaxHedges
  /\ PlaceOrder(Market("SELL", HedgeSide, 1, FALSE))
  /\ hedges' = [hedges EXCEPT !.opened = @ + 1]
  /\ UNCHANGED <<th, grid, closing, notify>>

CloseHedge ==
  /\ AtRisk /\ InStressTest /\ hedges.closed < hedges.opened
  /\ PlaceOrder(Market("BUY", HedgeSide, 1, TRUE))
  /\ hedges' = [hedges EXCEPT !.closed = @ + 1]
  /\ UNCHANGED <<th, grid, closing, notify>>

(* LiquidateAndStop: a position is read, and an order placed for what was  *)
(* read; first the grid's side, by its name in small letters, and then the *)
(* hedge's.                                                                *)
BeginLiquidation ==
  /\ AtRisk /\ InStressTest
  /\ GoTo(Monitor, "readMain")
  /\ UNCHANGED <<mock, grid, risk, notify>>

ReadPosition(pc, s, place, next) ==
  /\ th[Monitor].pc = pc /\ LockFree
  /\ th' = [th EXCEPT ![Monitor].amt = pos[s],
                      ![Monitor].pc = IF pos[s] = 0 THEN next ELSE place]
  /\ UNCHANGED <<mock, grid, risk, notify>>

CloseOrder(posSide) ==
  Market(IF th[Monitor].amt > 0 THEN "SELL" ELSE "BUY", posSide, Magnitude(th[Monitor].amt), TRUE)

ClosePosition(pc, posSide, next) ==
  LET o == CloseOrder(posSide) IN
  /\ th[Monitor].pc = pc
  /\ IF IsLiquidationTrigger(o) THEN Liquidate /\ closing' = "zeroed"
     ELSE IF NextId \notin OrderId THEN LockFree /\ UNCHANGED <<mock, closing>>
     ELSE PlaceOrder(o) /\ closing' = IF closing = "no" THEN "orders" ELSE closing
  /\ GoTo(Monitor, next)
  /\ UNCHANGED <<grid, hedges, notify>>

(* The panic is in a goroutine of its own: until it is run, everything     *)
(* else goes on.  The monitor is not followed any further, which by then   *)
(* could only poll.                                                        *)
Panic ==
  /\ th[Monitor].pc = "stop"
  /\ GoTo(Monitor, "idle")
  /\ UNCHANGED <<mock, grid, risk, notify>>

LiquidateAndStop ==
  \/ BeginLiquidation
  \/ ReadPosition("readMain", MainSide, "sellMain", "readHedge")
  \/ ClosePosition("sellMain", "long", "readHedge")
  \/ ReadPosition("readHedge", HedgeSide, "buyHedge", "stop")
  \/ ClosePosition("buyHedge", HedgeSide, "stop")
  \/ Panic

-----------------------------------------------------------------------------
(* The poll.  The status is read through the pointer, once to compare it   *)
(* and once to pass it on; as it never goes back to an earlier one, that   *)
(* is the same as reading it when it is passed on.                         *)

BeginPoll ==
  /\ AtRisk /\ GmuFree
  /\ th' = [th EXCEPT ![Monitor].pc = "poll",
                      ![Monitor].todo = {i \in orders : info[i].status = "NEW"}]
  /\ UNCHANGED <<mock, grid, risk, notify>>

PollGet(i) ==
  /\ th[Monitor].pc = "poll" /\ i \in th[Monitor].todo /\ LockFree
  /\ th' = [th EXCEPT ![Monitor].pc = "got", ![Monitor].order = i, ![Monitor].todo = @ \ {i}]
  /\ UNCHANGED <<mock, grid, risk, notify>>

PollRead ==
  LET i == th[Monitor].order IN
  /\ th[Monitor].pc = "got"
  /\ \E s \in StatusRead(i) :
       th' = [th EXCEPT ![Monitor] =
                IF info[i].status = s THEN Returned(Monitor) ELSE Entered(@, i, s)]
  /\ UNCHANGED <<mock, grid, risk, notify>>

EndPoll ==
  /\ th[Monitor].pc = "poll" /\ th[Monitor].todo = {}
  /\ th' = [th EXCEPT ![Monitor] = [Idle EXCEPT !.pc = "risk"]]
  /\ UNCHANGED <<mock, grid, risk, notify>>

MonitorStep ==
  \/ \E l \in Levels : InitOrder(l)
  \/ EndInit
  \/ BeginHalt \/ (\E i \in OrderId : HaltCancels(i)) \/ EndHalt
  \/ OpenHedge \/ CloseHedge \/ LiquidateAndStop
  \/ BeginPoll \/ (\E i \in OrderId : PollGet(i)) \/ PollRead \/ EndPoll

-----------------------------------------------------------------------------
(* The simulator's goroutine: it tells of the fills of a tick when it has  *)
(* given c.mu back.                                                        *)

Simulator ==
  /\ BeginTick \/ WriteOrder
  /\ th' = Notify(th, FilledByTick, "FILLED")
  /\ UNCHANGED <<grid, risk, notify>>

Goroutine(t) == OnOrderUpdate(t) \/ (t = Monitor /\ MonitorStep)

Init ==
  /\ MockInit
  /\ th = [t \in Thread |-> IF t = Monitor THEN [Idle EXCEPT !.pc = "init", !.todo = Levels]
                            ELSE Idle]
  /\ gmuHeld = TRUE /\ orders = {} /\ info = [i \in OrderId |-> Untracked]
  /\ halted = FALSE /\ acc = NewAccountant /\ booked = {}
  /\ hedges = [opened |-> 0, closed |-> 0] /\ closing = "no"
  /\ notify \in BOOLEAN

Next == (\E t \in Thread : OnOrderUpdate(t)) \/ MonitorStep \/ Simulator

Spec == Init /\ [][Next]_vars

(* A Go mutex that was waited for too long is handed to whoever waited     *)
(* ("starvation mode"): a goroutine that asks for a lock again and again   *)
(* free gets it.  Once the panic is on its way, the process may stop at    *)
(* any moment, and nothing has to happen any more.                         *)
Up == th[Monitor].pc # "idle"

FairSpec ==
  /\ Spec
  /\ \A t \in Thread : SF_vars(Up /\ Goroutine(t))
  /\ WF_vars(Up /\ Simulator)

-----------------------------------------------------------------------------
(* What is in the variables, the grid's position bounded by its levels.    *)
TypeOK ==
  /\ MockTypeOK
  /\ th \in [Thread -> [pc : {"idle", "init", "risk", "halt", "readMain", "sellMain", "readHedge",
                              "buyHedge", "stop", "poll", "got", "fetch", "section", "relist",
                              "place", "record"},
                        order : 0 .. MaxOrders, status : MockStatus \cup {"TORN", "NONE"},
                        new : 0 .. MaxOrders, amt : Int, todo : SUBSET (OrderId \cup Levels)]]
  /\ gmuHeld \in BOOLEAN /\ halted \in BOOLEAN /\ notify \in BOOLEAN
  /\ orders \subseteq DOMAIN book /\ booked \subseteq DOMAIN book
  /\ info \in [OrderId -> [kind : {"NONE", "OPEN", "CLOSE"}, level : Levels \cup {0},
                           status : MockStatus \cup {"TORN", "NONE"}]]
  /\ acc \in AccountantType /\ acc.qty \in 0 .. Cardinality(Levels)
  /\ hedges \in [opened : 0 .. MaxHedges, closed : 0 .. MaxHedges]
  /\ closing \in {"no", "orders", "zeroed"}

(* The accountant and the exchange agree on every order whose trade was    *)
(* booked: each counts once, with the price and the quantity the exchange  *)
(* settled it at, whichever goroutine booked it and whatever the simulator *)
(* was writing at the time.                                                *)
AccountsAgree ==
  /\ acc.qty = MapThenSumSet(LAMBDA i : Signed(book[i].side, book[i].exec), booked)
  /\ BookCash(acc) = Whole(MapThenSumSet(LAMBDA i : -Signed(book[i].side, book[i].exec * book[i].avg),
                                         booked))

(* An order moves the position once: as long as nothing was liquidated,    *)
(* the positions are the sum of the orders the simulator is done with.     *)
Settled == {i \in DOMAIN book : book[i].status = "FILLED"} \ ToSet(sim.done)

PositionMatchesFills ==
  closing = "no" =>
    \A s \in Sides :
      pos[s] = MapThenSumSet(LAMBDA i : Signed(book[i].side, book[i].qty),
                                 {i \in Settled : book[i].posSide = s})

(* Nothing is sold that was not bought: the long side never turns short    *)
(* before a liquidation, and the hedge never turns long unless the         *)
(* liquidation went by orders that the exchange does not hold to their     *)
(* ReduceOnly; the way that zeroes the positions first settles what is     *)
(* still pending.                                                          *)
PositionsKeepSign ==
  /\ closing = "no" => pos[MainSide] >= 0
  /\ closing # "orders" => pos[HedgeSide] <= 0

(* A fill of the grid is booked in the end: what a callback misses because *)
(* the order was not recorded yet, the poll finds, and what the poll loses *)
(* because it read a torn status, the callback brings.  Only without a     *)
(* callback is an order lost whose status was read torn.  As the orders of *)
(* a behaviour are bounded, "again and again no fill is left" says so of   *)
(* each of them.                                                           *)
GridFilled(i) == Used(i) /\ book[i].type = "LIMIT" /\ book[i].status = "FILLED"
FillsBooked ==
  []<>(\A i \in OrderId :
         GridFilled(i) => i \in booked \/ (~notify /\ info[i].status = "TORN") \/ ~Up)

(* Both mutexes are always given back: neither the halt, which calls the   *)
(* exchange under g.mu, nor the simulator, which tells of fills that need  *)
(* g.mu, waits for the other.                                              *)
LocksReleased == []<>(~gmuHeld \/ ~Up) /\ []<>(LockFree \/ ~Up)
=============================================================================
