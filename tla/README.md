# QuantFortressBot in TLA+

QuantFortressBot runs a grid of limit orders on a futures exchange.  An *open
order* rests on every grid level; when one is filled the bot places its *close
order* one step away; when that is filled the level is *relisted*.  A risk
manager may halt the grid and hold a hedge position on the other side, an
investment manager may pause new positions, and a small JSON file carries what
the exchange does not know over a restart.

This directory holds the specifications of that machinery, the TLC
configurations that check them, and TLAPS proofs.  Every definition that models
code is tied to its lines in `PROJECT.json` ("map"); below is how to read it.

    tlc -workers 2 -config grid_restarts.cfg MCGridBot    # any run
    tlapm GridBotProofs.tla                               # any proof module

## The system

| Component | State it keeps | Operations | Talks to |
|---|---|---|---|
| Grid strategy (`strategy/grid.go`) | `orders`, `activePositions`, `pendingOrders`, trading/halted, paused flag | InitOrders, RetryPlacePendingOrders, OnOrderUpdate (-> placePairedCloseOrder, relistOpenOrder), RestoreMonitoredOrders, HaltForHedging, ResumeTrading, SetTradingHalted | exchange (place, cancel, get), accountant and state manager by callback |
| Orchestrator (`orchestrator.go`) | the other components, a context and a wait group | NewOrchestrator (idle check, state file, reconciliation), Start, Stop | everything |
| Monitor loop (`monitor/rest.go`) | none across ticks | one tick: price, investment verdict, risk actions, poll, retry | strategy, risk manager, accountants, exchange |
| State manager (`state/state.go`) | `AppState` in memory, the file, a mutex | load, AddPairedPrice, RemovePairedPrice, three profit/risk updates, save | file system |
| API client (`exchange/client.go`) | clock offset, symbol cache, a mutex | one request per method of `exchange.Client` | the exchange |
| Mock client (`exchange/mock_client.go`) | a simulated book, positions, a price goroutine | the same interface | callback |
| Accountant (`profit/accounting.go`) | quantity, average cost, realized profit | RecordTrade, RecordPNL, Restore | - |
| Take profit (`profit/grid_ttp_manager.go`, `ttp_actions.go`) | trailing high, flags | Check, Execute | exchange; not wired up |
| Investment manager (`investment/`) | limit exceeded | CheckAndUpdate | exchange |
| Risk manager (`risk/`) | its hedges (the implementation is not in the repository) | CheckAndManageRisk returns actions | monitor |
| Sizing and rounding (`orchestrator.go`, `utils/math.go`) | the quantity of an order | NewOrchestrator's safe quantity, placeOrder's rounding | strategy, exchange |
| Configuration (`config/config.go`) | the settings | LoadConfig, Validate | everything |
| Logging, entry point | - | - | - |

Against the real exchange two goroutines matter: the one of `main` (start-up,
then Stop) and the monitor's, which does all the trading.  The strategy is only
ever used by one of them at a time, so its interleavings are with the
*exchange*, which trades between any two requests, and with *crashes*; the state
manager, the accountants and the risk manager are used by both while Stop runs.
Against the mock exchange there are more: the price simulator, which holds the
exchange's mutex for a tick, and one goroutine for every order it tells the
strategy about.  They and the monitor meet at two mutexes, `c.mu` of the
exchange and `g.mu` of the strategy.

### What makes each part correct, and what is hard

* **Strategy.**  Each filled open order is answered by exactly one close order,
  each order booked once, no level bought twice, nothing opened while halted.
  Hard: fills between two polls or while orders are being cancelled, partial
  fills, refused requests, replies that are lost after the exchange has
  accepted, a crash between placing a close order and saving its pairing.
* **Start-up.**  The right choice between a new grid and the old one, from
  several separate reads of the exchange and a file that may be stale.
* **State manager.**  A file that can always be read back and holds what was
  acknowledged.  Hard: two goroutines, crashes inside a save, failing writes.
* **Stop.**  Profits are saved and nothing happens afterwards.  Hard: the
  monitor is still running while Stop reads what it will save.
* **Circuit breaker.**  Both positions are closed and none is opened.  Hard:
  the grid trades on, requests fail, GetPositionInfo may answer with the other
  side's position.
* **Investment.**  The grid costs no more than configured, and pauses exactly
  when the positions are worth that much.  Hard: a quantity that is rounded
  twice, a check that reads twice, fails half-way, or is answered with the
  wrong position.
* **Prices.**  A level earns something whenever it closes.  Hard: both its
  prices are rounded, for the close order from a price already rounded.
* **Accountant.**  Quantity, cost and profit agree with what the exchange
  settled.  Hard: two goroutines report the same fill; restarts forget the
  quantity.
* **Mock exchange.**  An order moves the position once, every fill reaches the
  strategy, and nobody waits for ever.  Hard: callbacks under two locks, and a
  status that is read while it is written.

`PROJECT.json` ("hazards") lists these one by one with their lines and the
properties that cover them.

## The modules

    Exchange <- GridStrategy <- GridBot <- MCGridBot          TLC
                                  |  \---- GridBotProofs <- GridBotTheorems <- GridLevelProofs
                                  +-- GridLevels              (refined by GridBot)
    StateManager -- DurableStore (refined)   StateManager <- StateManagerProofs
    Fractions <- Accountant <- Lifecycle <- MCLifecycle
                     |              \------ LifecycleProofs
                     \------- MockClient <- Simulation <- MCSimulation
                                                   \--- SimulationProofs
    OrderSizing <- Positions <- Investment ----\
                       \------- CircuitBreaker -- Monitor <- MCMonitor
                                                    \------- MonitorProofs
    SumLemmas <- MonitorProofs, SimulationProofs

**Exchange** is external: the order book behind `exchange.Client`.  An order
has a side, a level, a status and the lots executed; it trades lot by lot, may
be cancelled by hand or expire.  `OrderId` is the bound: without a free id
the exchange refuses.

**GridStrategy** is `strategy/grid.go`.  `orders`, `active`, `pending`,
`gstate`, `invHalted` are the struct's fields, `pairs` and `file` the pairings
in the state manager's memory and on disk.  `pc`, `todo`, `queue`, `cur`,
`price`, `placed`, `tries`, `ret` are the locals of the one goroutine that
runs it.  Every network call made without the lock, or in a loop, is a step
of its own:

| Code | Actions |
|---|---|
| InitOrders | InitPlace, InitPutOff (-4024), InitAbort, InitDone |
| GetMonitoredOrders + the poll | BeginPoll, See |
| OnOrderUpdate | SeeNothing, SeeProgress, SeeOpenFilled, SeeCloseFilled, SeeCanceled |
| placePairedCloseOrder | PlaceClose, PlaceCloseFail, RecordClose |
| relistOpenOrder | CallRelist (flags read once), RelistPlace, RelistFail |
| RetryPlacePendingOrders | BeginRetry, RetryPlace, RetryFail, RetryDone |
| HaltForHedging | Halt, HaltCancel, HaltDone |
| ResumeTrading | Resume, ResumeNext, ResumeDone |

`RetryPlacePendingOrders` skips when `g.state` is not trading, but not on the
investment pause; the model follows it.  Prices are grid levels.  Two formatters
produce price strings - the exchange's fixed precision and
`strconv.FormatFloat(p, 'f', -1, 64)` - and a price read back may be another
float; `FixedStr`, `ShortStr`, `RoundTrip` and `FullWidth` say which strings
are equal, and nothing more of the text is kept.  `src` and `booked` are
history: which open order a close order answers, and how often OnTrade was
called for an order.

**GridBot** adds start-up (`NewOrchestrator`, `reconcileStateOnStartup`,
`RestoreMonitoredOrders`) in the order of its reads, the tick of the monitor,
the exchange between any two steps, and `Crash`.  `Env` selects what the
surroundings do: refused requests, lost replies, withdrawn orders, failing
saves, crashes, the risk manager, the investment limit.  Where the risk manager
may have opened a hedge, the exchange may leave the grid's side out of its
listing and the client answer with the hedge (`FoundHedge`): what would be a
cold start becomes a warm one.

**GridLevels** is the abstract grid: a level is free, open, held, and free
again.  `GridBot!ImplementsGrid` maps each level to what the exchange's book
says of it.

**StateManager** is `state/state.go`: callers wait for the mutex, change and
marshal, write the temporary file in two steps (a crash leaves it torn), rename
it, and unlock; every file operation may fail.  `acked` is history: the newest
version some call returned nil for.  **DurableStore** is what this promises.

**Accountant** is `profit/accounting.go`: quantity, average cost and realized
profit, in the exact fractions of **Fractions**.  Every method holds its mutex
throughout, so each is one operator on the accountant.

**Lifecycle** is the frame around the bot: start-up's reconciliation of hedge
records and profits, the monitor's hedge actions and trades, and Stop, one
step per lock it takes, over several runs.  Of the grid one level is followed,
bought and sold in turn, with the real RecordTrade and a unit profit; `level`
is what the exchange has there, and it may fill while nobody is running.  Hedge
profits are counted.  Saving is one step, which StateManager justifies.
`GetFullState` hands out the state manager's own BHLS record, so the calibration
is made in it.  Start-up decides on what `GetPositionInfo` answers, not on the
positions themselves: with `"sparse"` in `Env` the exchange lists no empty side,
and a side that is not listed is answered with the other (`Found`).

**MockClient** is `exchange/mock_client.go`: `book`, `resting`, `price`, `pos`
are the fields that `c.mu` guards, `sim` is the price simulator in its tick.
Orders are settled one by one and, because `GetOrder` hands out a pointer, a
status may be read while it is written: the old one, the new one, or - a Go
string is two words - one that is neither (`"TORN"`).  **Simulation** runs the bot
on it:

| Code | Actions |
|---|---|
| runPriceSimulator | BeginTick, WriteOrder (with EndTick), then one goroutine per fill |
| OnOrderUpdate, by poll or callback | FetchFill, Section, CheckHalt, PlaceNext, RecordNext |
| InitOrders, HaltForHedging (keep `g.mu` across calls) | InitOrder, EndInit; BeginHalt, HaltCancels, EndHalt |
| hedges, LiquidateAndStop | OpenHedge, CloseHedge; ReadPosition, ClosePosition (Liquidate), Panic |
| poll | BeginPoll, PollGet, PollRead, EndPoll |

Nothing under `src/` registers the callback, so both cases are explored
(`notify`).  `ReduceOnly` means nothing on the mock's regular path.

**OrderSizing** is the arithmetic, in integers: what Validate lets through, the
quantity NewOrchestrator derives from the investment, and what placeOrder does
to a price and a quantity.  Computed prices are scaled by the number of levels,
so that the distance of two levels is a whole number.  **Positions** is what
investment and breaker look at, and how: `GetPositionInfo` with its fallback.
**Investment** is `CheckAndUpdate`, with one step per request; `check` also
remembers what the positions were worth at the moment they were read.
**CircuitBreaker** is `LiquidateAndStopAction` with the reduceOnly rule of
`PlaceOrder`, which the exchange is taken to enforce as the comment there states
it: a closing order "cannot" carry reduceOnly, and one that opens does not
reduce, so that it refuses every order that carries it.  **Monitor** composes them: Boot sizes the orders, then tick after
tick the check, the risk manager's hedges and, when it gives up, the
liquidation, while grid and price move.  A tick whose GetPrice fails is skipped
altogether, a stutter.

## The runs

| Run | Instance | Asks |
|---|---|---|
| `grid_restarts` | long, 2 levels, 4 orders of 2 lots, 3 attempts; refusals, withdrawals, -4024, pauses, crashes | TypeOK, CloseBacked, NeverOversold, TradeBookedOnce, LevelExclusive, PairingOnDisk, NoGhostOrders, ImplementsGrid |
| `grid_hedging` | short, same size, 2 attempts; risk manager, lost replies, failing saves, crashes | CloseBacked, NeverOversold, TradeBookedOnce, HaltedPlacesNothing |
| `grid_fair` | long, 2 levels, 4 orders of 2 lots, 2 attempts; withdrawals and pauses, fair | FillAnswered, LevelsServed |
| `state_manager` | two goroutines, one order id, 3 updates, fair | TypeOK, FileWhole, AckedDurable, ImplementsStore, EveryCallReturns |
| `lifecycle` | two runs of the process, 2 profits, everything may go wrong, fair | TypeOK, HedgeKnown, HedgeProfitExact, GridProfitKept, SilentAfterStop, StopReturns |
| `monitor` | long; 8 configurations, some refused, 4 sets of symbol rules, positions up to 2 grid orders, failing requests, incomplete listings | TypeOK, GridAffordable, SpreadKept, OverLimitNoticed, PauseHasCause, HedgeFlattened, LiquidationOnlyReduces |
| `simulation` | 1 level, 4 orders, 2 prices, 1 hedge; sine wave and stress test, with and without callback, fair | TypeOK, AccountsAgree, PositionMatchesFills, PositionsKeepSign, FillsBooked, LocksReleased |
| `resume_free_levels`, `grid_profit_exact`, `hedges_follow_exchange`, `breaker_short`, `breaker_main` | the smallest instance that shows it | one sentence of the source each, which the code does not keep |

The last row's runs are the ones in which TLC finds a counterexample.
`breaker_main` and `breaker_short` need one configuration and symbol and an
exchange that answers and lists everything, `grid_profit_exact` nothing going
wrong at all.

**Bounds.**  Two levels and four orders let one level go through open, filled,
closed and relisted while the other stands in any state, or both be filled and
answered; a second grid laid over a first would need three orders.  Two lots
make partial fills.  Both directions are run; the code differs between
them in side and in the sign of a step only.  Hedging is not combined with
refusals, nor restarts with lost replies, to keep the runs short: the
proofs below cover all combinations.  Three updates by two goroutines put a
save of each in progress with a third to follow.  Two runs of the process
show restored profits; two profits show accumulation.  In `simulation` one level
goes through open, close and relisted while a hedge is opened and closed, or
leaves room for the liquidation's orders; at the bound `PlaceOrder` fails, which
the mock never does.  `MCSimulation` also evaluates `AverageCostIsFair`: on every
history of up to three trades of two sizes and three prices the accountant
neither makes nor loses money.  The configurations of `monitor` have three levels
or fewer that divide the range or do not, totals that buy a little or nothing,
and levels closer than a tick; its symbols have and lack filters.  Positions up
to two orders let the grid trade between a read and the order it leads to, and
the limit be reached by one position or by both.

`monitor` is the one run that does not check deadlock: a configuration that is
refused never starts.

**Symmetry.**  Order ids are interchangeable (no step picks a special one);
`IdSymmetry` is used only in the runs without liveness.

**Fairness.**  `GridBot`: weak fairness of the bot's steps together - one
goroutine does them all, its ticker does not stop, and every loop is finite.
The exchange is not fair.  `StateManager`: file operations return (weak), and
Go's mutex hands itself to a waiter that has starved (strong fairness of
taking it).  `Lifecycle`: the steps of Stop and of the monitor proceed (weak);
a `select` whose stop channel stays closed chooses it eventually (strong).
`Simulation`: every goroutine is strongly fair, since a Go mutex is handed to
whoever has waited too long, and the simulator's ticker does not stop (weak);
after the panic nothing has to happen any more (`Up`).

**What the runs do not claim.**  LevelExclusive, ImplementsGrid and
NoGhostOrders are false with lost replies - an order nobody tracks stays on the
exchange - and LevelExclusive is false with the risk manager, because of what
`resume_free_levels` shows.  FillAnswered is false when a close order is
refused (it is not tried again) and when a crash falls between the fill and its
close order.  LevelsServed is about levels none of whose orders was withdrawn in
a behaviour without a pause: a close order that fills during one gives its
level up, and no property says that it must not.  HedgeProfitExact and
GridProfitKept exempt runs in which a crash or a failed save lost something
(`unsaved`), and allow for what the monitor records between Stop's reading of
an accountant and the end of its tick (`missed`), which Stop does not wait for;
GridProfitKept also for the profit of positions that were held across a restart
(`carried`), which the accountant does not know of, and it excludes too little
profit in the file, not too much (`grid_profit_exact`).  HedgeKnown does not say
that a restored hedge exists, which is false where the exchange lists no empty
side.  HedgeFlattened asks only for the requests about the hedge to be
answered, and none of the passing properties says that the main position is
closed, which it is not (`breaker_main`).

FillsBooked exempts an order whose status was read torn when no callback is
registered: it keeps a status that nobody polls.  PositionsKeepSign says nothing
of the long side after a liquidation: opening orders still pending when the
mock zeroes its positions are settled afterwards.  GridAffordable allows what
rounding adds: half a tick and half a price unit for each order, and half a lot
where LOT_SIZE is coarser than QuantityPrecision or missing.
HaltedPlacesNothing is about a bot in which one goroutine does all the work,
OverLimitNoticed about what the positions were worth when each was read, and
SpreadKept about levels at least a tick apart and prices above zero; the lowest
level of a short grid may ask for a close price below it, which the exchange
refuses.

### Where the code and its comments part

* `resume_free_levels`: ResumeTrading compares grid prices with the `PriceStr`
  of tracked orders, which is empty for every order placed since the start; the
  "truly free" levels include held ones.
* `grid_profit_exact`: the restored profit is added to the saved one at every stop.
* `hedges_follow_exchange`: a cold start throws the calibrated hedge record away.
* `breaker_short`: `strat.Direction == "SHORT"` never holds; for a short grid the
  hedge is not closed.
* `breaker_main`: the breaker's close order for the main position names its side in
  small letters, PlaceOrder does not recognise it as a closing order, and it
  carries the reduceOnly that a closing order cannot carry.

These were met too and are modelled as they are, without a run of their own:

* RetryPlacePendingOrders looks at `g.state` only, and places pending open orders
  while the investment manager pauses opening (grid.go:161, invest_manager.go:82).
* Where the exchange lists no empty side, start-up takes the main position for the
  hedge and restores a hedge that does not exist (orchestrator.go:301, 314).
* Stop saves before it stops the monitor: what is recorded in between is not in the
  file (orchestrator.go:406-427).
* The "absolute safety" of the floored quantity is lost where LOT_SIZE is coarser
  than QuantityPrecision or missing, as for the mock exchange, whose symbol has one
  decimal: what was floored is rounded again to whole units (orchestrator.go:163,
  214, mock_client.go:164-173).
* A callback of the simulated exchange may read the halt, wait, and relist its
  open order when the halt has begun (grid.go:441-464).
* An entry of `activePositions` stored under one string is deleted under another
  (grid.go:250, 257).
* The poll passes OnOrderUpdate quantity and price in the order opposite to its
  parameters (rest.go:206, grid.go:195), without effect because neither is used.

## The proofs

All of them hold for every value of the constants that meets the assumptions
named in the modules (a finite set of order ids, at least one lot, level and
attempt, a direction; for the state manager, distinguishable file contents; for
the monitor, configurations and symbols of whatever size, whose units of
quantity are powers of ten), and for every `Env` unless the theorem says
otherwise.

* **GridBotProofs** proves `IInv` inductive: `TypeOK`, `Shape` and `Answered`.
  CloseBacked alone is not inductive.  `Shape` says how the strategy's memory
  fits the book: executed lots match the status, tracked orders exist and have
  the side their type claims, an order being answered is filled and no longer
  tracked.  `Answered` adds that a tracked or listed order has not been answered
  or booked yet - without which nothing would keep a fill from being answered
  twice - and that only live orders come back after a restart.  Each action has
  a lemma; steps that leave book, orders and history alone share `QuietStep`.
  Results: `TypeCorrect`, `FillsAnsweredOnce`, `TradesBookedOnce`.
* **GridBotTheorems**: `GridNeverOversells` maps each lot sold to the lot of the
  open order it answers, an injection by CloseBacked.  `HaltHolds` needs that
  everything that places open orders runs only while the grid trades
  (`PlacesWhileTrading`).  `PairingsSurvive` assumes that the file can be
  written and adds that memory and file agree (`PInv`).
* **GridLevelProofs** adds `LInv`, when every reply arrives: at most one order
  holds a level (`OneHolder`), which survives only because whoever is about to
  place an order has a level nobody holds (`Claims`): InitOrders, a relisting,
  a retry of a pending order each work from a list made before their requests.
  That needs `PricesKnown` (the price a close order goes back to is its level's,
  also after a restart), `BootsWell` (a start with orders on the exchange never
  lays a new grid over them) and `NeverResumes`.  The hypotheses are the cases
  in which the code does not keep it: a lost reply leaves an order on the
  exchange that nobody tracks, and ResumeTrading relists levels that are held.
  Results: `LevelsExclusive`; `GridImplemented`, each step of the bot and of the
  exchange a step of one level or none; `NoGhosts`, which also holds with the
  risk manager.
* **StateManagerProofs**: `SInv` says that only the holder of the mutex saves,
  that what it saves is what memory holds, and that memory is never older than
  the file nor the file than an acknowledgement.  From it `StoreTypes`,
  `FileNeverTorn`, `AckedIsDurable`, and the refinement `StoreImplemented`.
* **LifecycleProofs** proves `GInv`.  A profit is in one of several places at
  every step - the accountant's total, a local of Stop, the state manager's
  memory, the file - and the two sums the properties speak of have to be said of
  each place (`HedgeProfitFollowed`, `GridProfitFollowed`), with what was
  `missed` or carried over a restart taken out.  `AllWhole`, `WithinBounds` and
  the lemmas on `RecordTrade` (`Buying`, `Selling`, `MoneyAdds`) reduce the
  fractions of the accountant to whole numbers, which prices one unit apart
  give; `AccountantFollowsLevel` says that the accountant has what the
  level has, or one unit less: the one held when the process started.  What
  start-up finds for the hedge's side includes a hedge that exists
  (`FoundWhatExists`), however incomplete the listing, which gives
  `HedgeAlwaysKnown`.  Other results: `TypeCorrect`, `HedgeProfitSaved`,
  `GridProfitSaved`, `Silence`.
* **MonitorProofs** proves `MInv` for every configuration, symbol and direction:
  `TypeOK`, `Configured` (what runs was loaded, accepted and sized), the two
  verdict invariants and `MainSeen`, without which they are not inductive: half
  a check on, the notional read so far is no less than what the position was
  worth, and equal to it when it was answered exactly.  `NotionalCovers` is
  its heart: the fallback of GetPositionInfo answers for a position that is zero.
  Results: `MonitorTypes`, `OverLimitAlwaysNoticed`, `PauseAlwaysCaused`;
  `LiquidationReduces`, since an order that would open carries reduceOnly
  (`CloseReduces`); and `SpreadAlwaysKept`, from what rounding to a unit does to
  a distance (`NearestKeepsDistance`).
  `HedgeFlattenedIfLong` follows the hedge through the breaker (`HedgeEmptied`):
  once passed without a failure it is empty, and before its order is sent the
  reading is that of the position itself (`ReadFinds`), of which `CloseEmpties`
  then leaves nothing.  It assumes a long grid: for a short one it is false
  (`breaker_short`).  `MainNeverClosed` is the other side of `breaker_main`: an
  order whose position side has small letters is refused (`SmallLettersRefused`),
  so that no step of the monitor changes a long grid's main position.
  `GridAlwaysAffordable` adds up the levels: the floored quantity times the sum
  of the prices is within the total and what is sent at most half a lot above it
  (`SafeQtyIsSent`), each price sent is at
  most half of each unit it is rounded to above its level (`OrderPriceIsNear`),
  and so is their sum (`SumBound`).
* **SumLemmas** says of `MapThenSumSet`, whose recursion takes the elements in
  the order in which CHOOSE yields them, that the order does not matter: an
  element adds its value (`SumAdd`), functions that agree have one sum
  (`SumSame`).  The induction is on a set of numbers (`Induction`,
  `SmallSets`), not by the library's theorems, whose operator parameters the
  provers cannot instantiate; for the same reason the step from a
  `MapThenSumSet` of the model to `SumOf` is made where it is needed
  (`TotalIsSum`, `WholeGridIsSum`).

* **SimulationProofs** proves the four invariants of Simulation, for any number
  of orders, levels, prices and hedges.  Its inductive invariant comes in layers.
  - `MockInv` is the exchange's own: a tick holds each order once, only orders
    that are open, and an order is new exactly while it is open and not written
    (`Ticking`, `Statuses`).  One lemma per operation of the mock keeps it, and
    `BotMockStep` says that the bot does nothing else to it.  `BotInv` adds the
    types and that a goroutine is about an order that exists.
  - `Balanced` is PositionMatchesFills as a sum.  `TickSettles` unrolls the fold
    at the end of a tick (`TickFold`): what it moves a position by is the sum
    over the set of orders it filled, whatever their sequence, because no order
    is in it twice.
  - `GridInv` adds what the strategy's goroutines know: no order is booked
    twice, none before the simulator is done with it (`Known`), and what a
    goroutine carries from one step to the next - a fill it was told of, an order
    it has placed and not recorded - is still true when it is used (`Calls`).
  - `Backed` and `Bounded` count units.  Sales not booked and goroutines about to
    sell are no more than the accountant holds; levels not placed, purchases not
    booked, goroutines about to buy and what is held are no more than the levels.
    Neither is inductive without GridInv, nor the upper bound in TypeOK without
    them.
  - `QtyBooked` and `CashBooked` are the two halves of AccountsAgree.
    `TradeCash` says that RecordTrade changes the cash by the price, in exact
    fractions (`Of`: what a fraction is worth in parts of a common denominator).
    With Balanced and Backed, QtyBooked gives the grid's half of
    PositionsKeepSign: what is settled and not booked yet is at worst a sale of
    a unit that is held (`MainNotShort`).
  - `HedgeInv` gives the hedge's half.  What the hedge will be when all that is
    pending is settled (`Owed`) is what was opened and not closed; every tick
    fills all market orders there are (`AllFill`), so a position is only ever
    seen with none or all of them settled.  A liquidation that zeroes the
    positions first settles the purchases and leaves sales pending, so that
    buying back what is then read leaves nothing to buy too much of
    (`HedgeStops`).
  Results: `TypeAlwaysCorrect`, `PositionAlwaysMatchesFills`,
  `PositionsAlwaysKeepSign`, `AccountsAlwaysAgree`.

Model-checked only: everything under fairness (FillAnswered, LevelsServed,
EveryCallReturns, StopReturns, FillsBooked, LocksReleased), which is out of the
prover's reach, and AverageCostIsFair, whose trades turn the position over.

## Not modelled

* Pure input and output: the HTTP layer of the API client, YAML and environment
  variables, Validate's presence checks, logging, the printed summary, the
  heartbeat.
* The take-profit manager: the orchestrator passes nil for it and the monitor
  tests for that, so no behaviour of the program contains a step of it.
* The risk manager's decisions, whose code is not in the repository.  It may ask
  for anything at any tick; in Simulation it hedges and liquidates only under
  the stress test and closes no more hedges than it opened.
* Of the mock client: the setters for tests and the short stress test, entry
  price, notional and unrealized profit of its positions, CancelAllOpenOrders and
  GetOpenOrders, which nothing calls while the simulator runs.  On the sine wave
  any price follows any other.
* The errors of floating point, leverage, and the slippage of orders settled by
  force.
* Power failures: the file is never synced, and the model keeps what was
  written.

## Plan

Done: Exchange, GridStrategy, GridBot, GridLevels; StateManager, DurableStore;
Accountant, Lifecycle; MockClient, Simulation; OrderSizing, Positions,
Investment, CircuitBreaker, Monitor; the proofs above, by which every invariant,
action property and refinement that a run checks is a theorem.  What is left is
to prove more, in this order:

1. What AverageCostIsFair says of short histories, for every trade: that
   RecordTrade makes no money when it closes a part, turns the position over or
   books for a short one.
2. The properties that hold under hypotheses on `Env`, under weaker ones.
