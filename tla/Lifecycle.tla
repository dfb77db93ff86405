----------------------------- MODULE Lifecycle ------------------------------
(***************************************************************************)
(* orchestrator.go: one life of the process after another.  The goroutine  *)
(* of main reconciles profits and hedges with the state file and the       *)
(* exchange, starts the monitor, and on a signal saves what it reads and   *)
(* stops it; the monitor goroutine goes on recording trades and executing  *)
(* the risk manager's hedges meanwhile.                                    *)
(*                                                                         *)
(* The risk manager (risk.RiskManager) is not part of the repository: here *)
(* it opens a hedge when it has none and closes the one it has.  Whether   *)
(* there is a hedge is told apart, not its size.  Profits are counted in   *)
(* trades: each hedge earns 1, and so does each round trip of the grid, of *)
(* which one level is followed, bought and sold in turn, a unit at a time  *)
(* and prices that are one apart.                                          *)
(* A save is one step, which StateManager shows it may be taken for.       *)
(***************************************************************************)
EXTENDS Accountant

CONSTANTS Env,        \* what goes wrong in this instance
          MaxTrades,  \* bound: profits recorded in a behaviour
          MaxRuns     \* bound: starts of the process

EnvKinds == {"fail",      \* the exchange refuses a request
             "save",      \* the state file cannot be written
             "crash",     \* the process dies
             "user",      \* the user closes positions while the bot is down
             "market",    \* the grid's orders fill while the bot is down
             "others",    \* the account has open orders of other symbols
             "sparse"}    \* the exchange does not list the sides without a position

ASSUME EnvAssumption == Env \subseteq EnvKinds
ASSUME BoundAssumption == MaxTrades \in Nat /\ MaxRuns \in Nat

VARIABLES
  gridActive,  \* exchange: the symbol has open orders or a main position
  hedgePos,    \* exchange: there is a hedge position
  level,       \* exchange: what the grid has on the level, "open" an open order,
               \* "held" a position and its close order, "gone" neither
  file,        \* the state file
  kept,        \* StateManager's state in memory
  risk,        \* the risk manager's state
  gridAcc,     \* profitAccountant
  hedgePNL,    \* hedgeAccountant
  main,        \* where the goroutine of main is
  mon,         \* where the monitor goroutine is
  cancelled,   \* o.ctx is cancelled
  final,       \* Stop's local variables
  run,         \* history: number of this start
  start,       \* history: how this run was reconciled; "own" when the risk
               \* manager has since closed what a warm start restored
  earned,      \* history: profits since the grid or the file was new
  carried,     \* history: positions that were held when a run ended
  missed,      \* history: profits recorded when Stop had read their accountant
  unsaved      \* history: a crash or a failed save kept profits from the file

exchange == <<gridActive, hedgePos, level>>
store == <<file, kept>>
modules == <<risk, gridAcc, hedgePNL>>
threads == <<main, mon, cancelled, final>>
history == <<run, start, earned, carried, missed, unsaved>>
vars == <<exchange, store, modules, threads, history>>

NoRisk == [active |-> FALSE, hedges |-> FALSE, cum |-> 0]
NoState == [grid |-> Zero, risk |-> NoRisk]
NoProfit == [grid |-> 0, hedge |-> 0]
NoFinal == [hedge |-> 0, risk |-> NoRisk, grid |-> Zero]

Stopping == {"readHedge", "syncRisk", "readRisk", "saveRisk", "readGrid", "saveGrid",
             "cancel", "wait"}
Working == {"risk", "open", "close", "closed", "sync", "poll"}

Recorded == earned.grid + earned.hedge

Store(s) ==
  /\ kept' = s
  /\ \/ file' = s
     \/ "save" \in Env /\ file' = file

-----------------------------------------------------------------------------
(* NewOrchestrator: the state file of an idle exchange is removed.         *)

OtherOrders == IF "others" \in Env THEN BOOLEAN ELSE {FALSE}

(* GetPositionInfo: what it finds for one side, when that side has a       *)
(* position or not and the other does or not.  A side that is not listed   *)
(* is answered with a position of the other side, if there is one.         *)
Found(own, other) == {own} \cup (IF "sparse" \in Env THEN {own \/ other} ELSE {})

(* Besides the level that is followed the grid may hold others.            *)
MainPos ==
  IF level = "held" THEN {TRUE} ELSE IF gridActive THEN BOOLEAN ELSE {FALSE}
HedgeFound == UNION {Found(hedgePos, held) : held \in MainPos}

(* Open orders of the symbol, or an answer for the main position.          *)
GridFound == Found(gridActive, hedgePos)

(* What was earned is counted from a new grid or a new file on.            *)
ForgetProfits == earned' = NoProfit /\ carried' = 0 /\ missed' = NoProfit

IsTrulyIdle(grid, hedge, others) == ~grid /\ ~hedge /\ ~others

Boot ==
  /\ main = "down" /\ run < MaxRuns
  /\ \E grid \in GridFound, hedge \in HedgeFound, others \in OtherOrders :
       \/ IsTrulyIdle(grid, hedge, others) /\ ForgetProfits /\ file' = NoState
       \/ /\ ~IsTrulyIdle(grid, hedge, others) \/ "save" \in Env
          /\ UNCHANGED <<file, earned, carried, missed>>
  /\ kept' = file'
  /\ main' = "hedge"
  /\ run' = run + 1
  /\ UNCHANGED <<exchange, modules, mon, cancelled, final, start, unsaved>>

(* reconcileStateOnStartup: what is found for the hedge side decides what  *)
(* the record of the risk manager says.  GetFullState hands out the state  *)
(* manager's own BHLS record, so the correction is made in there.          *)
HedgesForgotten(r, hedge) == r                       \* mutant
Calibrated(r, hedge) ==
  [r EXCEPT !.hedges = hedge,
            !.active = hedge \/ (@ /\ ~r.hedges)]

ReadHedge ==
  /\ main = "hedge"
  /\ \/ /\ \E hedge \in HedgeFound : kept' = [kept EXCEPT !.risk = Calibrated(@, hedge)]
        /\ start' = "read"
     \/ /\ "fail" \in Env
        /\ kept' = kept
        /\ start' = "blind"
  /\ main' = "restore"
  /\ UNCHANGED <<exchange, file, modules, mon, cancelled, final, run, earned, carried, missed,
                 unsaved>>

(* Only the symbol's own orders and position matter here.  InitOrders      *)
(* makes the grid active.                                                  *)
ColdStart ==
  /\ main = "restore" /\ FALSE \in GridFound
  /\ risk' = NoRisk /\ hedgePNL' = 0 /\ gridAcc' = Restore(gridAcc, Zero)
  /\ gridActive' = TRUE /\ level' = "open"
  /\ start' = IF start = "read" THEN "cold" ELSE "blind"
  /\ ForgetProfits /\ unsaved' = FALSE
  /\ main' = "ready"
  /\ UNCHANGED <<hedgePos, store, mon, cancelled, final, run>>

PNLNotRestored == 0                                  \* mutant
RestoredHedgePNL == kept.risk.cum

(* A hedge found in place of the main position makes the start a warm one  *)
(* of a bot without a grid.                                                *)
WarmStart ==
  /\ main = "restore" /\ TRUE \in GridFound
  /\ risk' = kept.risk
  /\ hedgePNL' = RestoredHedgePNL
  /\ gridAcc' = Restore(gridAcc, kept.grid)
  /\ start' = IF start = "read" THEN "warm" ELSE "blind"
  /\ main' = "ready"
  /\ UNCHANGED <<exchange, store, mon, cancelled, final, run, earned, carried, missed, unsaved>>

(* Start.                                                                  *)
StartMonitor ==
  /\ main = "ready"
  /\ main' = "running" /\ mon' = "select"
  /\ UNCHANGED <<exchange, store, modules, cancelled, final, history>>

-----------------------------------------------------------------------------
(* monitor.Start: select between the stop channel and the ticker; a tick   *)
(* that has begun runs to its end.                                         *)

StopUnseen == FALSE                                  \* mutant
StopSeen == cancelled

SeeStop ==
  /\ mon = "select" /\ StopSeen
  /\ mon' = "off"
  /\ UNCHANGED <<exchange, store, modules, main, cancelled, final, history>>

Tick ==
  /\ mon = "select"
  /\ mon' = "risk"
  /\ UNCHANGED <<exchange, store, modules, main, cancelled, final, history>>

(* CheckAndManageRisk asks for nothing, a hedge, or the end of the hedge.  *)
NoAction ==
  /\ mon = "risk"
  /\ mon' = "poll"
  /\ UNCHANGED <<exchange, store, modules, main, cancelled, final, history>>

RiskOpens ==
  /\ mon = "risk" /\ ~risk.hedges
  /\ risk' = [risk EXCEPT !.hedges = TRUE, !.active = TRUE]
  /\ mon' = "open"
  /\ UNCHANGED <<exchange, store, gridAcc, hedgePNL, main, cancelled, final, history>>

RiskCloses ==
  /\ mon = "risk" /\ risk.hedges /\ Recorded < MaxTrades
  /\ risk' = [risk EXCEPT !.hedges = FALSE, !.active = FALSE]
  /\ mon' = "close"
  /\ start' = IF start = "warm" THEN "own" ELSE start
  /\ UNCHANGED <<exchange, store, gridAcc, hedgePNL, main, cancelled, final,
                 run, earned, carried, missed, unsaved>>

(* hedgeAccountant.RecordTrade follows: the opening trades of hedges are   *)
(* all of one direction and realize nothing; what closing one realizes     *)
(* comes in with RecordPNL.                                                *)
OpenHedge ==
  /\ mon = "open"
  /\ \/ hedgePos' = TRUE
     \/ "fail" \in Env /\ hedgePos' = hedgePos
  /\ mon' = "poll"
  /\ UNCHANGED <<gridActive, level, store, modules, main, cancelled, final, history>>

(* What is closed is what the records say, which may not be all there is.  *)
(* A reduce-only order is refused when there is nothing to reduce.         *)
CloseHedge ==
  /\ mon = "close"
  /\ \/ hedgePos /\ hedgePos' \in BOOLEAN /\ mon' = "closed"
     \/ (~hedgePos \/ "fail" \in Env) /\ hedgePos' = hedgePos /\ mon' = "poll"
  /\ UNCHANGED <<gridActive, level, store, modules, main, cancelled, final, history>>

(* Stop reads before it stops the monitor: a profit recorded after that    *)
(* misses the save, unless it is one of a hedge and Stop finds it with the *)
(* risk manager.                                                           *)
AfterGridRead == main \in {"saveGrid", "cancel", "wait"}
AfterHedgeRead == main \in Stopping \ {"readHedge"}

RecordHedge ==
  /\ mon = "closed"
  /\ hedgePNL' = hedgePNL + 1
  /\ earned' = [earned EXCEPT !.hedge = @ + 1]
  /\ missed' = [missed EXCEPT !.hedge = IF AfterHedgeRead THEN @ + 1 ELSE @]
  /\ mon' = "sync"
  /\ UNCHANGED <<exchange, store, risk, gridAcc, main, cancelled, final, run, start, carried,
                 unsaved>>

SetCumulativePNL ==
  /\ mon = "sync"
  /\ risk' = [risk EXCEPT !.cum = hedgePNL]
  /\ mon' = "poll"
  /\ UNCHANGED <<exchange, store, gridAcc, hedgePNL, main, cancelled, final, history>>

OnTrade(side, price) == gridAcc' = RecordTrade(gridAcc, side, price, 1)

(* The open order fills: OnTrade, the close order, and AddPairedPrice,     *)
(* which saves the whole state.                                            *)
GridBuys ==
  /\ mon = "poll" /\ level = "open"
  /\ OnTrade("BUY", 0)
  /\ \/ level' = "held" /\ Store(kept)
     \/ "fail" \in Env /\ level' = "gone" /\ UNCHANGED store
  /\ UNCHANGED <<gridActive, hedgePos, risk, hedgePNL, threads, history>>

(* The close order fills: OnTrade, RemovePairedPrice, and the relisting.   *)
GridSells ==
  /\ mon = "poll" /\ level = "held" /\ Recorded < MaxTrades
  /\ OnTrade("SELL", 1)
  /\ earned' = [earned EXCEPT !.grid = @ + 1]
  /\ missed' = [missed EXCEPT !.grid = IF AfterGridRead THEN @ + 1 ELSE @]
  /\ Store(kept)
  /\ \/ level' = "open"
     \/ "fail" \in Env /\ level' = "gone"
  /\ UNCHANGED <<gridActive, hedgePos, risk, hedgePNL, threads, run, start, carried, unsaved>>

EndTick ==
  /\ mon = "poll"
  /\ mon' = "select"
  /\ UNCHANGED <<exchange, store, modules, main, cancelled, final, history>>

-----------------------------------------------------------------------------
(* Stop, one step per lock it takes.                                       *)

Stop ==
  /\ main = "running"
  /\ main' = "readHedge"
  /\ UNCHANGED <<exchange, store, modules, mon, cancelled, final, history>>

StopReadHedge ==
  /\ main = "readHedge"
  /\ final' = [final EXCEPT !.hedge = hedgePNL]
  /\ main' = "syncRisk"
  /\ UNCHANGED <<exchange, store, modules, mon, cancelled, history>>

StopSyncRisk ==
  /\ main = "syncRisk"
  /\ risk' = [risk EXCEPT !.cum = final.hedge]
  /\ main' = "readRisk"
  /\ UNCHANGED <<exchange, store, gridAcc, hedgePNL, mon, cancelled, final, history>>

StopReadRisk ==
  /\ main = "readRisk"
  /\ final' = [final EXCEPT !.risk = risk]
  /\ main' = "saveRisk"
  /\ UNCHANGED <<exchange, store, modules, mon, cancelled, history>>

UpdateBHLSState ==
  /\ main = "saveRisk"
  /\ Store([kept EXCEPT !.risk = final.risk])
  /\ unsaved' = (unsaved \/ file' # kept')
  /\ main' = "readGrid"
  /\ UNCHANGED <<exchange, modules, mon, cancelled, final, run, start, earned, carried, missed>>

StopReadGrid ==
  /\ main = "readGrid"
  /\ final' = [final EXCEPT !.grid = GetRealizedPNL(gridAcc)]
  /\ main' = "saveGrid"
  /\ UNCHANGED <<exchange, store, modules, mon, cancelled, history>>

NothingAdded(s) == s                                 \* mutant
ProfitAdded(s) == [s EXCEPT !.grid = Plus(@, final.grid)]

UpdateGridRealizedPNL ==
  /\ main = "saveGrid"
  /\ Store(ProfitAdded(kept))
  /\ unsaved' = (unsaved \/ file' # kept')
  /\ main' = "cancel"
  /\ UNCHANGED <<exchange, modules, mon, cancelled, final, run, start, earned, carried, missed>>

Cancel ==
  /\ main = "cancel"
  /\ cancelled' = TRUE
  /\ main' = "wait"
  /\ UNCHANGED <<exchange, store, modules, mon, final, history>>

NobodyWaits == TRUE                                  \* mutant
MonitorDone == mon = "off"

Wait ==
  /\ main = "wait" /\ MonitorDone
  /\ main' = "exited"
  /\ UNCHANGED <<exchange, store, modules, mon, cancelled, final, history>>

-----------------------------------------------------------------------------
(* Nothing of the process is left.                                         *)
Gone ==
  /\ main' = "down" /\ mon' = "off" /\ cancelled' = FALSE /\ final' = NoFinal
  /\ kept' = NoState /\ risk' = NoRisk /\ gridAcc' = NewAccountant /\ hedgePNL' = 0
  /\ start' = "none"
  /\ carried' = IF level = "held" THEN carried + 1 ELSE carried
  /\ UNCHANGED <<file, run, earned, missed>>

(* A request refused during start-up ends the process (logs.Fatalf in      *)
(* main); a new grid may have got some of its orders by then.              *)
StartFails ==
  /\ "fail" \in Env /\ main \in {"hedge", "restore"} /\ run < MaxRuns
  /\ Gone
  /\ \/ UNCHANGED <<gridActive, level>>
     \/ main = "restore" /\ ~gridActive /\ gridActive' = TRUE /\ level' \in {"open", "gone"}
  /\ UNCHANGED <<hedgePos, unsaved>>

End ==
  /\ main = "exited" /\ run < MaxRuns
  /\ Gone
  /\ \/ hedgePos' = hedgePos
     \/ "user" \in Env /\ hedgePos' = FALSE
  /\ UNCHANGED <<gridActive, level, unsaved>>

Crash ==
  /\ "crash" \in Env /\ main \notin {"down", "exited"} /\ run < MaxRuns
  /\ Gone
  /\ unsaved' = TRUE
  /\ UNCHANGED exchange

(* The user closes the main position and cancels the orders by hand.       *)
UserCloses ==
  /\ "user" \in Env /\ main = "down" /\ gridActive
  /\ gridActive' = FALSE /\ level' = "gone"
  /\ UNCHANGED <<hedgePos, store, modules, threads, history>>

(* Nobody is there to answer these fills or to book them; the rest of the  *)
(* grid keeps the symbol active.                                           *)
FillsUnseen ==
  /\ "market" \in Env /\ main = "down" /\ level # "gone"
  /\ level' = "gone"
  /\ \/ level = "open" /\ earned' = earned
     \/ level = "held" /\ Recorded < MaxTrades /\ earned' = [earned EXCEPT !.grid = @ + 1]
  /\ UNCHANGED <<gridActive, hedgePos, store, modules, threads,
                 run, start, carried, missed, unsaved>>

Finished == main = "exited" /\ run = MaxRuns /\ UNCHANGED vars

MonitorStep ==
  \/ SeeStop \/ Tick \/ NoAction \/ RiskOpens \/ RiskCloses \/ OpenHedge \/ CloseHedge
  \/ RecordHedge \/ SetCumulativePNL \/ GridBuys \/ GridSells \/ EndTick

StopStep ==
  \/ StopReadHedge \/ StopSyncRisk \/ StopReadRisk \/ UpdateBHLSState
  \/ StopReadGrid \/ UpdateGridRealizedPNL \/ Cancel \/ Wait

Next ==
  \/ Boot \/ ReadHedge \/ ColdStart \/ WarmStart \/ StartMonitor
  \/ MonitorStep \/ Stop \/ StopStep
  \/ StartFails \/ End \/ Crash \/ UserCloses \/ FillsUnseen \/ Finished

Init ==
  /\ gridActive = FALSE /\ hedgePos = FALSE /\ level = "gone"
  /\ file = NoState /\ kept = NoState
  /\ risk = NoRisk /\ gridAcc = NewAccountant /\ hedgePNL = 0
  /\ main = "down" /\ mon = "off" /\ cancelled = FALSE /\ final = NoFinal
  /\ run = 0 /\ start = "none" /\ earned = NoProfit /\ carried = 0
  /\ missed = NoProfit /\ unsaved = FALSE

Spec == Init /\ [][Next]_vars

(* The steps of Stop and of a tick end, and a goroutine that selects over  *)
(* and over does not ignore a closed channel for ever.                     *)
FairSpec == Spec /\ WF_vars(StopStep) /\ WF_vars(MonitorStep) /\ SF_vars(SeeStop)

-----------------------------------------------------------------------------
RiskState == [active : BOOLEAN, hedges : BOOLEAN, cum : Nat]
Starting == {"down", "hedge", "restore", "ready"}

(* Every variable has its type, the monitor goroutine exists only between  *)
(* Start and the end of Stop, and the accountant is at most one unit off   *)
(* the level it counts.                                                    *)
TypeOK ==
  /\ gridActive \in BOOLEAN /\ hedgePos \in BOOLEAN /\ level \in {"open", "held", "gone"}
  /\ {file, kept} \subseteq [grid : Fraction, risk : RiskState]
  /\ risk \in RiskState /\ gridAcc \in AccountantType /\ gridAcc.qty \in -1 .. 1 /\ hedgePNL \in Nat
  /\ main \in Starting \cup {"running"} \cup Stopping \cup {"exited"}
  /\ mon \in {"off", "select"} \cup Working
  /\ cancelled \in BOOLEAN
  /\ final \in [hedge : Nat, risk : RiskState, grid : Fraction]
  /\ run \in 0 .. MaxRuns
  /\ start \in {"none", "read", "blind", "cold", "warm", "own"}
  /\ earned \in [grid : 0 .. MaxTrades, hedge : 0 .. MaxTrades]
  /\ carried \in 0 .. MaxRuns /\ missed \in [grid : Nat, hedge : Nat] /\ unsaved \in BOOLEAN
  /\ main \in Starting \cup {"exited"} => mon = "off"

(* A restored bot knows of the hedge the exchange has, from the moment it  *)
(* is restored until the risk manager itself has it closed, whatever a     *)
(* crash between the risk manager's decision and the order, a refused      *)
(* order or a failed save left in the file ("Risk control state file has   *)
(* no hedge records, will create a virtual record"): it does not open a    *)
(* second one on top of it.                                                *)
HedgeKnown == start = "warm" /\ hedgePos => risk.hedges /\ risk.active

(* Unless the process died or a save failed, after a stop the file holds   *)
(* all the hedge profit made since the grid was set up, over any number of *)
(* restarts, and lacks at most what the monitor recorded while Stop was    *)
(* saving: what the two goroutines do in whatever order to the risk        *)
(* manager's copy of it (SetCumulativePNL) loses nothing that Stop had     *)
(* read, and counts nothing twice.                                         *)
HedgeProfitExact ==
  main = "exited" /\ ~unsaved => file.risk.cum \in earned.hedge - missed.hedge .. earned.hedge

(* Under the same conditions the file lacks no more grid profit than what  *)
(* was recorded once Stop had read it, and that of the positions held      *)
(* across a restart: Restore brings back the profit but not the quantity,  *)
(* so the close orders of those positions are booked as opening a short    *)
(* position, or by nobody if they fill in between; the accountant lags     *)
(* behind from then on, but not more with every trade.                     *)
GridProfitKept ==
  main = "exited" /\ ~unsaved =>
    AtMost(Whole(earned.grid - carried - missed.grid), file.grid)

(* When Stop has returned, nothing the bot does reaches the exchange, the  *)
(* file or an accountant any more (o.cancel and o.wg.Wait).                *)
SilentAfterStop ==
  [][main = "exited" /\ main' = "exited" => UNCHANGED <<exchange, store, modules>>]_vars

(* A stop that has been asked for comes to its end, however busy the       *)
(* monitor is.                                                             *)
StopReturns == main = "readHedge" ~> main \in {"exited", "down"}

-----------------------------------------------------------------------------
(* What the source says of itself.                                         *)

(* Stop: "Synchronize and save grid strategy realized profit": after a     *)
(* stop without a failure or a late trade the file holds the realized      *)
(* profit, not more.                                                       *)
GridProfitExact ==
  main = "exited" /\ ~unsaved /\ missed.grid = 0 => file.grid = Whole(earned.grid)

(* reconcileStateOnStartup: "At startup, hedge module state must be the    *)
(* only true source for the exchange".                                     *)
HedgesFollowExchange ==
  main = "ready" /\ start \in {"cold", "warm"} => risk.hedges = hedgePos
=============================================================================
