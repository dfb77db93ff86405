---------------------------- MODULE StateManager ----------------------------
(***************************************************************************)
(* state/state.go: the state manager, its mutex, and the file it writes    *)
(* through a temporary one.  The goroutines of the process (the monitor    *)
(* and the one that runs Stop) call it concurrently; the process may die   *)
(* in the middle of a save, and every file operation may fail.             *)
(***************************************************************************)
EXTENDS Integers, FiniteSets

CONSTANTS Caller,      \* the goroutines that update the state
          Main,        \* the one that opens the store
          Id,          \* close order ids
          Risk,        \* contents of the risk control module's state
          NoRisk,      \* that of a module that has never been active
          MaxUpdates,  \* bound: no call begins on a state this many updates old
          Absent, Torn, Down, Nobody

ASSUME CallerAssumption == Main \in Caller /\ Nobody \notin Caller
ASSUME RiskAssumption == NoRisk \in Risk
ASSUME UpdatesAssumption == MaxUpdates \in Nat

(* GridState and BHLSState.  ver is history: the number of updates.        *)
State == [pairs : SUBSET Id, gridPNL : Int, risk : Risk, riskPNL : Int, ver : Nat]

Default == [pairs |-> {}, gridPNL |-> 0, risk |-> NoRisk, riskPNL |-> 0, ver |-> 0]

ASSUME FileAssumption == Absent # Torn /\ Absent \notin State /\ Torn \notin State
ASSUME DownAssumption == Down \notin State

VARIABLES
  mem,     \* sm.state
  data,    \* caller -> the content it has marshalled
  tmp,     \* the temporary file
  file,    \* the state file
  lock,    \* holder of sm.mu
  at,      \* caller -> where it is in its call
  proc,    \* "down", "opening" or "up"
  acked    \* history: the newest state that was reported saved

vars == <<mem, data, tmp, file, lock, at, proc, acked>>

Saving == {"write", "writing", "rename"}

-----------------------------------------------------------------------------
(* The updates, as the contents they can lead to.                          *)

AddPairedPrice(s) == {[s EXCEPT !.pairs = @ \cup {i}] : i \in Id}
RemovePairedPrice(s) == {[s EXCEPT !.pairs = @ \ {i}] : i \in Id}
UpdateGridRealizedPNL(s) == {[s EXCEPT !.gridPNL = @ + 1]}
NilRisk(s) == {[s EXCEPT !.risk = Nobody]}           \* mutant
(* The whole record is replaced, its realized profit with it: by the one   *)
(* stored or by that of a module which knows of none.                      *)
UpdateBHLSState(s) ==
  {[s EXCEPT !.risk = b.risk, !.riskPNL = b.pnl] : b \in [risk : Risk, pnl : {0, s.riskPNL}]}
UpdateBHLSRealizedPNL(s) == {[s EXCEPT !.riskPNL = @ + 1]}

Updates(s) ==
  {[t EXCEPT !.ver = @ + 1] : t \in AddPairedPrice(s) \cup RemovePairedPrice(s)
                                    \cup UpdateGridRealizedPNL(s)
                                    \cup UpdateBHLSState(s)
                                    \cup UpdateBHLSRealizedPNL(s)}

-----------------------------------------------------------------------------
LockIgnored == TRUE                                  \* mutant
LockFree == lock = Nobody

LockKept == lock' = lock                             \* mutant
Unlock == lock' = Nobody

(* The file save writes the bytes to: not the state file itself.           *)
WriteInPlace(bytes) == file' = bytes /\ tmp' = bytes \* mutant
WriteTmp(bytes) == tmp' = bytes /\ file' = file

Call(c) ==
  /\ proc = "up" /\ at[c] = "idle" /\ mem.ver < MaxUpdates
  /\ at' = [at EXCEPT ![c] = "waiting"]
  /\ UNCHANGED <<mem, data, tmp, file, lock, proc, acked>>

(* sm.mu is taken, the state changed and marshalled.                       *)
Change(c) ==
  /\ at[c] = "waiting" /\ LockFree
  /\ lock' = c
  /\ mem' \in Updates(mem)
  /\ data' = [data EXCEPT ![c] = mem']
  /\ at' = [at EXCEPT ![c] = "write"]
  /\ UNCHANGED <<tmp, file, proc, acked>>

BeginWrite(c) ==
  /\ at[c] = "write"
  /\ WriteTmp(Torn)
  /\ at' = [at EXCEPT ![c] = "writing"]
  /\ UNCHANGED <<mem, data, lock, proc, acked>>

EndWrite(c) ==
  /\ at[c] = "writing"
  /\ WriteTmp(data[c])
  /\ at' = [at EXCEPT ![c] = "rename"]
  /\ UNCHANGED <<mem, data, lock, proc, acked>>

Rename(c) ==
  /\ at[c] = "rename" /\ tmp # Absent
  /\ file' = tmp /\ tmp' = Absent
  /\ Unlock
  /\ at' = [at EXCEPT ![c] = "idle"]
  /\ proc' = "up"
  /\ acked' = IF acked < data[c].ver THEN data[c].ver ELSE acked
  /\ UNCHANGED <<mem, data>>

Exit ==
  /\ proc' = "down" /\ mem' = Default
  /\ data' = [c \in Caller |-> Default]
  /\ lock' = Nobody /\ at' = [c \in Caller |-> "idle"]
  /\ UNCHANGED <<tmp, file>>

(* An error is returned: memory keeps the change the file lacks.  While    *)
(* the store is being opened it ends the process (log.Fatalf in main).     *)
SaveFails(c) ==
  /\ proc = "up" /\ at[c] \in Saving
  /\ Unlock
  /\ at' = [at EXCEPT ![c] = "idle"]
  /\ UNCHANGED <<mem, data, tmp, file, proc, acked>>

OpenFails ==
  /\ proc = "opening"
  /\ Exit
  /\ UNCHANGED acked

-----------------------------------------------------------------------------
(* NewStateManager.  A missing file is created, before any other goroutine *)
(* exists and so without the lock; one that cannot be read ends the start. *)

Load ==
  /\ proc = "down" /\ file \in State
  /\ mem' = file
  /\ proc' = "up"
  /\ UNCHANGED <<data, tmp, file, lock, at, acked>>

LoadNew ==
  /\ proc = "down" /\ file = Absent
  /\ mem' = Default
  /\ data' = [data EXCEPT ![Main] = Default]
  /\ at' = [at EXCEPT ![Main] = "write"]
  /\ proc' = "opening"
  /\ UNCHANGED <<tmp, file, lock, acked>>

(* NewOrchestrator removes the file of an idle bot before it opens it.     *)
Remove ==
  /\ proc = "down"
  /\ file' = Absent
  /\ acked' = 0
  /\ UNCHANGED <<mem, data, tmp, lock, at, proc>>

Crash ==
  /\ proc # "down"
  /\ Exit
  /\ UNCHANGED acked

SaveStep(c) == BeginWrite(c) \/ EndWrite(c) \/ Rename(c) \/ SaveFails(c)

Next ==
  \/ \E c \in Caller : Call(c) \/ Change(c) \/ SaveStep(c)
  \/ Load \/ LoadNew \/ OpenFails \/ Remove \/ Crash

Init ==
  /\ mem = Default /\ data = [c \in Caller |-> Default]
  /\ tmp = Absent /\ file = Absent
  /\ lock = Nobody /\ at = [c \in Caller |-> "idle"]
  /\ proc = "down" /\ acked = 0

Spec == Init /\ [][Next]_vars

(* File operations return, and Go's mutex starves nobody.                  *)
FairSpec == Spec /\ \A c \in Caller : WF_vars(SaveStep(c)) /\ SF_vars(Change(c))

-----------------------------------------------------------------------------
(* Every variable has its type.                                            *)
TypeOK ==
  /\ mem \in State
  /\ data \in [Caller -> State]
  /\ tmp \in State \cup {Absent, Torn}
  /\ file \in State \cup {Absent, Torn}
  /\ lock \in Caller \cup {Nobody}
  /\ at \in [Caller -> {"idle", "waiting"} \cup Saving]
  /\ proc \in {"down", "opening", "up"}
  /\ acked \in Nat

(* The state file is never half written, whatever moment the process dies  *)
(* at and however many goroutines save ("atomic save" of save): the next   *)
(* start can always read it.                                               *)
FileWhole == file # Torn

(* An update that was reported saved is on disk, and no later save, failed *)
(* save or crash takes it away again (AddPairedPrice returning nil).       *)
AckedDurable == acked > 0 => file \in State /\ acked <= file.ver

(* The state manager implements the durable store.                         *)
Store == INSTANCE DurableStore
           WITH working <- IF proc = "down" THEN Down ELSE mem, stored <- file
ImplementsStore == Store!StoreSpec

(* Every call returns, after an error as well: no goroutine is left        *)
(* waiting for the lock of one that has returned.                          *)
EveryCallReturns == \A c \in Caller : at[c] = "waiting" ~> at[c] = "idle"
=============================================================================
