------------------------- MODULE StateManagerProofs -------------------------
(***************************************************************************)
(* For any goroutines and any updates: the state file is never torn, what  *)
(* was reported saved is in it, and the state manager implements the       *)
(* durable store.                                                          *)
(***************************************************************************)
EXTENDS StateManager, TLAPS

(* Outside a call nobody holds the mutex; a store being opened has one     *)
(* caller, who does without it; in a running one only its holder saves.    *)
SaverHoldsLock ==
  /\ proc = "down" => \A c \in Caller : at[c] = "idle"
  /\ proc = "opening" =>
       at[Main] \in Saving /\ \A c \in Caller \ {Main} : at[c] = "idle"
  /\ proc = "up" => \A c \in Caller : at[c] \in Saving => lock = c

(* What is being saved is what memory holds; what is about to become the   *)
(* state file is complete.                                                 *)
SavesMemory ==
  \A c \in Caller : /\ at[c] \in Saving => data[c] = mem
                    /\ at[c] = "rename" => tmp = mem

(* Memory is never older than the file, nor the file than an              *)
(* acknowledgement.                                                        *)
NewestInMemory ==
  /\ file = Absent => acked = 0
  /\ file # Absent => acked <= file.ver
  /\ proc = "up" => file # Absent /\ file.ver <= mem.ver
  /\ proc = "opening" => file = Absent

SInv == TypeOK /\ FileWhole /\ SaverHoldsLock /\ SavesMemory /\ NewestInMemory

-----------------------------------------------------------------------------
(* The state a missing file stands for is a state.                         *)
LEMMA DefaultType == Default \in State
BY RiskAssumption DEF Default, State

(* An update is a state, one update newer.                                 *)
LEMMA UpdatesType ==
  ASSUME NEW s \in State, NEW t \in Updates(s)
  PROVE  t \in State /\ t.ver = s.ver + 1
<1>1. PICK u \in AddPairedPrice(s) \cup RemovePairedPrice(s) \cup UpdateGridRealizedPNL(s)
                  \cup UpdateBHLSState(s) \cup UpdateBHLSRealizedPNL(s) :
        t = [u EXCEPT !.ver = @ + 1]
  BY DEF Updates
<1>2. u \in State /\ u.ver = s.ver
  <2>1. CASE u \in UpdateBHLSState(s)
    <3>1. PICK b \in [risk : Risk, pnl : {0, s.riskPNL}] :
            u = [s EXCEPT !.risk = b.risk, !.riskPNL = b.pnl]
      BY <2>1 DEF UpdateBHLSState
    <3>2. b.risk \in Risk /\ b.pnl \in Int
      BY DEF State
    <3>. QED
      BY <3>1, <3>2 DEF State
  <2>2. CASE u \notin UpdateBHLSState(s)
    BY <1>1, <2>2 DEF AddPairedPrice, RemovePairedPrice, UpdateGridRealizedPNL,
       UpdateBHLSRealizedPNL, State
  <2>. QED
    BY <2>1, <2>2
<1>. QED
  BY <1>1, <1>2 DEF State

(* The invariant holds before the first start.                             *)
LEMMA SInvInit == Init => SInv
BY DefaultType, FileAssumption DEF Init, SInv, TypeOK, FileWhole, SaverHoldsLock, SavesMemory,
   NewestInMemory, Saving

(* The process may stop at any point without harming the file.             *)
LEMMA ExitStep ==
  ASSUME SInv, Exit, acked' = acked
  PROVE  SInv'
BY DefaultType DEF SInv, Exit, TypeOK, FileWhole, SaverHoldsLock, SavesMemory, NewestInMemory, Saving

(* A call waits for the lock and changes nothing yet.                      *)
LEMMA CallStep ==
  ASSUME SInv, NEW c \in Caller, Call(c)
  PROVE  SInv'
BY DEF SInv, Call, TypeOK, FileWhole, SaverHoldsLock, SavesMemory, NewestInMemory, Saving

(* A call changes the state in memory under the lock.                      *)
LEMMA ChangeStep ==
  ASSUME SInv, NEW c \in Caller, Change(c)
  PROVE  SInv'
<1>. USE DEF SInv
<1>1. mem' \in State /\ mem'.ver = mem.ver + 1
  BY UpdatesType DEF Change, TypeOK
<1>2. proc = "up" /\ \A d \in Caller : at[d] \notin Saving
  BY CallerAssumption DEF Change, LockFree, SaverHoldsLock, TypeOK, Saving
<1>3. TypeOK'
  BY <1>1 DEF Change, TypeOK, Saving
<1>4. SaverHoldsLock'
  BY <1>2 DEF Change, SaverHoldsLock, TypeOK
<1>5. SavesMemory'
  BY <1>2 DEF Change, SavesMemory, TypeOK, Saving
<1>6. FileWhole' /\ NewestInMemory'
  BY <1>1, <1>2, FileAssumption DEF Change, FileWhole, NewestInMemory, TypeOK, State
<1>. QED
  BY <1>3, <1>4, <1>5, <1>6

(* save writes the temporary file and leaves the state file alone.         *)
LEMMA WriteStep ==
  ASSUME SInv, NEW c \in Caller, BeginWrite(c) \/ EndWrite(c)
  PROVE  SInv'
<1>. USE DEF SInv, BeginWrite, EndWrite, WriteTmp
<1>1. \A d \in Caller : at[d] \in Saving => d = c
  BY DEF SaverHoldsLock, TypeOK, Saving
<1>2. TypeOK' /\ FileWhole' /\ NewestInMemory'
  BY DEF TypeOK, FileWhole, NewestInMemory, Saving
<1>3. SaverHoldsLock'
  BY DEF SaverHoldsLock, TypeOK, Saving
<1>4. SavesMemory'
  BY <1>1 DEF SavesMemory, TypeOK, Saving
<1>. QED
  BY <1>2, <1>3, <1>4

(* save renames a whole temporary file over the state file.                *)
LEMMA RenameStep ==
  ASSUME SInv, NEW c \in Caller, Rename(c)
  PROVE  SInv' /\ file' = mem /\ proc # "down"
<1>. USE DEF SInv, Rename
<1>1. tmp = mem /\ data[c] = mem /\ proc # "down"
  BY DEF SavesMemory, SaverHoldsLock, Saving, TypeOK
<1>2. \A d \in Caller : at[d] \in Saving => d = c
  BY DEF SaverHoldsLock, TypeOK, Saving
<1>3. TypeOK' /\ FileWhole'
  BY <1>1, FileAssumption DEF TypeOK, FileWhole, Unlock, State
<1>4. SaverHoldsLock' /\ SavesMemory'
  BY <1>2 DEF SaverHoldsLock, SavesMemory, TypeOK, Saving
<1>5. acked <= mem.ver
  BY <1>1 DEF NewestInMemory, FileWhole, TypeOK, State
<1>6. NewestInMemory'
  BY <1>1, <1>5, FileAssumption DEF NewestInMemory, TypeOK, State
<1>. QED
  BY <1>1, <1>3, <1>4, <1>6

(* A save that fails leaves the state file as it was.                      *)
LEMMA SaveFailsStep ==
  ASSUME SInv, NEW c \in Caller, SaveFails(c)
  PROVE  SInv'
<1>. USE DEF SInv, SaveFails
<1>1. \A d \in Caller : at[d] \in Saving => d = c
  BY DEF SaverHoldsLock, TypeOK, Saving
<1>. QED
  BY <1>1 DEF TypeOK, FileWhole, SaverHoldsLock, SavesMemory, NewestInMemory, Unlock, Saving

(* NewStateManager reads the file back or starts from nothing.             *)
LEMMA OpenStep ==
  ASSUME SInv, Load \/ LoadNew \/ Remove
  PROVE  SInv'
<1>. USE DEF SInv, SaverHoldsLock
<1>1. CASE Load
  BY <1>1, FileAssumption DEF Load, TypeOK, FileWhole, SavesMemory, NewestInMemory, Saving, State
<1>2. CASE LoadNew
  BY <1>2, DefaultType, CallerAssumption
     DEF LoadNew, TypeOK, FileWhole, SavesMemory, NewestInMemory, Saving
<1>3. CASE Remove
  BY <1>3, FileAssumption DEF Remove, TypeOK, FileWhole, SavesMemory, NewestInMemory
<1>. QED
  BY <1>1, <1>2, <1>3

(* Every step keeps the invariant.                                         *)
LEMMA SInvNext == SInv /\ [Next]_vars => SInv'
<1>. SUFFICES ASSUME SInv, [Next]_vars PROVE SInv'
  OBVIOUS
<1>1. ASSUME NEW c \in Caller, Call(c) \/ Change(c) \/ SaveStep(c) PROVE SInv'
  BY <1>1, CallStep, ChangeStep, WriteStep, RenameStep, SaveFailsStep DEF SaveStep
<1>2. CASE Load \/ LoadNew \/ Remove
  BY <1>2, OpenStep
<1>3. CASE OpenFails \/ Crash
  BY <1>3, ExitStep DEF OpenFails, Crash
<1>4. CASE UNCHANGED vars
  BY <1>4 DEF vars, SInv, TypeOK, FileWhole, SaverHoldsLock, SavesMemory, NewestInMemory
<1>. QED
  BY <1>1, <1>2, <1>3, <1>4 DEF Next

(* The inductive invariant holds in every behaviour.                       *)
THEOREM SInvAlways == Spec => []SInv
<1>. QED
  BY SInvInit, SInvNext, PTL DEF Spec

(* Every variable of the state manager keeps its type.                     *)
THEOREM StoreTypes == Spec => []TypeOK
<1>1. SInv => TypeOK
  BY DEF SInv
<1>. QED
  BY <1>1, SInvAlways, PTL

(* No crash, failed write or concurrent save leaves a half-written state   *)
(* file.                                                                   *)
THEOREM FileNeverTorn == Spec => []FileWhole
<1>1. SInv => FileWhole
  BY DEF SInv
<1>. QED
  BY <1>1, SInvAlways, PTL

(* What AddPairedPrice and the other updates reported saved stays saved.   *)
THEOREM AckedIsDurable == Spec => []AckedDurable
<1>1. SInv => AckedDurable
  BY DEF SInv, AckedDurable, TypeOK, FileWhole, NewestInMemory
<1>. QED
  BY <1>1, SInvAlways, PTL

-----------------------------------------------------------------------------
(* A change of memory is an Update of the store.                           *)
LEMMA StepRefines ==
  SInv /\ [Next]_vars
    => [Store!StoreNext]_<<IF proc = "down" THEN Down ELSE mem, file>>
<1>. SUFFICES ASSUME SInv, [Next]_vars
              PROVE  [Store!StoreNext]_<<IF proc = "down" THEN Down ELSE mem, file>>
  OBVIOUS
<1>. USE DEF SInv, Store!StoreNext
<1>1. mem \in State /\ mem # Down
  BY DownAssumption DEF TypeOK
<1>2. ASSUME NEW c \in Caller, Call(c) \/ BeginWrite(c) \/ EndWrite(c) \/ SaveFails(c)
      PROVE  UNCHANGED <<IF proc = "down" THEN Down ELSE mem, file>>
  BY <1>2 DEF Call, BeginWrite, EndWrite, SaveFails, WriteTmp
<1>3. ASSUME NEW c \in Caller, Change(c) PROVE Store!Update
  BY <1>1, <1>3 DEF Change, Store!Update, SaverHoldsLock
<1>4. ASSUME NEW c \in Caller, Rename(c) PROVE Store!Persist
  BY <1>1, <1>4, RenameStep DEF Rename, Store!Persist
<1>5. CASE Load \/ LoadNew
  BY <1>1, <1>5, FileAssumption DEF Load, LoadNew, Store!Open
<1>6. CASE Remove
  BY <1>6 DEF Remove, Store!Erase
<1>7. CASE OpenFails \/ Crash
  BY <1>7 DEF OpenFails, Crash, Exit, Store!Die
<1>8. CASE UNCHANGED vars
  BY <1>8 DEF vars
<1>. QED
  BY <1>2, <1>3, <1>4, <1>5, <1>6, <1>7, <1>8 DEF Next, SaveStep

(* The state manager implements the durable store.                         *)
THEOREM StoreImplemented == Spec => ImplementsStore
<1>1. Init => Store!StoreInit
  BY DEF Init, Store!StoreInit
<1>. QED
  BY <1>1, SInvAlways, StepRefines, PTL DEF Spec, ImplementsStore, Store!StoreSpec
=============================================================================
