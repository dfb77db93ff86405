---------------------------- MODULE DurableStore ----------------------------
(***************************************************************************)
(* What state/state.go promises its callers: a record with a working copy  *)
(* in memory and a stored copy on disk.  The stored copy is replaced as a  *)
(* whole and only by the working copy of that moment; a process that dies  *)
(* loses its working copy and the next one begins with what is stored.     *)
(***************************************************************************)
CONSTANTS State,        \* the contents the store can have
          Updates(_),   \* the contents one update can turn a content into
          Default,      \* the content of a new store
          Absent,       \* no file
          Down          \* no process

VARIABLES working, stored

StoreInit == working = Down /\ stored = Absent

Open ==
  /\ working = Down
  /\ working' = IF stored = Absent THEN Default ELSE stored
  /\ UNCHANGED stored

Update == working # Down /\ working' \in Updates(working) /\ UNCHANGED stored
Persist == working # Down /\ stored' = working /\ UNCHANGED working
Die == working' = Down /\ UNCHANGED stored
Erase == working = Down /\ stored' = Absent /\ UNCHANGED working

StoreNext == Open \/ Update \/ Persist \/ Die \/ Erase

StoreSpec == StoreInit /\ [][StoreNext]_<<working, stored>>
=============================================================================
