----------------------------- MODULE JSONStore -----------------------------
(***************************************************************************)
(* storage.JSONStore: one name, its file and the two files that Save keeps *)
(* beside it.  Save is modelled one system call at a time, because the     *)
(* program may end between any two of them; Load is one step, because      *)
(* JSONStore.mu keeps it away from a Save.                                 *)
(*                                                                         *)
(* A module that uses the store takes Save(v), SaveStep and Crash as parts *)
(* of its own steps.                                                       *)
(***************************************************************************)
CONSTANTS
  Nothing,             \* no file; what Load leaves its argument at
  Torn                 \* a file of which only a part has been written

ASSUME DistinctAssumption == Nothing # Torn

VARIABLES
  primary,             \* name.json
  backup,              \* name.json.bak
  temp,                \* name.json.tmp
  step,                \* where Save is
  offered              \* the argument of the running Save

files == <<primary, backup, temp>>
store == <<primary, backup, temp, step, offered>>

Steps == {"idle", "write", "fill", "clear", "away", "place"}

StoreInit ==
  /\ primary = Nothing /\ backup = Nothing /\ temp = Nothing
  /\ step = "idle"
  /\ offered = Nothing
-----------------------------------------------------------------------------
Save(v) ==
  /\ step = "idle"
  /\ step' = "write"
  /\ offered' = v
  /\ UNCHANGED files

\* Save returns; what it returns is told by the action that ends it.
Return == step' = "idle" /\ offered' = Nothing

\* Mutant of WriteTemp: the file itself is written.
WriteInPlace ==
  /\ step = "write"
  /\ primary' = Torn
  /\ step' = "fill"
  /\ UNCHANGED <<backup, temp, offered>>

\* os.WriteFile truncates the file, then fills it.
WriteTemp ==
  /\ step = "write"
  /\ temp' = Torn
  /\ step' = "fill"
  /\ UNCHANGED <<primary, backup, offered>>

FillTemp ==
  /\ step = "fill"
  /\ temp' = offered
  /\ step' = "clear"
  /\ UNCHANGED <<primary, backup, offered>>

\* os.Stat, and os.Remove of the backup.  That Save ignores a failure of
\* os.Remove, here and below, has no effect: the file is overwritten later.
ClearBackup ==
  /\ step = "clear"
  /\ IF primary = Nothing
       THEN step' = "place" /\ UNCHANGED backup
       ELSE step' = "away" /\ backup' = Nothing
  /\ UNCHANGED <<primary, temp, offered>>

\* Mutant of MoveAway: the old file is removed instead of renamed.
MoveAwayRemoved ==
  /\ step = "away"
  /\ primary' = Nothing
  /\ step' = "place"
  /\ UNCHANGED <<backup, temp, offered>>

\* The first rename.
MoveAway ==
  /\ step = "away"
  /\ backup' = primary
  /\ primary' = Nothing
  /\ step' = "place"
  /\ UNCHANGED <<temp, offered>>

\* The second rename, with which Save returns.
Place ==
  /\ step = "place"
  /\ primary' = temp
  /\ temp' = Nothing
  /\ Return
  /\ UNCHANGED backup

\* A call fails: the write at any point, the first rename (the temporary file
\* is then removed), or the second.
SaveFails ==
  /\ \/ step \in {"write", "fill", "place"} /\ UNCHANGED temp
     \/ step = "away" /\ temp' = Nothing
  /\ Return
  /\ UNCHANGED <<primary, backup>>

SaveStep == WriteTemp \/ FillTemp \/ ClearBackup \/ MoveAway

\* The program ends, maybe in the middle of a Save; the files remain.
Crash ==
  /\ Return
  /\ UNCHANGED files

\* Load: a missing file is no error and leaves the default.  The backup is
\* not looked at.
Load(default) == IF primary = Nothing THEN default ELSE primary
-----------------------------------------------------------------------------
\* The register as it would be read by someone who falls back on the backup.
Register == INSTANCE AtomicRegister WITH
  value <- IF primary = Nothing THEN backup ELSE primary

\* Save is atomic for such a reader, whatever call fails and wherever the
\* program ends: what is lost between the two renames is lost by Load alone.
SaveIsAtomic == Register!Spec
=============================================================================
