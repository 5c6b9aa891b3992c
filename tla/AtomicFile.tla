------------------------------ MODULE AtomicFile ------------------------------
(***************************************************************************)
(* atomicWrite (store.go), one step per system call, for one path of the   *)
(* data volume: settings.json, history.json or a cached list. Writers are  *)
(* the calls in progress; reset-password is a second process, so two calls *)
(* may overlap on one path.                                                *)
(*                                                                         *)
(* Outside the code stands a file system that keeps a renamed entry        *)
(* atomic, may lose it until it settles, and guarantees the bytes of a     *)
(* file only after fsync.                                                  *)
(***************************************************************************)
CONSTANTS
  Writer,   \* the calls of atomicWrite
  Data,     \* what a caller may ask to write
  Absent,   \* the content of a path that does not exist
  Torn      \* bytes no caller wrote

ASSUME ContentAssumption == Absent \notin Data /\ Torn \notin Data /\ Absent # Torn

VARIABLES
  pc,       \* pc[w]: the system call w makes next
  arg,      \* arg[w]: the data argument of w's call
  temp,     \* temp[w]: the temporary file of w, an inode
  file,     \* the inode the path names
  possible  \* the inodes the path may name after a power loss

vars == <<pc, arg, temp, file, possible>>

(* An inode is the bytes a reader sees and whether fsync has secured them. *)
Inode == [bytes : Data \cup {Absent, Torn}, synced : BOOLEAN]
Nothing == [bytes |-> Absent, synced |-> TRUE]
Step == {"idle", "chmod", "write", "sync", "close", "rename"}

Init ==
  /\ pc = [w \in Writer |-> "idle"]
  /\ arg \in [Writer -> Data]
  /\ temp = [w \in Writer |-> Nothing]
  /\ file = Nothing
  /\ possible = {Nothing}

-----------------------------------------------------------------------------
CreateTemp(w, d) ==
  /\ pc[w] = "idle"
  /\ pc' = [pc EXCEPT ![w] = "chmod"]
  /\ arg' = [arg EXCEPT ![w] = d]
  /\ temp' = [temp EXCEPT ![w] = [bytes |-> Torn, synced |-> FALSE]]
  /\ UNCHANGED <<file, possible>>

Chmod(w) ==
  /\ pc[w] = "chmod"
  /\ pc' = [pc EXCEPT ![w] = "write"]
  /\ UNCHANGED <<arg, temp, file, possible>>

Write(w) ==
  /\ pc[w] = "write"
  /\ pc' = [pc EXCEPT ![w] = "sync"]
  /\ temp' = [temp EXCEPT ![w].bytes = arg[w]]
  /\ UNCHANGED <<arg, file, possible>>

(* Mutant: no fsync before the rename. *)
Sync_Skipped(w) ==
  /\ pc[w] = "sync"
  /\ pc' = [pc EXCEPT ![w] = "close"]
  /\ UNCHANGED <<arg, temp, file, possible>>

Sync(w) ==
  /\ pc[w] = "sync"
  /\ pc' = [pc EXCEPT ![w] = "close"]
  /\ temp' = [temp EXCEPT ![w].synced = TRUE]
  /\ UNCHANGED <<arg, file, possible>>

Close(w) ==
  /\ pc[w] = "close"
  /\ pc' = [pc EXCEPT ![w] = "rename"]
  /\ UNCHANGED <<arg, temp, file, possible>>

(* The deferred Remove then finds no temporary name, and the call returns nil. *)
Rename(w) ==
  /\ pc[w] = "rename"
  /\ pc' = [pc EXCEPT ![w] = "idle"]
  /\ file' = temp[w]
  /\ possible' = possible \cup {temp[w]}
  /\ temp' = [temp EXCEPT ![w] = Nothing]
  /\ UNCHANGED arg

(* Mutant: the error of a call is not looked at. *)
Fail_Ignored(w) ==
  /\ pc[w] # "idle"
  /\ pc' = [pc EXCEPT ![w] = "rename"]
  /\ UNCHANGED <<arg, temp, file, possible>>

(* Any call may fail, and the process may be killed before any: the deferred *)
(* Remove unlinks the temporary file, or it stays behind, unread.            *)
Fail(w) ==
  /\ pc[w] # "idle"
  /\ pc' = [pc EXCEPT ![w] = "idle"]
  /\ temp' = [temp EXCEPT ![w] = Nothing]
  /\ UNCHANGED <<arg, file, possible>>

(* The file system commits the directory. *)
Settle ==
  /\ possible' = {file}
  /\ UNCHANGED <<pc, arg, temp, file>>

(* Power is lost: bytes that were never synchronised may be gone. *)
PowerLoss ==
  /\ \E i \in possible, lost \in BOOLEAN :
       /\ file' = IF lost /\ ~i.synced THEN [i EXCEPT !.bytes = Torn] ELSE i
       /\ possible' = {file'}
  /\ pc' = [w \in Writer |-> "idle"]
  /\ temp' = [w \in Writer |-> Nothing]
  /\ UNCHANGED arg

Next ==
  \/ \E w \in Writer :
       \/ \E d \in Data : CreateTemp(w, d)
       \/ Chmod(w) \/ Write(w) \/ Sync(w) \/ Close(w) \/ Rename(w) \/ Fail(w)
  \/ Settle
  \/ PowerLoss

Spec == Init /\ [][Next]_vars

-----------------------------------------------------------------------------
TypeOK ==
  /\ pc \in [Writer -> Step]
  /\ arg \in [Writer -> Data]
  /\ temp \in [Writer -> Inode]
  /\ file \in Inode
  /\ possible \subseteq Inode

(* Neither a reader now nor one after a power loss finds anything but the    *)
(* whole data of some call, or no file: atomicWrite renames only what fsync  *)
(* has secured, whatever call failed before.                                 *)
NeverTorn ==
  \A i \in possible \cup {file} : i.bytes # Torn /\ i.synced

(* atomicWrite implements the atomic register (AtomicRegister). *)
Register == INSTANCE AtomicRegister WITH
  value <- file.bytes,
  kept  <- {i.bytes : i \in possible}

ImplementsRegister == Register!Spec
=============================================================================
