--------------------------- MODULE AtomicFileProofs ---------------------------
(***************************************************************************)
(* The fsync of atomicWrite secures every inode that ever gets the name,   *)
(* so a file is never torn and atomicWrite implements AtomicRegister, for  *)
(* any number of concurrent calls and any data.                            *)
(***************************************************************************)
EXTENDS AtomicFile, TLAPS

(* What a call has done to its temporary file by the time it stands before   *)
(* each system call: this is why only secured bytes are renamed.             *)
TempReady ==
  \A w \in Writer :
    /\ pc[w] \in {"sync", "close", "rename"} => temp[w].bytes = arg[w]
    /\ pc[w] \in {"close", "rename"} => temp[w].synced

IInv == TypeOK /\ TempReady /\ NeverTorn

(* IInv holds at the start. *)
LEMMA InitInv == Init => IInv
BY ContentAssumption DEF Init, IInv, TypeOK, TempReady, NeverTorn, Inode, Nothing, Step

(* IInv survives every system call, failure and power loss. *)
LEMMA StepInv == IInv /\ [Next]_vars => IInv'
<1> SUFFICES ASSUME IInv, [Next]_vars PROVE IInv'
  OBVIOUS
<1> USE ContentAssumption DEF IInv, TypeOK, TempReady, NeverTorn, Inode, Nothing, Step
<1>1. ASSUME NEW w \in Writer, NEW d \in Data, CreateTemp(w, d) PROVE IInv'
  BY <1>1 DEF CreateTemp
<1>2. ASSUME NEW w \in Writer, Chmod(w) PROVE IInv'
  BY <1>2 DEF Chmod
<1>3. ASSUME NEW w \in Writer, Write(w) PROVE IInv'
  BY <1>3 DEF Write
<1>4. ASSUME NEW w \in Writer, Sync(w) PROVE IInv'
  BY <1>4, ZenonT(40) DEF Sync
<1>5. ASSUME NEW w \in Writer, Close(w) PROVE IInv'
  BY <1>5 DEF Close
<1>6. ASSUME NEW w \in Writer, Rename(w) PROVE IInv'
  BY <1>6 DEF Rename
<1>7. ASSUME NEW w \in Writer, Fail(w) PROVE IInv'
  BY <1>7 DEF Fail
<1>8. CASE Settle
  BY <1>8 DEF Settle
<1>9. CASE PowerLoss
  BY <1>9 DEF PowerLoss
<1>10. CASE UNCHANGED vars
  BY <1>10 DEF vars
<1> QED
  BY <1>1, <1>2, <1>3, <1>4, <1>5, <1>6, <1>7, <1>8, <1>9, <1>10 DEF Next

(* In every reachable state, readers and power losses find whole files. *)
THEOREM AlwaysWhole == Spec => []NeverTorn
<1>1. IInv => NeverTorn
  BY DEF IInv
<1> QED
  BY <1>1, InitInv, StepInv, PTL DEF Spec

(* Every step is one of the register, or invisible to it. *)
LEMMA StepRefines == IInv /\ [Next]_vars => [Register!Next]_(Register!vars)
<1> SUFFICES ASSUME IInv, [Next]_vars PROVE [Register!Next]_(Register!vars)
  OBVIOUS
<1> USE DEF Register!Next, Register!vars
<1>1. ASSUME NEW w \in Writer, Rename(w) PROVE Register!Next
  <2>1. temp[w].bytes \in Data
    BY <1>1 DEF IInv, TypeOK, TempReady, Rename
  <2>2. {i.bytes : i \in possible \cup {temp[w]}} = {i.bytes : i \in possible} \cup {temp[w].bytes}
    OBVIOUS
  <2> QED
    BY <1>1, <2>1, <2>2 DEF Rename, Register!Set
<1>2. CASE Settle
  BY <1>2 DEF Settle, Register!Settle
<1>3. CASE PowerLoss
  <2>1. PICK i \in possible : file' = i /\ possible' = {file'}
    BY <1>3 DEF PowerLoss, IInv, NeverTorn
  <2> QED
    BY <2>1 DEF Register!PowerLoss
<1>4. ASSUME UNCHANGED <<file, possible>> PROVE UNCHANGED Register!vars
  BY <1>4
<1> QED
  BY <1>1, <1>2, <1>3, <1>4
  DEF Next, vars, CreateTemp, Chmod, Write, Sync, Close, Fail

(* atomicWrite implements the atomic register: its readers never see a write *)
(* in part, nor one that failed.                                             *)
THEOREM AtomicWriteIsAtomic == Spec => ImplementsRegister
<1>1. Init => Register!Init
  BY DEF Init, Nothing, Register!Init
<1> QED
  BY <1>1, InitInv, StepInv, StepRefines, PTL DEF Spec, ImplementsRegister, Register!Spec
=============================================================================
