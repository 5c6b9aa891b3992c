---------------------------- MODULE AtomicRegister ----------------------------
(***************************************************************************)
(* What atomicWrite (store.go) promises about one file of the data volume: *)
(* a register whose value is always one that some call passed in whole.    *)
(* A process crash loses nothing; a power loss may take the register back  *)
(* to any value the medium had not yet superseded, since the directory is  *)
(* never synchronised.                                                     *)
(***************************************************************************)
CONSTANTS Data, Absent

VARIABLES
  value,   \* what a reader of the path finds
  kept     \* the values the medium may show after a power loss

vars == <<value, kept>>

Init == value = Absent /\ kept = {Absent}

Set(d) == value' = d /\ kept' = kept \cup {d}

Settle == kept' = {value} /\ UNCHANGED value

PowerLoss == \E v \in kept : value' = v /\ kept' = {v}

Next == (\E d \in Data : Set(d)) \/ Settle \/ PowerLoss

Spec == Init /\ [][Next]_vars
=============================================================================
