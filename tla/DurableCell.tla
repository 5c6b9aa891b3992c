------------------------------ MODULE DurableCell ------------------------------
(***************************************************************************)
(* What QuietDNS promises of a value it keeps in memory and in a file, the *)
(* settings and every cached list alike (ARCHITECTURE.md, "persist the     *)
(* next configuration before publishing it in memory"): a change reaches   *)
(* the file first, the memory then catches up before the next change, and  *)
(* a start finds what the file holds. While the process is down the value  *)
(* in memory means nothing.                                                *)
(***************************************************************************)
VARIABLES
  durable,  \* the value in the file
  live,     \* the value in memory
  up        \* the process runs

vars == <<durable, live, up>>

Init == ~up

Start == ~up /\ up' /\ live' = durable /\ UNCHANGED durable

(* The file takes a new value, any value, only while memory agrees with the *)
(* old one, or nobody runs.                                                 *)
Commit == (up => live = durable) /\ UNCHANGED <<live, up>>

Publish == up /\ live' = durable /\ UNCHANGED <<durable, up>>

Stop == ~up' /\ UNCHANGED durable

Next == Start \/ Commit \/ Publish \/ Stop

Spec == Init /\ [][Next]_vars
=============================================================================
