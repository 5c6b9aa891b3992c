--------------------------- MODULE LifecycleProofs ---------------------------
(***************************************************************************)
(* Proofs about Lifecycle for any number of requests, any deadline and any *)
(* grace period that leaves time for the deadline and the last write.      *)
(***************************************************************************)
EXTENDS Lifecycle, TLAPS

LEMMA NothingRuns == /\ NotServing \in [Server -> {"starting", "serving", "closing", "ended"}]
                     /\ NoRequests \in [Handler -> Server \cup {"none"}]
  BY DEF NotServing, NoRequests

LEMMA TypeOKInit == Init => TypeOK
<1> SUFFICES ASSUME Init PROVE TypeOK
  OBVIOUS
<1>1. cancelled \in BOOLEAN /\ clean \in BOOLEAN /\ persistenceError \in BOOLEAN
  BY Zenon DEF Init
<1>2. /\ pc \in PC /\ stage \in 1..3 /\ clock \in Nat /\ expires \in Nat
      /\ ticker \in {"loop", "gone"} /\ memory \in 0..MaxRecords /\ disk \in 0..MaxRecords
  BY LifecycleAssumption DEF Init, PC
<1> QED
  BY <1>1, <1>2, NothingRuns DEF Init, TypeOK

LEMMA TypeOKStep == TypeOK /\ [Next]_vars => TypeOK'
<1> SUFFICES ASSUME TypeOK, [Next]_vars PROVE TypeOK'
  OBVIOUS
<1> USE LifecycleAssumption DEF TypeOK, PC
<1>1. CASE Boot \/ Signal
  BY <1>1 DEF Boot, Signal, netVars, diskVars
<1>2. CASE Dies
  <2>1. cancelled' \in BOOLEAN /\ clean' \in BOOLEAN /\ persistenceError' \in BOOLEAN
    BY <1>2, Zenon DEF Dies
  <2>2. /\ pc' \in PC /\ stage' \in 1..3 /\ clock' \in Nat /\ expires' \in Nat
        /\ ticker' \in {"loop", "gone"} /\ memory' \in 0..MaxRecords /\ disk' = disk
    BY <1>2 DEF Dies
  <2> QED
    BY <1>2, <2>1, <2>2, NothingRuns DEF Dies
<1>3. CASE Leave \/ Join
  <2>1. pc' \in PC /\ expires' \in Nat
    BY <1>3 DEF Leave, Join
  <2>2. cancelled' \in BOOLEAN
    BY <1>3, Zenon DEF Leave, Join
  <2>3. UNCHANGED <<stage, clock, clean, netVars, diskVars>>
    BY <1>3 DEF Leave, Join
  <2> QED
    BY <2>1, <2>2, <2>3 DEF netVars, diskVars
<1>4. ASSUME NextStage PROVE pc' \in PC /\ stage' \in 1..3
  BY <1>4 DEF NextStage
<1>5. CASE Close
  <2>1. stage' \in 1..3 /\ pc' \in PC /\ clean' \in BOOLEAN
    BY <1>4, <1>5 DEF Close
  <2>2. srv' \in [Server -> {"starting", "serving", "closing", "ended"}]
    BY <1>5 DEF Close, Order, Server
  <2> QED
    BY <1>5, <2>1, <2>2 DEF Close, diskVars
<1>6. CASE Drained \/ TimedOut
  BY <1>4, <1>6 DEF Drained, TimedOut, netVars, diskVars
<1>7. CASE LastFlush
  BY <1>7 DEF LastFlush, netVars
<1>8. CASE Tick
  BY <1>8 DEF Tick, netVars, diskVars
<1>9. CASE Snapshot \/ SnapshotFails \/ TickerReturns
  BY <1>9 DEF Snapshot, SnapshotFails, TickerReturns, netVars, stopVars
<1>10. ASSUME NEW s \in Server, ServerStep(s) PROVE TypeOK'
  BY <1>10 DEF ServerStep, Activate, ListenerFails, Ended, stopVars, diskVars
<1>11. ASSUME NEW h \in Handler, NEW s \in Server, Arrive(h, s) PROVE TypeOK'
  BY <1>11 DEF Arrive, stopVars, diskVars
<1>12. ASSUME NEW h \in Handler, Finish(h) PROVE TypeOK'
  BY <1>12 DEF Finish, stopVars
<1>13. CASE UNCHANGED vars
  BY <1>13 DEF vars, netVars, diskVars
<1> QED
  BY <1>1, <1>2, <1>3, <1>5, <1>6, <1>7, <1>8, <1>9, <1>10, <1>11, <1>12, <1>13
     DEF Next, RunStep, Crash, Exit

(* Every variable keeps its type. *)
THEOREM LifecycleTypes == Spec => []TypeOK
  BY TypeOKInit, TypeOKStep, PTL DEF Spec

-----------------------------------------------------------------------------
(* The one deadline counts from the beginning of the shutdown; only the      *)
(* writes come after it.                                                     *)
TimeInv ==
  /\ pc \in {"down", "serve"} => clock = 0
  /\ pc \in Stopping => expires = Deadline
  /\ pc \in {"close", "wait"} => clock <= expires
  /\ pc \in {"join", "flush"} => clock <= expires + DiskTime

LEMMA TimeInvInit == Init => TimeInv
  BY DEF Init, TimeInv, Stopping

LEMMA TimeInvStep == TypeOK /\ TimeInv /\ [Next]_vars => TimeInv'
<1> SUFFICES ASSUME TypeOK, TimeInv, [Next]_vars PROVE TimeInv'
  OBVIOUS
<1> USE LifecycleAssumption DEF TypeOK, TimeInv, Stopping
<1>1. CASE Boot \/ Dies \/ Signal \/ Leave
  BY <1>1 DEF Boot, Dies, Signal, Leave
<1>2. CASE Close \/ Drained \/ TimedOut
  BY <1>2 DEF Close, Drained, TimedOut, NextStage
<1>3. CASE Join \/ LastFlush
  BY <1>3 DEF Join, LastFlush
<1>4. CASE Tick
  BY <1>4 DEF Tick
<1>5. CASE UNCHANGED stopVars
  BY <1>5 DEF stopVars
<1>6. ASSUME NEW s \in Server, ServerStep(s) PROVE UNCHANGED stopVars
  BY <1>6 DEF ServerStep, Activate, ListenerFails, Ended
<1>7. ASSUME NEW h \in Handler, NEW s \in Server, Arrive(h, s) PROVE UNCHANGED stopVars
  BY <1>7 DEF Arrive
<1>8. ASSUME NEW h \in Handler, Finish(h) PROVE UNCHANGED stopVars
  BY <1>8 DEF Finish
<1>9. CASE Snapshot \/ SnapshotFails \/ TickerReturns \/ UNCHANGED vars
  BY <1>5, <1>9 DEF Snapshot, SnapshotFails, TickerReturns, vars, stopVars
<1> QED
  BY <1>1, <1>2, <1>3, <1>4, <1>5, <1>6, <1>7, <1>8, <1>9 DEF Next, RunStep, Crash, Exit

(* However many requests hang, the last write is made within the grace       *)
(* period.                                                                   *)
THEOREM GraceSuffices == Spec => []StopsWithinGrace
<1>1. TypeOK /\ TimeInv => StopsWithinGrace
  BY LifecycleAssumption DEF TypeOK, TimeInv, StopsWithinGrace, Stopping
<1> QED
  BY <1>1, TypeOKInit, TypeOKStep, TimeInvInit, TimeInvStep, PTL DEF Spec

-----------------------------------------------------------------------------
(* A server that has ended and whose requests are over. *)
Quiet(s) == srv[s] = "ended" /\ ~Busy(s)

(* The servers that run() is done with, if none of them returned an error.   *)
DoneWith(k) ==
  \/ pc \in {"close", "wait"} /\ k < stage
  \/ pc \in {"join", "flush", "exit"}

DrainInv ==
  /\ pc \in {"down", "serve"} => stage = 1
  /\ clean => \A k \in 1..3 : DoneWith(k) => Quiet(Order[k])
  /\ pc = "exit" /\ clean /\ ~persistenceError => disk = memory

LEMMA OrderIsServer == /\ \A k \in 1..3 : Order[k] \in Server
                       /\ Order[2] = "udp" /\ Order[3] = "tcp"
  BY DEF Order, Server

LEMMA DrainInvInit == Init => DrainInv
  BY DEF Init, DrainInv, DoneWith

(* A quiet server stays quiet for as long as the process lives.              *)
LEMMA QuietStays ==
  ASSUME TypeOK, [Next]_vars, pc' # "down", NEW s \in Server, Quiet(s)
  PROVE  Quiet(s)'
<1> USE DEF TypeOK, Quiet, Busy
<1>1. CASE UNCHANGED netVars
  BY <1>1 DEF netVars
<1>2. CASE Close
  BY <1>2 DEF Close
<1>3. ASSUME NEW t \in Server, ServerStep(t) PROVE Quiet(s)'
  BY <1>3 DEF ServerStep, Activate, ListenerFails, Ended
<1>4. ASSUME NEW h \in Handler, NEW t \in Server, Arrive(h, t) PROVE Quiet(s)'
  BY <1>4 DEF Arrive
<1>5. ASSUME NEW h \in Handler, Finish(h) PROVE Quiet(s)'
  BY <1>5 DEF Finish, Server
<1>6. CASE Boot \/ Signal \/ Leave \/ Drained \/ TimedOut \/ Join \/ LastFlush \/ Tick
  BY <1>1, <1>6 DEF Boot, Signal, Leave, Drained, TimedOut, Join, LastFlush, Tick
<1>7. CASE Snapshot \/ SnapshotFails \/ TickerReturns \/ UNCHANGED vars
  BY <1>1, <1>7 DEF Snapshot, SnapshotFails, TickerReturns, vars
<1>8. ~Dies
  BY DEF Dies
<1> QED
  BY <1>2, <1>3, <1>4, <1>5, <1>6, <1>7, <1>8 DEF Next, RunStep, Crash, Exit

LEMMA DrainInvStep == TypeOK /\ DrainInv /\ [Next]_vars => DrainInv'
<1> SUFFICES ASSUME TypeOK, DrainInv, [Next]_vars PROVE DrainInv'
  OBVIOUS
<1>1. CASE Dies
  BY <1>1 DEF Dies, DrainInv, DoneWith
<1>2. CASE pc' # "down"
  <2> SUFFICES /\ pc' = "serve" => stage' = 1
               /\ \A k \in 1..3 : clean' /\ DoneWith(k)' => clean /\ (DoneWith(k) \/ Quiet(Order[k]))
               /\ pc' = "exit" /\ clean' /\ ~persistenceError' => disk' = memory'
    <3>1. ASSUME NEW k \in 1..3, Quiet(Order[k]) PROVE Quiet(Order[k])'
      BY <1>2, <3>1, QuietStays, OrderIsServer
    <3> QED
      BY <1>2, <3>1 DEF DrainInv, TypeOK
  <2>1. CASE Boot \/ Signal \/ Leave \/ Join
    BY <2>1 DEF Boot, Signal, Leave, Join, DrainInv, DoneWith, TypeOK
  <2>2. CASE Close
    BY <2>2 DEF Close, NextStage, DrainInv, DoneWith, TypeOK
  <2>3. CASE Drained
    <3>1. Quiet(Order[stage])
      BY <2>3 DEF Drained, Quiet
    <3> QED
      BY <2>3, <3>1 DEF Drained, NextStage, DrainInv, DoneWith, TypeOK
  <2>4. CASE TimedOut
    BY <2>4 DEF TimedOut, NextStage, DrainInv, DoneWith, TypeOK
  <2>5. CASE LastFlush
    BY <2>5 DEF LastFlush, DrainInv, DoneWith, TypeOK
  <2>6. CASE Tick \/ UNCHANGED vars
    BY <2>6 DEF Tick, vars, diskVars, DrainInv, DoneWith, TypeOK
  <2>7. CASE Snapshot \/ SnapshotFails \/ TickerReturns
    BY <2>7 DEF Snapshot, SnapshotFails, TickerReturns, diskVars, DrainInv, DoneWith, TypeOK, stopVars
  <2>8. CASE \E s \in Server : ServerStep(s) \/ \E h \in Handler : Arrive(h, s)
    BY <2>8 DEF ServerStep, Activate, ListenerFails, Ended, Arrive, diskVars, stopVars,
                DrainInv, DoneWith, TypeOK
  <2>9. ASSUME NEW h \in Handler, Finish(h)
         PROVE /\ pc' = "serve" => stage' = 1
               /\ \A k \in 1..3 : clean' /\ DoneWith(k)' => clean /\ (DoneWith(k) \/ Quiet(Order[k]))
               /\ pc' = "exit" /\ clean' /\ ~persistenceError' => disk' = memory'
    <3>1. UNCHANGED <<pc, stage, clean, persistenceError, disk>>
      BY <2>9 DEF Finish, stopVars
    <3>2. ASSUME pc = "exit", clean PROVE memory' = memory
      <4>1. Quiet("udp") /\ Quiet("tcp")
        BY <3>2, OrderIsServer DEF DrainInv, DoneWith, TypeOK
      <4>2. at[h] \notin DNS
        BY <4>1 DEF Quiet, Busy, DNS
      <4> QED
        BY <2>9, <4>2 DEF Finish
    <3> QED
      BY <3>1, <3>2 DEF DrainInv, DoneWith, TypeOK
  <2>10. ~Dies
    BY <1>2 DEF Dies
  <2> QED
    BY <2>1, <2>2, <2>3, <2>4, <2>5, <2>6, <2>7, <2>8, <2>9, <2>10 DEF Next, RunStep, Crash, Exit
<1>3. CASE pc' = "down" /\ ~Dies
  <2> SUFFICES stage' = stage /\ pc = "down"
    BY <1>3 DEF DrainInv, DoneWith
  <2>1. ~Boot /\ ~Signal /\ ~RunStep /\ ~Tick
    BY <1>3 DEF Boot, Signal, RunStep, Leave, Close, Drained, TimedOut, NextStage, Join,
                LastFlush, Exit, Tick
  <2>2. CASE UNCHANGED stopVars
    BY <1>3, <2>2 DEF stopVars
  <2>3. CASE Snapshot \/ SnapshotFails \/ TickerReturns \/ UNCHANGED vars
    BY <2>2, <2>3 DEF Snapshot, SnapshotFails, TickerReturns, vars, stopVars
  <2>4. ASSUME NEW s \in Server, ServerStep(s) PROVE UNCHANGED stopVars
    BY <2>4 DEF ServerStep, Activate, ListenerFails, Ended
  <2>5. ASSUME NEW s \in Server, NEW h \in Handler, Arrive(h, s) PROVE UNCHANGED stopVars
    BY <2>5 DEF Arrive
  <2>6. ASSUME NEW h \in Handler, Finish(h) PROVE UNCHANGED stopVars
    BY <2>6 DEF Finish
  <2> QED
    BY <1>3, <2>1, <2>2, <2>3, <2>4, <2>5, <2>6 DEF Next, Crash
<1> QED
  BY <1>1, <1>2, <1>3

(* An orderly shutdown loses nothing: if all servers came to their end       *)
(* before the deadline, every recorded query is in the file.                 *)
THEOREM OrderlyStopSaves == Spec => []DrainedIsSaved
<1>1. TypeOK /\ DrainInv => DrainedIsSaved
  BY OrderIsServer DEF DrainInv, DrainedIsSaved, DoneWith, Quiet, DNS, TypeOK
<1> QED
  BY <1>1, TypeOKInit, TypeOKStep, DrainInvInit, DrainInvStep, PTL DEF Spec
=============================================================================
