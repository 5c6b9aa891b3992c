------------------------------- MODULE Lifecycle -------------------------------
(***************************************************************************)
(* run() of main.go from its listeners to its last write: three servers    *)
(* and the timer of the snapshots run beside it until a signal or the      *)
(* failure of a listener. It then shuts the servers down one after the     *)
(* other under one deadline, waits for the timer and flushes the history.  *)
(* The container's manager kills what is still there after Grace seconds.  *)
(*                                                                         *)
(* The history is the number of queries recorded; what is in it is the     *)
(* matter of QueryHistory. How the servers of net/http and miekg/dns shut  *)
(* down is modelled from what run() relies on.                             *)
(***************************************************************************)
EXTENDS Integers

CONSTANTS
  Handler,     \* goroutines of the servers: queries and dashboard requests
  Deadline,    \* 5 seconds
  Grace,       \* stop_grace_period of compose.yaml, 15 seconds
  DiskTime,    \* what the writes of a shutdown take together
  MaxRecords   \* bound: queries recorded

ASSUME LifecycleAssumption ==
  /\ Deadline \in Nat \ {0} /\ Grace \in Nat /\ DiskTime \in Nat /\ MaxRecords \in Nat
  /\ Deadline + DiskTime < Grace

VARIABLES
  pc,         \* where run() is
  stage,      \* the server that is shut down, an index of Order
  cancelled,  \* ctx of run() is done
  clock,      \* seconds since the shutdown began
  expires,    \* the deadline of the context shutdown
  srv,        \* srv[s]: the serving goroutine of s
  at,         \* at[h]: the server whose request h handles
  ticker,     \* the goroutine of the timers
  memory,     \* queries in s.history
  disk,       \* queries in history.json
  persistenceError,  \* the last flush failed
  clean       \* history variable: each Shutdown so far returned without an error

vars == <<pc, stage, cancelled, clock, expires, srv, at, ticker, memory, disk,
          persistenceError, clean>>
netVars  == <<srv, at>>
diskVars == <<ticker, memory, disk, persistenceError>>
stopVars == <<pc, stage, cancelled, clock, expires, clean>>

Order == <<"web", "udp", "tcp">>
Server == {"web", "udp", "tcp"}
DNS == {"udp", "tcp"}
PC == {"down", "serve", "close", "wait", "join", "flush", "exit"}
Stopping == {"close", "wait", "join", "flush"}

Up == pc # "down"
Busy(s) == \E h \in Handler : at[h] = s

NotServing == [s \in Server |-> "starting"]
NoRequests == [h \in Handler |-> "none"]

Init ==
  /\ pc = "down" /\ stage = 1 /\ cancelled = FALSE /\ clock = 0 /\ expires = 0 /\ clean = TRUE
  /\ srv = NotServing /\ at = NoRequests /\ ticker = "loop"
  /\ memory = 0 /\ disk = 0 /\ persistenceError = FALSE

(* newStore and the three listeners; if one of them fails run() returns. *)
Boot ==
  /\ pc = "down"
  /\ pc' = "serve"
  /\ UNCHANGED <<stage, cancelled, clock, expires, clean, netVars, diskVars>>

(* Nothing but the files is left; the next process begins with them. *)
Dies ==
  /\ pc' = "down" /\ stage' = 1 /\ cancelled' = FALSE
  /\ clock' = 0 /\ expires' = 0 /\ clean' = TRUE
  /\ srv' = NotServing /\ at' = NoRequests /\ ticker' = "loop"
  /\ memory' = disk /\ persistenceError' = FALSE
  /\ UNCHANGED disk

(* A panic, SIGKILL, or a second signal after stop(). *)
Crash == Up /\ Dies

(* SIGTERM or an interrupt. *)
Signal ==
  /\ pc = "serve" /\ ~cancelled
  /\ cancelled' = TRUE
  /\ UNCHANGED <<pc, stage, clock, expires, clean, netVars, diskVars>>

-----------------------------------------------------------------------------
(* The servers. *)
Activate(s) ==
  /\ Up /\ srv[s] = "starting"
  /\ srv' = [srv EXCEPT ![s] = "serving"]
  /\ UNCHANGED <<at, stopVars, diskVars>>

(* A serving loop ends with an error of its listener, that of a DNS server   *)
(* after its handlers.                                                       *)
ListenerFails(s) ==
  /\ Up /\ srv[s] = "serving"
  /\ srv' = [srv EXCEPT ![s] = IF s \in DNS THEN "closing" ELSE "ended"]
  /\ UNCHANGED <<at, stopVars, diskVars>>

Ended(s) ==
  /\ srv[s] = "closing" /\ ~Busy(s)
  /\ srv' = [srv EXCEPT ![s] = "ended"]
  /\ UNCHANGED <<at, stopVars, diskVars>>

Arrive(h, s) ==
  /\ at[h] = "none" /\ srv[s] = "serving" /\ memory < MaxRecords
  /\ at' = [at EXCEPT ![h] = s]
  /\ UNCHANGED <<srv, stopVars, diskVars>>

(* ServeDNS ends with record, unless logging is off; at the bound it is. *)
Finish(h) ==
  /\ at[h] # "none"
  /\ at' = [at EXCEPT ![h] = "none"]
  /\ memory' \in {memory} \cup {n \in {memory + 1} : at[h] \in DNS /\ n <= MaxRecords}
  /\ UNCHANGED <<srv, stopVars, ticker, disk, persistenceError>>

-----------------------------------------------------------------------------
(* The goroutine of the timers. *)
Snapshot ==
  /\ Up /\ ticker = "loop"
  /\ disk' = memory /\ persistenceError' = FALSE
  /\ UNCHANGED <<ticker, memory, netVars, stopVars>>

(* Mutant: an error ends the goroutine. *)
SnapshotFails_Returns ==
  /\ Up /\ ticker = "loop"
  /\ persistenceError' = TRUE /\ ticker' = "gone"
  /\ UNCHANGED <<memory, disk, netVars, stopVars>>

SnapshotFails ==
  /\ Up /\ ticker = "loop"
  /\ persistenceError' = TRUE
  /\ UNCHANGED <<ticker, memory, disk, netVars, stopVars>>

TickerReturns ==
  /\ Up /\ ticker = "loop" /\ cancelled
  /\ ticker' = "gone"
  /\ UNCHANGED <<memory, disk, persistenceError, netVars, stopVars>>

-----------------------------------------------------------------------------
(* run(). *)
(* Mutant: the last server is forgotten. *)
NextStage_Short == IF stage < 2 THEN pc' = "close" /\ stage' = stage + 1
                                ELSE pc' = "join" /\ UNCHANGED stage

NextStage == IF stage < 3 THEN pc' = "close" /\ stage' = stage + 1
                          ELSE pc' = "join" /\ UNCHANGED stage

(* Mutant: run() does not call stop(). *)
Leave_NoStop ==
  /\ pc = "serve"
  /\ cancelled \/ \E s \in Server : srv[s] = "ended"
  /\ pc' = "close" /\ expires' = clock + Deadline
  /\ UNCHANGED <<stage, cancelled, clock, clean, netVars, diskVars>>

(* The select ends, and stop() cancels ctx if no signal has. *)
Leave ==
  /\ pc = "serve"
  /\ cancelled \/ \E s \in Server : srv[s] = "ended"
  /\ pc' = "close" /\ cancelled' = TRUE /\ expires' = clock + Deadline
  /\ UNCHANGED <<stage, clock, clean, netVars, diskVars>>

(* Mutant: every server has a deadline of its own. *)
Close_OwnDeadline ==
  /\ pc = "close"
  /\ pc' = "wait" /\ expires' = clock + Deadline
  /\ srv' = [srv EXCEPT ![Order[stage]] =
       IF Order[stage] = "web" \/ @ = "ended" THEN "ended" ELSE "closing"]
  /\ UNCHANGED <<stage, clean, at, cancelled, clock, diskVars>>

(* Shutdown closes the listener. A DNS server that has not started yet       *)
(* refuses it, and starts all the same.                                      *)
Close ==
  LET s == Order[stage] IN
  /\ pc = "close"
  /\ IF s \in DNS /\ srv[s] = "starting"
     THEN /\ NextStage /\ clean' = FALSE
          /\ UNCHANGED srv
     ELSE /\ pc' = "wait"
          /\ srv' = [srv EXCEPT ![s] = IF s = "web" \/ @ = "ended" THEN "ended" ELSE "closing"]
          /\ UNCHANGED <<stage, clean>>
  /\ UNCHANGED <<at, cancelled, clock, expires, diskVars>>

Drained ==
  /\ pc = "wait" /\ srv[Order[stage]] = "ended" /\ ~Busy(Order[stage])
  /\ NextStage
  /\ UNCHANGED <<cancelled, clock, expires, clean, netVars, diskVars>>

TimedOut ==
  /\ pc = "wait" /\ clock >= expires
  /\ NextStage /\ clean' = FALSE
  /\ UNCHANGED <<cancelled, clock, expires, netVars, diskVars>>

Join ==
  /\ pc = "join" /\ ticker = "gone"
  /\ pc' = "flush"
  /\ UNCHANGED <<stage, cancelled, clock, expires, clean, netVars, diskVars>>

LastFlush ==
  /\ pc = "flush"
  /\ pc' = "exit"
  /\ \/ disk' = memory /\ persistenceError' = FALSE
     \/ persistenceError' = TRUE /\ UNCHANGED disk
  /\ UNCHANGED <<stage, cancelled, clock, expires, clean, netVars, ticker, memory>>

(* main returns, and with it every goroutine that is left. *)
Exit == pc = "exit" /\ Dies

(* Only the waits and the writes of a shutdown take time. *)
Tick ==
  /\ \/ pc = "wait" /\ clock < expires
     \/ pc \in {"join", "flush"} /\ clock < expires + DiskTime
  /\ clock' = clock + 1
  /\ UNCHANGED <<pc, stage, cancelled, expires, clean, netVars, diskVars>>

RunStep == Leave \/ Close \/ Drained \/ TimedOut \/ Join \/ LastFlush \/ Exit
ServerStep(s) == Activate(s) \/ ListenerFails(s) \/ Ended(s)

Next ==
  \/ Boot \/ Crash \/ Signal \/ RunStep \/ Tick
  \/ Snapshot \/ SnapshotFails \/ TickerReturns
  \/ \E s \in Server : ServerStep(s) \/ \E h \in Handler : Arrive(h, s)
  \/ \E h \in Handler : Finish(h)

Spec == Init /\ [][Next]_vars

(* run() and the timer go on, time passes, a query is answered in the end    *)
(* (EveryQueryEnds of Resolver), and the disk does not fail at every         *)
(* snapshot. A dashboard request may hang.                                   *)
Fairness ==
  /\ WF_vars(RunStep) /\ WF_vars(Tick) /\ WF_vars(TickerReturns) /\ SF_vars(Snapshot)
  /\ \A s \in Server : WF_vars(Ended(s))
  /\ \A h \in Handler : WF_vars(at[h] \in DNS /\ Finish(h))

FairSpec == Spec /\ Fairness

-----------------------------------------------------------------------------
TypeOK ==
  /\ pc \in PC /\ stage \in 1..3 /\ cancelled \in BOOLEAN /\ clean \in BOOLEAN
  /\ clock \in Nat /\ expires \in Nat
  /\ srv \in [Server -> {"starting", "serving", "closing", "ended"}]
  /\ at \in [Handler -> Server \cup {"none"}]
  /\ ticker \in {"loop", "gone"}
  /\ memory \in 0..MaxRecords /\ disk \in 0..MaxRecords
  /\ persistenceError \in BOOLEAN

(* "Snapshots are written every 30 seconds and at orderly shutdown"          *)
(* (README.md): when every Shutdown has returned without an error and the    *)
(* last write succeeded, the process leaves no recorded query unsaved and    *)
(* no query in flight that could still be recorded. (Servers first, then the *)
(* flush.)                                                                   *)
DrainedIsSaved ==
  pc = "exit" /\ clean /\ ~persistenceError
    => disk = memory /\ \A s \in DNS : ~Busy(s)

(* The last write is made before the container's manager loses patience:     *)
(* three servers that hang share one deadline of 5 seconds.                  *)
StopsWithinGrace == pc \in Stopping => clock < Grace

(* After a signal, and after the failure of any of the three listeners, the  *)
(* process ends, whatever requests are in flight, so that the manager can    *)
(* start it again.                                                           *)
StopEnds ==
  /\ cancelled ~> ~Up
  /\ \A s \in Server : (srv[s] = "ended" \/ (s \in DNS /\ srv[s] = "closing")) ~> ~Up

(* Snapshots are written for as long as the process runs: what is recorded   *)
(* reaches the disk although some writes fail, or the process ends.          *)
SnapshotsGoOn ==
  \A n \in 1..MaxRecords : memory >= n ~> disk >= n \/ ~Up
=============================================================================
