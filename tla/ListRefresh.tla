----------------------------- MODULE ListRefresh -----------------------------
(***************************************************************************)
(* refreshLists (lists.go) beside the configuration of Store: goroutines   *)
(* started by the timer, by POST /api/refresh and by the setup and source  *)
(* routes download the enabled lists, one goroutine at a time. A list goes *)
(* to its file without the mutex, and into memory with it.                 *)
(*                                                                         *)
(* A request that changes the settings first names its goroutine           *)
(* ("asked"), which starts when the change is published.                   *)
(***************************************************************************)
EXTENDS Store

CONSTANTS
  Worker,      \* bound: refresh goroutines at a time
  MinDomains,  \* 100 in the code
  Failed       \* the outcome of an update that did not succeed

ASSUME RefreshAssumption == MinDomains \in Nat \ {0} /\ Failed \notin Content

VARIABLES
  updating, refreshPending,   \* the fields of Store
  stopping,   \* the context of run() is cancelled
  pc,         \* pc[w]: where the goroutine w is in refreshLists
  ctx,        \* ctx[w]: its context ends with run() or outlives its request
  todo,       \* todo[w]: what is left of selected
  cur, got,   \* the list in hand and its content; out of scope, their first values
  due         \* history: lists someone asked for and no download began since

refreshVars == <<updating, refreshPending, stopping, pc, ctx, todo, cur, got, due>>
allVars == <<vars, refreshVars>>
workVars == <<ctx, todo, cur, got>>

PC == {"idle", "asked", "enter", "snapshot", "next", "write", "publish"}
Running == {"snapshot", "next", "write", "publish"}

(* Mutant: short lists are accepted. *)
Usable_Short(c) == c \in Content /\ parseList(c) # Invalid

(* What refreshLists accepts. *)
Usable(c) ==
  /\ c \in Content
  /\ parseList(c) # Invalid
  /\ Cardinality(parseList(c)) >= MinDomains

RefreshInit ==
  /\ Init
  /\ updating = FALSE /\ refreshPending = FALSE /\ stopping = FALSE
  /\ pc = [w \in Worker |-> "idle"]
  /\ ctx = [w \in Worker |-> "run"]
  /\ todo = [w \in Worker |-> {}]
  /\ cur = [w \in Worker |-> DefaultSource]
  /\ got = [w \in Worker |-> Failed]
  /\ due = {}

-----------------------------------------------------------------------------
Spawn(w, at, context) ==
  /\ pc[w] = "idle"
  /\ pc' = [pc EXCEPT ![w] = at]
  /\ ctx' = [ctx EXCEPT ![w] = context]
  /\ UNCHANGED <<updating, refreshPending, stopping, todo, cur, got>>

AskingRoute(w) == RefreshingRoute /\ Spawn(w, "asked", "request") /\ UNCHANGED due

PublishConfig ==
  /\ Publish
  /\ pc' = [w \in Worker |-> IF pc[w] = "asked" THEN "enter" ELSE pc[w]]
  /\ due' = IF \E w \in Worker : pc[w] = "asked" THEN due \cup staged[1].sources ELSE due
  /\ UNCHANGED <<updating, refreshPending, stopping, workVars>>

(* POST /api/refresh. *)
RefreshRequest(w) ==
  /\ up /\ MutexFree /\ settings.admin # NoAdmin
  /\ Spawn(w, "enter", "request")
  /\ due' = due \cup settings.sources
  /\ UNCHANGED vars

(* The timer of run(), and its first refresh at the start. *)
ScheduledRefresh(w) ==
  /\ up /\ ~stopping /\ MutexFree /\ settings.admin # NoAdmin
  /\ Spawn(w, "enter", "run")
  /\ UNCHANGED <<vars, due>>

(* SIGTERM: run() cancels its context; the process ends some time later. *)
Stop ==
  /\ up /\ ~stopping
  /\ stopping' = TRUE
  /\ UNCHANGED <<vars, updating, refreshPending, pc, workVars, due>>

BootAll ==
  /\ Boot
  /\ UNCHANGED <<updating, refreshPending, stopping, pc, workVars, due>>

CrashAll ==
  /\ Crash
  /\ updating' = FALSE /\ refreshPending' = FALSE /\ stopping' = FALSE
  /\ pc' = [w \in Worker |-> "idle"]
  /\ ctx' = [w \in Worker |-> "run"]
  /\ todo' = [w \in Worker |-> {}]
  /\ cur' = [w \in Worker |-> DefaultSource]
  /\ got' = [w \in Worker |-> Failed]
  /\ due' = {}

-----------------------------------------------------------------------------
(* Mutant: nobody looks at updating. *)
Enter_Anyone(w) ==
  /\ pc[w] = "enter" /\ MutexFree
  /\ updating' = TRUE
  /\ pc' = [pc EXCEPT ![w] = "snapshot"]
  /\ UNCHANGED <<vars, refreshPending, stopping, workVars, due>>

(* Mutant: the second caller leaves no note. *)
Enter_NoNote(w) ==
  /\ pc[w] = "enter" /\ MutexFree
  /\ updating' = TRUE
  /\ pc' = [pc EXCEPT ![w] = IF updating THEN "idle" ELSE "snapshot"]
  /\ UNCHANGED <<vars, refreshPending, stopping, workVars, due>>

(* One refresh at a time: a second caller leaves a note and returns. *)
Enter(w) ==
  /\ pc[w] = "enter" /\ MutexFree
  /\ IF updating
     THEN /\ refreshPending' = TRUE
          /\ pc' = [pc EXCEPT ![w] = "idle"]
          /\ UNCHANGED updating
     ELSE /\ updating' = TRUE
          /\ pc' = [pc EXCEPT ![w] = "snapshot"]
          /\ UNCHANGED refreshPending
  /\ UNCHANGED <<vars, stopping, workVars, due>>

Snapshot(w) ==
  /\ pc[w] = "snapshot" /\ MutexFree
  /\ pc' = [pc EXCEPT ![w] = "next"]
  /\ todo' = [todo EXCEPT ![w] = settings.sources]
  /\ UNCHANGED <<vars, updating, refreshPending, stopping, ctx, cur, got, due>>

(* One download: an error of any kind, or content that parses and is not     *)
(* suspiciously short.                                                       *)
Fetch(w, id, c) ==
  /\ pc[w] = "next" /\ id \in todo[w]
  /\ todo' = [todo EXCEPT ![w] = @ \ {id}]
  /\ cur' = [cur EXCEPT ![w] = id]
  /\ got' = [got EXCEPT ![w] = IF Usable(c) THEN c ELSE Failed]
  /\ pc' = [pc EXCEPT ![w] = IF Usable(c) THEN "write" ELSE "publish"]
  /\ due' = due \ {id}
  /\ UNCHANGED <<vars, updating, refreshPending, stopping, ctx>>

(* Mutant: a failed write is not looked at. *)
WriteList_Unchecked(w) ==
  /\ pc[w] = "write"
  /\ pc' = [pc EXCEPT ![w] = "publish"]
  /\ listFile' \in {listFile, [listFile EXCEPT ![cur[w]] = got[w]]}
  /\ UNCHANGED <<up, configVars, lists, now>>
  /\ UNCHANGED <<updating, refreshPending, stopping, workVars, due>>

(* atomicWrite of the list, no mutex held. *)
WriteList(w) ==
  /\ pc[w] = "write"
  /\ pc' = [pc EXCEPT ![w] = "publish"]
  /\ \/ /\ listFile' = [listFile EXCEPT ![cur[w]] = got[w]]
        /\ UNCHANGED got
     \/ /\ got' = [got EXCEPT ![w] = Failed]
        /\ UNCHANGED listFile
  /\ UNCHANGED <<up, configVars, lists, now>>
  /\ UNCHANGED <<updating, refreshPending, stopping, ctx, todo, cur, due>>

(* Mutant: the maps are not rebuilt. *)
PublishList_NoRebuild(w) ==
  /\ pc[w] = "publish" /\ MutexFree
  /\ pc' = [pc EXCEPT ![w] = "next"]
  /\ lists' = IF got[w] = Failed THEN lists
              ELSE [lists EXCEPT ![cur[w]] = parseList(got[w])]
  /\ cur' = [cur EXCEPT ![w] = DefaultSource]
  /\ got' = [got EXCEPT ![w] = Failed]
  /\ UNCHANGED <<up, configVars, listFile, now>>
  /\ UNCHANGED <<updating, refreshPending, stopping, ctx, todo, due>>

PublishList(w) ==
  /\ pc[w] = "publish" /\ MutexFree
  /\ pc' = [pc EXCEPT ![w] = "next"]
  /\ IF got[w] = Failed
     THEN UNCHANGED <<lists, blocked, allowed>>
     ELSE /\ lists' = [lists EXCEPT ![cur[w]] = parseList(got[w])]
          /\ Rebuild(settings, lists')
  /\ cur' = [cur EXCEPT ![w] = DefaultSource]
  /\ got' = [got EXCEPT ![w] = Failed]
  /\ UNCHANGED <<up, settings, staged, settingsFile, listFile, now>>
  /\ UNCHANGED <<updating, refreshPending, stopping, ctx, todo, due>>

(* Mutant: updating is reset only when no note was left. *)
Finish_KeepsUpdating(w) ==
  /\ pc[w] = "next" /\ todo[w] = {} /\ MutexFree
  /\ updating' = refreshPending
  /\ refreshPending' = FALSE
  /\ pc' = [pc EXCEPT ![w] = IF refreshPending THEN "enter" ELSE "idle"]
  /\ UNCHANGED <<vars, stopping, workVars, due>>

(* Mutant: the note is cleared and nobody is started. *)
Finish_DropsNote(w) ==
  /\ pc[w] = "next" /\ todo[w] = {} /\ MutexFree
  /\ updating' = FALSE
  /\ refreshPending' = FALSE
  /\ pc' = [pc EXCEPT ![w] = "idle"]
  /\ UNCHANGED <<vars, stopping, workVars, due>>

(* The deferred function: a note left meanwhile starts a new goroutine with  *)
(* the same context, unless that is cancelled.                               *)
Finish(w) ==
  /\ pc[w] = "next" /\ todo[w] = {} /\ MutexFree
  /\ updating' = FALSE
  /\ refreshPending' = FALSE
  /\ pc' = [pc EXCEPT ![w] =
       IF refreshPending /\ ~(ctx[w] = "run" /\ stopping) THEN "enter" ELSE "idle"]
  /\ UNCHANGED <<vars, stopping, workVars, due>>

Step(w) ==
  \/ Enter(w) \/ Snapshot(w) \/ WriteList(w) \/ PublishList(w) \/ Finish(w)
  \/ \E id \in Catalog, c \in Content \cup {Failed} : Fetch(w, id, c)

RefreshNext ==
  \/ BootAll \/ CrashAll \/ Stop \/ PublishConfig
  \/ (QuietRoute \/ Tick \/ ResetPassword) /\ UNCHANGED refreshVars
  \/ \E w \in Worker :
       AskingRoute(w) \/ RefreshRequest(w) \/ ScheduledRefresh(w) \/ Step(w)

(* A goroutine runs on: change() returns, a download ends within the 45      *)
(* seconds of listClient, and a Go mutex is handed to a goroutine that keeps *)
(* waiting for it even if others take it again and again.                    *)
Fairness == WF_allVars(PublishConfig) /\ \A w \in Worker : SF_allVars(Step(w))

RefreshSpec == RefreshInit /\ [][RefreshNext]_allVars
FairRefreshSpec == RefreshSpec /\ Fairness

-----------------------------------------------------------------------------
RefreshTypeOK ==
  /\ TypeOK
  /\ updating \in BOOLEAN /\ refreshPending \in BOOLEAN /\ stopping \in BOOLEAN
  /\ pc \in [Worker -> PC]
  /\ ctx \in [Worker -> {"run", "request"}]
  /\ todo \in [Worker -> SUBSET Catalog]
  /\ cur \in [Worker -> Catalog]
  /\ got \in [Worker -> Content \cup {Failed}]
  /\ due \subseteq Catalog

(* updating is a lock without a mutex: it is set exactly while one goroutine *)
(* is past the entry of refreshLists, so no two handle the same list, and it *)
(* never outlives that goroutine.                                            *)
OneRefresher ==
  /\ updating <=> \E w \in Worker : pc[w] \in Running
  /\ \A v, w \in Worker : pc[v] \in Running /\ pc[w] \in Running => v = w

(* The list in force is the cached one, except between the two steps of the  *)
(* refresh that replaces it, so the file never runs ahead of memory twice.   *)
ActiveListIsCached ==
  up => \A id \in Catalog :
    \/ lists[id] = Cached(listFile[id])
    \/ \E w \in Worker : /\ pc[w] = "publish" /\ cur[w] = id
                         /\ got[w] # Failed /\ got[w] = listFile[id]

(* A restart changes no answer: whenever no change and no list is between    *)
(* its file and its publication, a process started from the files would      *)
(* decide every name as the running one does.                                *)
RestartKeepsPolicy ==
  /\ up /\ MutexFree
  /\ \A w \in Worker : pc[w] # "publish"
  => /\ blocked = BlockedNames(settingsFile.sources,
                               [id \in Catalog |-> Cached(listFile[id])], settingsFile.rules)
     /\ allowed = AllowedNames(settingsFile.rules)

(* "If an update fails, QuietDNS keeps the last working copy." (app.js): a   *)
(* list once usable stays usable, in its file for ever and in memory while   *)
(* the process runs, whatever the provider serves.                           *)
KeepsWorkingCopy ==
  [][\A id \in Catalog :
       /\ Usable(listFile[id]) => Usable(listFile'[id])
       /\ up /\ up' /\ Cardinality(lists[id]) >= MinDomains
            => Cardinality(lists'[id]) >= MinDomains]_allVars

(* "successfully validated lists replace their cached file before becoming   *)
(* active" (ARCHITECTURE.md): every list is a DurableCell.                   *)
ListCell(id) == INSTANCE DurableCell WITH
  durable <- Cached(listFile[id]),
  live    <- lists[id]

ListsAreDurable ==
  /\ \A id \in Catalog : ListCell(id)!Init
  /\ [][\A id \in Catalog : ListCell(id)!Next \/ UNCHANGED ListCell(id)!vars]_allVars

(* The safety half of RefreshServed: while the process is not stopping, an   *)
(* enabled list that someone asked for is ahead of the running update, or a  *)
(* note or a goroutine is there that will read the enabled lists again,      *)
(* whatever is enabled and disabled meanwhile (the deferred function).       *)
RefreshOwed ==
  up /\ ~stopping =>
    \A id \in due \cap settings.sources : \E w \in Worker :
      \/ pc[w] \in {"enter", "snapshot"}
      \/ pc[w] \in Running /\ (refreshPending \/ id \in todo[w])

(* A refresh that is asked for while another runs is not lost: every list    *)
(* that was enabled at the request is downloaded by an attempt that begins   *)
(* after it, unless it is disabled or the process stops first                *)
(* (refreshPending).                                                         *)
RefreshServed ==
  \A id \in Catalog :
    id \in due ~> id \notin due \/ id \notin settings.sources \/ stopping \/ ~up

(* An update takes every list it has read once: each step has one list less  *)
(* ahead, or the one in hand nearer its publication, whatever is requested,  *)
(* enabled or disabled meanwhile (the loop of refreshLists).                 *)
Ahead == [write |-> 2, publish |-> 1, next |-> 0]

UpdateAdvances ==
  [][\A w \in Worker :
       /\ pc[w] \in Running /\ pc'[w] \in Running
       /\ <<pc[w], todo[w], cur[w], got[w]>>' # <<pc[w], todo[w], cur[w], got[w]>>
       => \/ pc[w] = "snapshot" /\ pc'[w] = "next"
          \/ todo'[w] \subseteq todo[w] /\ todo'[w] # todo[w]
          \/ todo'[w] = todo[w] /\ Ahead[pc'[w]] < Ahead[pc[w]]]_allVars

(* An update ends. *)
UpdateEnds == updating ~> ~updating
=============================================================================
