-------------------------------- MODULE Store --------------------------------
(***************************************************************************)
(* The configuration of QuietDNS and the policy derived from it: the       *)
(* mutex-protected part of store.go with the mutating routes of api.go     *)
(* that go through change(), a process that may die at any moment and the  *)
(* reset-password command run while it is stopped.                         *)
(*                                                                         *)
(* change() holds the mutex from the copy of the settings to their         *)
(* publication, with the write of settings.json between, so it is two      *)
(* steps: Persist ends with the rename, Publish assigns, rebuilds and      *)
(* unlocks. Whoever needs the mutex waits for MutexFree.                   *)
(***************************************************************************)
EXTENDS DomainPolicy, FiniteSets

CONSTANTS
  Catalog,       \* the known block lists
  DefaultSource, \* the list enabled before the first setup
  UnknownSource, \* a list id that is not in the catalog
  Admin,         \* administrators, by the password they choose
  NoAdmin,       \* no password is set
  Name,          \* network names, as a request may carry them
  ValidName,     \* those of 1 to 60 characters
  DefaultName,
  Upstreams,     \* lists of upstream servers, as a request may carry them
  ValidUpstreams,    \* those validateSettings accepts
  DefaultUpstreams,
  RawName,       \* the domains a rule request may carry, as typed
  Content,       \* what a cached list file may hold
  Absent,        \* the content of a list file that does not exist
  MaxRules,      \* 10000 in the code
  PauseTimes,    \* 5 and 30 minutes in the code
  MaxTime        \* bound: the clock of a run

ASSUME StoreAssumption ==
  /\ DefaultSource \in Catalog /\ UnknownSource \notin Catalog
  /\ NoAdmin \notin Admin
  /\ DefaultName \in ValidName /\ ValidName \subseteq Name
  /\ DefaultUpstreams \in ValidUpstreams /\ ValidUpstreams \subseteq Upstreams
  /\ Content \subseteq SUBSET (Seq(Seq(Label)) \cup {LongLine}) /\ Absent \notin Content
  /\ RawName \subseteq Seq(Label) /\ ReservedName \in Seq(Label)
  /\ MaxRules \in Nat /\ MaxTime \in Nat \ {0} /\ PauseTimes \subseteq Nat \ {0}

VARIABLES
  up,           \* the process runs
  settings,     \* s.settings
  staged,       \* the settings written and not yet published, if any
  settingsFile, \* settings.json, the defaults while it does not exist
  lists,        \* s.lists
  listFile,     \* listFile[id]: the cached list
  blocked,      \* s.blocked
  allowed,      \* s.allowed
  now           \* the clock, 1 at first: the zero time.Time is past

configVars == <<settings, staged, settingsFile, blocked, allowed>>
vars == <<up, settings, staged, settingsFile, lists, listFile, blocked, allowed, now>>

Kind == {"allow", "block"}
Settings == [name : Name, upstreams : Upstreams, sources : SUBSET Catalog,
             rules : Seq([domain : Seq(Label), kind : Kind]),
             admin : Admin \cup {NoAdmin}, pausedUntil : Nat]

MutexFree == staged = << >>

newSettings ==
  [name |-> DefaultName, upstreams |-> DefaultUpstreams, sources |-> {DefaultSource},
   rules |-> << >>, admin |-> NoAdmin, pausedUntil |-> 0]

(* What newStore makes of a cached list: no list when it is missing or bad. *)
Cached(f) == IF f = Absent \/ parseList(f) = Invalid THEN {} ELSE parseList(f)

validateSettings(s) ==
  /\ s.name \in ValidName /\ s.upstreams \in ValidUpstreams
  /\ s.sources \subseteq Catalog
  /\ Len(s.rules) <= MaxRules
  /\ \A i \in DOMAIN s.rules : validDomain(s.rules[i].domain) /\ s.rules[i].kind \in Kind

(* rebuildLocked. *)
Rebuild(s, l) ==
  /\ blocked' = BlockedNames(s.sources, l, s.rules)
  /\ allowed' = AllowedNames(s.rules)

Paused(s) == now <= s.pausedUntil
policy(name) == Decision(blocked, allowed, Paused(settings), name)

-----------------------------------------------------------------------------
Init ==
  /\ up = FALSE
  /\ settings = newSettings /\ staged = << >> /\ settingsFile = newSettings
  /\ lists = [id \in Catalog |-> {}]
  /\ listFile \in [Catalog -> Content \cup {Absent}]
  /\ blocked = {} /\ allowed = {}
  /\ now = 1

(* Mutant: the maps are built before the lists are read. *)
Boot_EarlyRebuild ==
  /\ ~up /\ validateSettings(settingsFile)
  /\ up' = TRUE
  /\ settings' = settingsFile
  /\ lists' = [id \in Catalog |-> Cached(listFile[id])]
  /\ Rebuild(settings', lists)
  /\ UNCHANGED <<staged, settingsFile, listFile, now>>

(* newStore. *)
Boot ==
  /\ ~up /\ validateSettings(settingsFile)
  /\ up' = TRUE
  /\ settings' = settingsFile
  /\ lists' = [id \in Catalog |-> Cached(listFile[id])]
  /\ Rebuild(settings', lists')
  /\ UNCHANGED <<staged, settingsFile, listFile, now>>

(* The process dies, or ends: what it had in memory is gone. *)
Crash ==
  /\ up
  /\ up' = FALSE
  /\ settings' = newSettings /\ staged' = << >>
  /\ lists' = [id \in Catalog |-> {}]
  /\ blocked' = {} /\ allowed' = {}
  /\ UNCHANGED <<settingsFile, listFile, now>>

Tick == now < MaxTime /\ now' = now + 1 /\ UNCHANGED <<up, lists, listFile, configVars>>

(* Mutant: change assigns before it writes. *)
Persist_AssignFirst(next) ==
  /\ up /\ MutexFree
  /\ validateSettings(next)
  /\ settings' = next
  /\ staged' = <<next>>
  /\ UNCHANGED <<up, settingsFile, lists, listFile, blocked, allowed, now>>

(* change up to the rename; a next that does not validate, or a write that   *)
(* fails, leaves everything as it was.                                       *)
Persist(next) ==
  /\ up /\ MutexFree
  /\ validateSettings(next)
  /\ staged' = <<next>>
  /\ settingsFile' = next
  /\ UNCHANGED <<up, settings, lists, listFile, blocked, allowed, now>>

(* Mutant: the maps are rebuilt before the assignment. *)
Publish_RebuildFirst ==
  /\ ~MutexFree
  /\ settings' = staged[1]
  /\ staged' = << >>
  /\ Rebuild(settings, lists)
  /\ UNCHANGED <<up, settingsFile, lists, listFile, now>>

(* The rest of change. *)
Publish ==
  /\ ~MutexFree
  /\ settings' = staged[1]
  /\ staged' = << >>
  /\ Rebuild(staged[1], lists)
  /\ UNCHANGED <<up, settingsFile, lists, listFile, now>>

-----------------------------------------------------------------------------
(* Mutant: setup does not look for a password. *)
Setup_Again(name, admin, sources) ==
  Persist([settings EXCEPT !.name = name, !.admin = admin, !.sources = sources])

(* POST /api/setup, the only route that changes settings without a session;  *)
(* the check for an earlier setup runs inside change. The lists stand for a  *)
(* set: the order of the ids is the order of their refresh only.             *)
Setup(name, admin, sources) ==
  /\ settings.admin = NoAdmin
  /\ Persist([settings EXCEPT !.name = name, !.admin = admin, !.sources = sources])

(* The other routes have a session, so a password exists. Logging, the third *)
(* setting this route takes, is part of QueryHistory.                        *)
PutSettings(name, upstreams) ==
  /\ settings.admin # NoAdmin
  /\ Persist([settings EXCEPT !.name = name, !.upstreams = upstreams])

EnableSource(id) ==
  /\ settings.admin # NoAdmin /\ id \in Catalog
  /\ Persist([settings EXCEPT !.sources = @ \cup {id}])

DisableSource(id) ==
  /\ settings.admin # NoAdmin /\ id \in Catalog
  /\ Persist([settings EXCEPT !.sources = @ \ {id}])

(* Mutant: every rule is appended. *)
Replaced_Never(rules, rule) == Append(rules, rule)

(* The first rule for the domain is replaced; without one, rule is appended. *)
Replaced(rules, rule) ==
  LET same == {i \in DOMAIN rules : rules[i].domain = rule.domain}
  IN  IF same = {} THEN Append(rules, rule)
      ELSE [rules EXCEPT ![CHOOSE i \in same : \A j \in same : i <= j] = rule]

PostRule(raw, kind) ==
  /\ settings.admin # NoAdmin
  /\ Persist([settings EXCEPT !.rules =
       Replaced(@, [domain |-> canonical(raw), kind |-> kind])])

(* The rules of the other domains, in their order.                           *)
Without(rules, name) ==
  LET kept   == {i \in DOMAIN rules : rules[i].domain # name}
      nth(k) == CHOOSE i \in kept : Cardinality({j \in kept : j <= i}) = k
  IN  [k \in 1..Cardinality(kept) |-> rules[nth(k)]]

DeleteRule(raw) ==
  /\ settings.admin # NoAdmin
  /\ Persist([settings EXCEPT !.rules = Without(@, canonical(raw))])

(* minutes = 0 resumes. *)
Pause(minutes) ==
  /\ settings.admin # NoAdmin
  /\ Persist([settings EXCEPT !.pausedUntil = IF minutes = 0 THEN 0 ELSE now + minutes])

(* The reset-password command: a process of its own, while none serves. *)
ResetPassword ==
  /\ ~up
  /\ validateSettings(settingsFile)
  /\ settingsFile' = [settingsFile EXCEPT !.admin = NoAdmin]
  /\ UNCHANGED <<up, settings, staged, lists, listFile, blocked, allowed, now>>

(* The routes that start a refresh once change() has returned, and the rest. *)
RefreshingRoute ==
  \/ \E n \in Name, a \in Admin,
        src \in {{}} \cup {{id} : id \in Catalog \cup {UnknownSource}} : Setup(n, a, src)
  \/ \E id \in Catalog : EnableSource(id)

QuietRoute ==
  \/ \E n \in Name, u \in Upstreams : PutSettings(n, u)
  \/ \E id \in Catalog : DisableSource(id)
  \/ \E raw \in RawName : DeleteRule(raw) \/ \E k \in Kind : PostRule(raw, k)
  \/ \E m \in PauseTimes \cup {0} : Pause(m)

Route == RefreshingRoute \/ QuietRoute

Next == Boot \/ Crash \/ Tick \/ Route \/ Publish \/ ResetPassword

Spec == Init /\ [][Next]_vars

-----------------------------------------------------------------------------
TypeOK ==
  /\ up \in BOOLEAN
  /\ settings \in Settings /\ settingsFile \in Settings
  /\ staged \in Seq(Settings) /\ Len(staged) <= 1
  /\ lists \in [Catalog -> SUBSET Seq(Label)]
  /\ listFile \in [Catalog -> Content \cup {Absent}]
  /\ blocked \subseteq Seq(Label) /\ allowed \subseteq Seq(Label)
  /\ now \in 1..MaxTime

(* The policy maps are never stale: at every moment of a running process the *)
(* reader of policy() sees the rules and lists in force, through every       *)
(* change, restart and list update of ListRefresh (rebuildLocked).           *)
PolicyFollowsConfig ==
  up => /\ blocked = BlockedNames(settings.sources, lists, settings.rules)
        /\ allowed = AllowedNames(settings.rules)

(* However a request spells a domain, and however rules come and go over     *)
(* restarts, a domain has at most one rule, so posting a rule withdraws the  *)
(* opposite one and a deleted rule is gone (POST and DELETE /api/rules).     *)
OneRulePerDomain ==
  \A i, j \in DOMAIN settingsFile.rules :
    settingsFile.rules[i].domain = settingsFile.rules[j].domain => i = j

(* "Domain rule saved. It is active immediately." (app.js): once change()    *)
(* has returned, an allow rule opens its domain, and a block rule closes it  *)
(* unless protection is paused or an allow rule covers it.                   *)
SavedRuleIsActive ==
  up /\ MutexFree =>
    \A i \in DOMAIN settingsFile.rules :
      LET r == settingsFile.rules[i]
          opened == \E j \in DOMAIN settingsFile.rules :
                      /\ settingsFile.rules[j].kind = "allow"
                      /\ matches({settingsFile.rules[j].domain}, r.domain)
      IN  IF r.kind = "allow" THEN policy(r.domain) = [blocked |-> FALSE, allowed |-> TRUE]
          ELSE policy(r.domain).blocked <=> ~opened /\ now > settingsFile.pausedUntil

(* Two setups race for the password and exactly one wins: while the process  *)
(* serves, a password that was set is never replaced by another setup, in    *)
(* memory or on disk (the check inside change in POST /api/setup).           *)
FirstSetupWins ==
  [][up /\ settingsFile.admin # NoAdmin => settingsFile'.admin = settingsFile.admin]_vars

(* "Configuration mutations validate and persist the next configuration      *)
(* before publishing it in memory" (ARCHITECTURE.md): the settings are a     *)
(* DurableCell.                                                              *)
ConfigCell == INSTANCE DurableCell WITH
  durable <- settingsFile,
  live    <- settings

ConfigIsDurable == ConfigCell!Spec
=============================================================================
