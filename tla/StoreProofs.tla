------------------------------ MODULE StoreProofs ------------------------------
(***************************************************************************)
(* The settings are always on disk before they are in force, and the       *)
(* policy maps always follow the settings in force, for every catalog,     *)
(* rule set and schedule of crashes.                                       *)
(*                                                                         *)
(* Beside them one goroutine at a time is past the entry of refreshLists,  *)
(* which is why the write of a list and its publication need no common     *)
(* mutex section: every list is a DurableCell and a restart changes no     *)
(* answer, for any catalog, any number of goroutines and any content the   *)
(* providers serve.                                                        *)
(***************************************************************************)
EXTENDS ListRefresh, FiniteSetTheorems, WellFoundedInduction, TLAPS

-----------------------------------------------------------------------------
(* Between a write and its publication the file is ahead of memory by the    *)
(* staged settings; at any other moment of a running process they agree.     *)
FileLeads ==
  /\ up \in BOOLEAN
  /\ up /\ MutexFree => settings = settingsFile
  /\ ~MutexFree => up /\ staged = <<settingsFile>>

Fields ==
  /\ DOMAIN settings = DOMAIN newSettings
  /\ DOMAIN settingsFile = DOMAIN newSettings

ConfigInv == FileLeads /\ Fields /\ PolicyFollowsConfig

(* What a route of the API does, whichever it is: it writes some settings    *)
(* with the known fields and leaves the password of a set-up server alone.   *)
Written(next) ==
  /\ Persist(next)
  /\ DOMAIN next = DOMAIN newSettings
  /\ settings.admin # NoAdmin => next.admin = settings.admin

LEMMA RouteWrites ==
  ASSUME Fields, Route
  PROVE  \E next : Written(next)
<1> USE DEF Fields, newSettings, Written
<1>1. ASSUME NEW n, NEW a, NEW src, Setup(n, a, src) PROVE \E next : Written(next)
  BY <1>1 DEF Setup
<1>2. ASSUME NEW n, NEW u, PutSettings(n, u) PROVE \E next : Written(next)
  <2>1. Written([settings EXCEPT !.name = n, !.upstreams = u])
    BY <1>2 DEF PutSettings
  <2> QED
    BY <2>1
<1>3. ASSUME NEW id, EnableSource(id) \/ DisableSource(id) PROVE \E next : Written(next)
  BY <1>3 DEF EnableSource, DisableSource
<1>4. ASSUME NEW raw, NEW k, DeleteRule(raw) \/ PostRule(raw, k)
      PROVE  \E next : Written(next)
  BY <1>4 DEF DeleteRule, PostRule
<1>5. ASSUME NEW m, Pause(m) PROVE \E next : Written(next)
  BY <1>5 DEF Pause
<1> QED
  BY <1>1, <1>2, <1>3, <1>4, <1>5 DEF Route, RefreshingRoute, QuietRoute, Kind

(* The invariant holds at the start. *)
LEMMA InitConfig == Init => ConfigInv
BY DEF Init, ConfigInv, FileLeads, Fields, MutexFree, PolicyFollowsConfig, newSettings

(* Every step keeps it. *)
LEMMA StepConfig == ConfigInv /\ [Next]_vars => ConfigInv'
<1> SUFFICES ASSUME ConfigInv, [Next]_vars PROVE ConfigInv'
  OBVIOUS
<1> USE DEF ConfigInv, FileLeads, Fields, MutexFree, PolicyFollowsConfig
<1>1. CASE Boot
  BY <1>1 DEF Boot, Rebuild
<1>2. CASE Crash
  BY <1>2 DEF Crash, newSettings
<1>3. CASE Tick
  BY <1>3 DEF Tick, configVars
<1>4. CASE Route
  <2>1. PICK next : Written(next)
    BY <1>4, RouteWrites
  <2> QED
    BY <2>1 DEF Written, Persist
<1>5. CASE Publish
  BY <1>5 DEF Publish, Rebuild
<1>6. CASE ResetPassword
  BY <1>6 DEF ResetPassword
<1>7. CASE UNCHANGED vars
  BY <1>7 DEF vars
<1> QED
  BY <1>1, <1>2, <1>3, <1>4, <1>5, <1>6, <1>7 DEF Next

(* ConfigInv in every reachable state. *)
LEMMA AlwaysConfig == Spec => []ConfigInv
BY InitConfig, StepConfig, PTL DEF Spec

(* The settings implement a DurableCell: in force only what the disk holds,  *)
(* and after a crash at any point the process comes up with that.            *)
THEOREM SettingsAreDurable == Spec => ConfigIsDurable
<1>1. Init => ConfigCell!Init
  BY DEF Init, ConfigCell!Init
<1>2. ConfigInv /\ [Next]_vars => [ConfigCell!Next]_(ConfigCell!vars)
  <2> SUFFICES ASSUME ConfigInv, [Next]_vars
               PROVE  [ConfigCell!Next]_(ConfigCell!vars)
    OBVIOUS
  <2> USE DEF ConfigInv, FileLeads, MutexFree, ConfigCell!Next, ConfigCell!vars
  <2>1. CASE Boot
    BY <2>1 DEF Boot, ConfigCell!Start
  <2>2. CASE Crash
    BY <2>2 DEF Crash, ConfigCell!Stop
  <2>3. CASE Tick
    BY <2>3 DEF Tick, configVars
  <2>4. CASE Route
    <3>1. PICK next : Written(next)
      BY <2>4, RouteWrites
    <3> QED
      BY <3>1 DEF Written, Persist, ConfigCell!Commit
  <2>5. CASE Publish
    BY <2>5 DEF Publish, ConfigCell!Publish
  <2>6. CASE ResetPassword
    BY <2>6 DEF ResetPassword, ConfigCell!Commit
  <2>7. CASE UNCHANGED vars
    BY <2>7 DEF vars
  <2> QED
    BY <2>1, <2>2, <2>3, <2>4, <2>5, <2>6, <2>7 DEF Next
<1> QED
  BY <1>1, <1>2, AlwaysConfig, PTL DEF Spec, ConfigIsDurable, ConfigCell!Spec

(* No race of setups, and no crash between them, lets a second password      *)
(* replace the first while the process serves.                               *)
THEOREM OneSetupWins == Spec => FirstSetupWins
<1>1. ConfigInv /\ [Next]_vars =>
        [up /\ settingsFile.admin # NoAdmin => settingsFile'.admin = settingsFile.admin]_vars
  <2> SUFFICES ASSUME ConfigInv, [Next]_vars, up, settingsFile.admin # NoAdmin
               PROVE  settingsFile'.admin = settingsFile.admin
    OBVIOUS
  <2> USE DEF ConfigInv, FileLeads, MutexFree
  <2>1. CASE Route
    <3>1. PICK next : Written(next)
      BY <2>1, RouteWrites
    <3> QED
      BY <3>1 DEF Written, Persist
  <2>2. CASE UNCHANGED settingsFile
    BY <2>2
  <2> QED
    BY <2>1, <2>2 DEF Next, Boot, Crash, Tick, Publish, ResetPassword, configVars, vars
<1> QED
  BY <1>1, AlwaysConfig, PTL DEF Spec, FirstSetupWins

-----------------------------------------------------------------------------
(* The shape of the rules over any sequence of changes.                      *)

(* Ordinary names stay names when they are normalised.                       *)
LEMMA CanonicalType ==
  ASSUME NEW n \in Seq(Label)
  PROVE  canonical(n) \in Seq(Label)
<1>1. [i \in 1..Len(n) |-> lower[n[i]]] \in Seq(Label)
  BY LabelAssumption
<1> QED
  BY <1>1 DEF canonical

(* Every non-empty set of natural numbers has a least element.               *)
LEMMA Least ==
  ASSUME NEW T, T \subseteq Nat, T # {}
  PROVE  \E x \in T : \A y \in T : x <= y
<1>1. PICK x \in T : \A y \in T : <<y, x>> \notin OpToRel(<, Nat)
  BY WFMin, NatLessThanWellFounded
<1>2. ASSUME NEW y \in T PROVE x <= y
  <2>1. <<y, x>> \notin {p \in Nat \X Nat : p[1] < p[2]}
    BY <1>1 DEF OpToRel
  <2> QED
    BY <2>1
<1> QED
  BY <1>2

(* The elements of a set of positions are numbered without a gap.            *)
LEMMA Numbered ==
  ASSUME NEW n \in Nat, NEW kept, kept \subseteq 1..n
  PROVE  /\ Cardinality(kept) \in Nat
         /\ \A k \in 1..Cardinality(kept) :
              \E i \in kept : Cardinality({j \in kept : j <= i}) = k
<1> DEFINE upTo(p) == {j \in kept : j <= p}
<1>0. \A j \in kept : j \in Nat /\ 1 <= j /\ j <= n
  OBVIOUS
<1>1. IsFiniteSet(kept) /\ Cardinality(kept) \in Nat
  <2>1. IsFiniteSet(1..n)
    BY FS_Interval
  <2> QED
    BY <2>1, FS_Subset, FS_CardinalityType
<1>2. \A p \in Nat : IsFiniteSet(upTo(p)) /\ Cardinality(upTo(p)) \in Nat
  BY <1>1, FS_Subset, FS_CardinalityType
<1>3. upTo(n) = kept /\ Cardinality(upTo(0)) = 0
  <2>1. upTo(n) = kept
    BY <1>0
  <2>2. ASSUME NEW j \in upTo(0) PROVE FALSE
    <3>1. j \in kept /\ j <= 0
      OBVIOUS
    <3> HIDE DEF upTo
    <3> QED
      BY <3>1, <1>0
  <2>3. upTo(0) = {}
    <3> HIDE DEF upTo
    <3> QED
      BY <2>2
  <2> QED
    BY <2>1, <2>3, FS_EmptySet
<1>4. ASSUME NEW p \in Nat \ {0}
      PROVE  Cardinality(upTo(p)) = Cardinality(upTo(p - 1)) + (IF p \in kept THEN 1 ELSE 0)
  <2>1. p - 1 \in Nat /\ p \notin upTo(p - 1)
    OBVIOUS
  <2>0. \A j \in kept : j <= p <=> j <= p - 1 \/ j = p
    BY <1>0
  <2>2. CASE p \in kept
    <3>1. upTo(p) = upTo(p - 1) \cup {p}
      BY <2>0, <2>2, Zenon
    <3> HIDE DEF upTo
    <3> QED
      BY <3>1, <2>1, <2>2, <1>2, FS_AddElement
  <2>3. CASE p \notin kept
    <3>1. upTo(p) = upTo(p - 1)
      BY <2>0, <2>3, Zenon
    <3> HIDE DEF upTo
    <3> QED
      BY <3>1, <2>1, <2>3, <1>2
  <2> QED
    BY <2>2, <2>3
<1>5. ASSUME NEW k \in 1..Cardinality(kept)
      PROVE  \E i \in kept : Cardinality(upTo(i)) = k
  <2> HIDE DEF upTo
  <2> DEFINE T == {p \in Nat : Cardinality(upTo(p)) >= k}
  <2>1. n \in T
    BY <1>1, <1>3
  <2>2. PICK least \in T : \A q \in T : least <= q
    <3>1. T \subseteq Nat
      OBVIOUS
    <3> HIDE DEF T
    <3> QED
      BY <2>1, <3>1, Least
  <2>3. least \in Nat \ {0} /\ Cardinality(upTo(least)) >= k
    BY <1>3
  <2>4. least - 1 \in Nat /\ least - 1 \notin T
    BY <2>2, <2>3
  <2>5. Cardinality(upTo(least - 1)) < k
    BY <2>4, <1>1, <1>2
  <2> HIDE DEF T
  <2>6. least \in kept /\ Cardinality(upTo(least)) = k
    BY <2>3, <2>4, <2>5, <1>1, <1>2, <1>4
  <2> QED
    BY <2>6
<1> QED
  BY <1>1, <1>5

Rule == [domain : Seq(Label), kind : Kind]

Distinct(rules) ==
  \A i, j \in DOMAIN rules : rules[i].domain = rules[j].domain => i = j

(* A rule that replaces the one of its domain, or is the first for it,       *)
(* leaves one rule for each domain.                                          *)
LEMMA ReplacedDistinct ==
  ASSUME NEW rules \in Seq(Rule), NEW rule \in Rule, Distinct(rules)
  PROVE  Replaced(rules, rule) \in Seq(Rule) /\ Distinct(Replaced(rules, rule))
<1> DEFINE same == {i \in DOMAIN rules : rules[i].domain = rule.domain}
<1>1. CASE same = {}
  <2>1. Replaced(rules, rule) = Append(rules, rule)
    BY <1>1 DEF Replaced
  <2>2. \A i \in DOMAIN rules : rules[i].domain # rule.domain
    BY <1>1
  <2> QED
    BY <2>1, <2>2 DEF Distinct
<1>2. CASE same # {}
  <2>1. PICK i \in DOMAIN rules : rules[i].domain = rule.domain
    BY <1>2
  <2>2. same = {i}
    BY <2>1 DEF Distinct
  <2>3. i \in Nat
    BY <2>1
  <2>4. (CHOOSE c \in same : \A j \in same : c <= j) = i
    BY <2>2, <2>3
  <2>5. Replaced(rules, rule) = [rules EXCEPT ![i] = rule]
    BY <1>2, <2>4 DEF Replaced
  <2> QED
    BY <2>5, <2>1 DEF Distinct
<1> QED
  BY <1>1, <1>2

(* Taking rules away leaves some of the old ones, each once.                 *)
LEMMA WithoutDistinct ==
  ASSUME NEW rules \in Seq(Rule), NEW name, Distinct(rules)
  PROVE  Without(rules, name) \in Seq(Rule) /\ Distinct(Without(rules, name))
<1> DEFINE kept     == {i \in DOMAIN rules : rules[i].domain # name}
           place(i) == Cardinality({j \in kept : j <= i})
           nth(k)   == CHOOSE i \in kept : place(i) = k
<1>1. kept \subseteq 1..Len(rules) /\ Len(rules) \in Nat
  OBVIOUS
<1>2. /\ Cardinality(kept) \in Nat
      /\ \A k \in 1..Cardinality(kept) : \E i \in kept : place(i) = k
  BY <1>1, Numbered
<1>3. Without(rules, name) = [k \in 1..Cardinality(kept) |-> rules[nth(k)]]
  BY DEF Without
<1>0. \A i \in kept : i \in DOMAIN rules /\ rules[i] \in Rule
  OBVIOUS
<1> HIDE DEF place, kept
<1>4. \A k \in 1..Cardinality(kept) : nth(k) \in kept /\ place(nth(k)) = k
  BY <1>2
<1> HIDE DEF nth
<1>5. \A k \in 1..Cardinality(kept) : nth(k) \in DOMAIN rules /\ rules[nth(k)] \in Rule
  BY <1>4, <1>0
<1>6. Without(rules, name) \in Seq(Rule)
  BY <1>2, <1>3, <1>5
<1>7. Distinct(Without(rules, name))
  <2> SUFFICES ASSUME NEW k \in 1..Cardinality(kept), NEW l \in 1..Cardinality(kept),
                      rules[nth(k)].domain = rules[nth(l)].domain
               PROVE  k = l
    BY <1>3 DEF Distinct
  <2>1. nth(k) = nth(l)
    BY <1>5 DEF Distinct
  <2> QED
    BY <2>1, <1>4
<1> QED
  BY <1>6, <1>7

-----------------------------------------------------------------------------
(* The invariant behind the rules: what is on disk always validates, holds   *)
(* one rule for each domain, and everything has its type.                    *)
RulesInv == TypeOK /\ ConfigInv /\ validateSettings(settingsFile) /\ OneRulePerDomain

(* A route writes settings of the right type with one rule for each domain.  *)
LEMMA RouteKeepsRules ==
  ASSUME RulesInv, Route
  PROVE  \E next \in Settings : Persist(next) /\ Distinct(next.rules)
<1> DEFINE Goal == \E next \in Settings : Persist(next) /\ Distinct(next.rules)
<1>1. settings \in Settings /\ settings.rules \in Seq(Rule) /\ now \in Nat
  BY DEF RulesInv, TypeOK, Settings, Rule
<1>2. ASSUME NEW next, Persist(next) PROVE Distinct(settings.rules) /\ validateSettings(next)
  BY <1>2 DEF Persist, RulesInv, ConfigInv, FileLeads, OneRulePerDomain, Distinct
<1>3. ASSUME NEW n \in Name, NEW a \in Admin, NEW src, Setup(n, a, src) PROVE Goal
  <2> DEFINE next == [settings EXCEPT !.name = n, !.admin = a, !.sources = src]
  <2>1. Persist(next)
    BY <1>3 DEF Setup
  <2>2. next.sources \subseteq Catalog
    BY <2>1, <1>2 DEF validateSettings
  <2>3. next \in Settings /\ next.rules = settings.rules
    BY <2>2, <1>1 DEF Settings
  <2> QED
    BY <2>1, <2>3, <1>2
<1>4. ASSUME NEW n \in Name, NEW u \in Upstreams, PutSettings(n, u) PROVE Goal
  <2> DEFINE next == [settings EXCEPT !.name = n, !.upstreams = u]
  <2>1. Persist(next)
    BY <1>4 DEF PutSettings
  <2>2. next \in Settings /\ next.rules = settings.rules
    BY <1>1 DEF Settings
  <2> QED
    BY <2>1, <2>2, <1>2
<1>5. ASSUME NEW id, EnableSource(id) PROVE Goal
  <2> DEFINE next == [settings EXCEPT !.sources = @ \cup {id}]
  <2>1. Persist(next) /\ id \in Catalog
    BY <1>5 DEF EnableSource
  <2>2. next \in Settings /\ next.rules = settings.rules
    BY <2>1, <1>1 DEF Settings
  <2> QED
    BY <2>1, <2>2, <1>2
<1>6. ASSUME NEW id, DisableSource(id) PROVE Goal
  <2> DEFINE next == [settings EXCEPT !.sources = @ \ {id}]
  <2>1. Persist(next)
    BY <1>6 DEF DisableSource
  <2>2. next \in Settings /\ next.rules = settings.rules
    BY <1>1 DEF Settings
  <2> QED
    BY <2>1, <2>2, <1>2
<1>7. ASSUME NEW raw \in RawName, NEW k \in Kind, PostRule(raw, k) PROVE Goal
  <2> DEFINE rule == [domain |-> canonical(raw), kind |-> k]
             new  == Replaced(settings.rules, rule)
             next == [settings EXCEPT !.rules = new]
  <2>1. Persist(next)
    BY <1>7 DEF PostRule
  <2>2. rule \in Rule
    BY CanonicalType, StoreAssumption DEF Rule
  <2>3. new \in Seq(Rule) /\ Distinct(new)
    BY <1>1, <1>2, <2>1, <2>2, ReplacedDistinct
  <2> HIDE DEF new
  <2>4. next \in Settings /\ next.rules = new
    BY <2>3, <1>1 DEF Settings, Rule
  <2> QED
    BY <2>1, <2>3, <2>4
<1>8. ASSUME NEW raw \in RawName, DeleteRule(raw) PROVE Goal
  <2> DEFINE new  == Without(settings.rules, canonical(raw))
             next == [settings EXCEPT !.rules = new]
  <2>1. Persist(next)
    BY <1>8 DEF DeleteRule
  <2>2. new \in Seq(Rule) /\ Distinct(new)
    BY <1>1, <1>2, <2>1, WithoutDistinct
  <2> HIDE DEF new
  <2>3. next \in Settings /\ next.rules = new
    BY <2>2, <1>1 DEF Settings, Rule
  <2> QED
    BY <2>1, <2>2, <2>3
<1>9. ASSUME NEW m \in PauseTimes \cup {0}, Pause(m) PROVE Goal
  <2> DEFINE until == IF m = 0 THEN 0 ELSE now + m
             next  == [settings EXCEPT !.pausedUntil = until]
  <2>1. Persist(next)
    BY <1>9 DEF Pause
  <2>2. until \in Nat
    BY <1>1, StoreAssumption
  <2> HIDE DEF until
  <2>3. next \in Settings /\ next.rules = settings.rules
    BY <2>2, <1>1 DEF Settings
  <2> QED
    BY <2>1, <2>3, <1>2
<1> QED
  BY <1>3, <1>4, <1>5, <1>6, <1>7, <1>8, <1>9 DEF Route, RefreshingRoute, QuietRoute

(* A cached list is read as a set of names.                                  *)
LEMMA CachedType ==
  ASSUME NEW f \in Content \cup {Absent}
  PROVE  Cached(f) \subseteq Seq(Label)
<1>1. CASE f = Absent \/ parseList(f) = Invalid
  BY <1>1 DEF Cached
<1>2. CASE f # Absent /\ parseList(f) # Invalid
  <2> DEFINE fields(line) == IF Len(line) > 0 /\ line[1] \in IPAddress
                             THEN Tail(line) ELSE line
             names == UNION {{canonical(fields(l)[i]) : i \in 1..Len(fields(l))} : l \in f}
             kept  == {n \in names : Len(n) >= 2 /\ n \notin LocalName}
  <2>1. \A l \in f : l \in Seq(Seq(Label))
    BY <1>2, StoreAssumption DEF parseList
  <2>2. ASSUME NEW l \in f PROVE fields(l) \in Seq(Seq(Label))
    BY <2>1
  <2> HIDE DEF fields
  <2>3. ASSUME NEW l \in f, NEW i \in 1..Len(fields(l)) PROVE canonical(fields(l)[i]) \in Seq(Label)
    <3>1. fields(l)[i] \in Seq(Label)
      BY <2>2
    <3> QED
      BY <3>1, CanonicalType
  <2>4. names \subseteq Seq(Label)
    BY <2>3
  <2>5. parseList(f) = IF LongLine \notin f /\ \A n \in kept : validDomain(n) THEN kept ELSE Invalid
    BY DEF parseList, fields
  <2> HIDE DEF names
  <2>6. Cached(f) = kept
    BY <1>2, <2>5 DEF Cached
  <2> QED
    BY <2>4, <2>6
<1> QED
  BY <1>1, <1>2

(* The policy maps hold names.                                               *)
LEMMA MapsType ==
  ASSUME NEW s \in Settings, NEW l \in [Catalog -> SUBSET Seq(Label)]
  PROVE  /\ BlockedNames(s.sources, l, s.rules) \subseteq Seq(Label)
         /\ AllowedNames(s.rules) \subseteq Seq(Label)
<1>1. s.sources \subseteq Catalog /\ s.rules \in Seq(Rule)
  BY DEF Settings, Rule
<1>2. \A i \in DOMAIN s.rules : s.rules[i].domain \in Seq(Label)
  <2>1. \A i \in DOMAIN s.rules : s.rules[i] \in Rule
    BY <1>1
  <2> QED
    BY <2>1 DEF Rule
<1>3. \A id \in s.sources : l[id] \subseteq Seq(Label)
  BY <1>1
<1>4. UNION {l[id] : id \in s.sources} \subseteq Seq(Label)
  BY <1>3, Zenon
<1>5. \A kinds : RuleDomains(s.rules, kinds) \subseteq Seq(Label)
  BY <1>2, Zenon DEF RuleDomains
<1>6. ReservedName \in Seq(Label)
  BY StoreAssumption
<1> DEFINE listed == UNION {l[id] : id \in s.sources}
           ruled  == RuleDomains(s.rules, {"block"})
<1>7. BlockedNames(s.sources, l, s.rules) = {ReservedName} \cup listed \cup ruled
  BY Zenon DEF BlockedNames
<1>8. AllowedNames(s.rules) \subseteq Seq(Label) /\ ruled \subseteq Seq(Label)
  BY <1>5, Zenon DEF AllowedNames
<1> HIDE DEF listed, ruled
<1>9. listed \subseteq Seq(Label)
  BY <1>4 DEF listed
<1> QED
  BY <1>6, <1>7, <1>8, <1>9, Zenon

(* The invariant of the rules at the start.                                  *)
LEMMA InitRules == Init => RulesInv
<1> SUFFICES ASSUME Init PROVE RulesInv
  OBVIOUS
<1>1. newSettings \in Settings /\ newSettings.rules = << >>
  BY StoreAssumption DEF newSettings, Settings
<1>2. validateSettings(newSettings)
  BY StoreAssumption DEF newSettings, validateSettings
<1>3. TypeOK
  <2>1. up \in BOOLEAN
    BY Zenon DEF Init
  <2>2. staged \in Seq(Settings) /\ Len(staged) <= 1 /\ now \in 1..MaxTime
    BY StoreAssumption DEF Init
  <2>3. lists \in [Catalog -> SUBSET Seq(Label)]
    BY DEF Init
  <2> QED
    BY <1>1, <2>1, <2>2, <2>3 DEF Init, TypeOK
<1>4. OneRulePerDomain
  BY <1>1 DEF Init, OneRulePerDomain
<1> QED
  BY <1>2, <1>3, <1>4, InitConfig DEF Init, RulesInv

(* Every step keeps it.                                                      *)
LEMMA StepRules == RulesInv /\ [Next]_vars => RulesInv'
<1> SUFFICES ASSUME RulesInv, [Next]_vars PROVE RulesInv'
  OBVIOUS
<1>0. ConfigInv'
  BY StepConfig DEF RulesInv
<1>1. CASE Boot
  <2>1. lists' \in [Catalog -> SUBSET Seq(Label)]
    BY <1>1, CachedType DEF Boot, RulesInv, TypeOK
  <2>2. settings' \in Settings
    BY <1>1 DEF Boot, RulesInv, TypeOK
  <2>3. blocked' \subseteq Seq(Label) /\ allowed' \subseteq Seq(Label)
    BY <1>1, <2>1, <2>2, MapsType DEF Boot, Rebuild
  <2>4. TypeOK'
    BY <1>1, <2>1, <2>2, <2>3 DEF Boot, RulesInv, TypeOK
  <2> QED
    BY <1>0, <1>1, <2>4 DEF Boot, RulesInv, OneRulePerDomain, validateSettings
<1>2. CASE Crash
  <2>1. newSettings \in Settings
    BY StoreAssumption DEF newSettings, Settings
  <2>2. (up \in BOOLEAN)'
    BY <1>2, Zenon DEF Crash
  <2>3. (staged \in Seq(Settings) /\ Len(staged) <= 1)'
    BY <1>2 DEF Crash
  <2>4. (lists \in [Catalog -> SUBSET Seq(Label)])'
    BY <1>2 DEF Crash
  <2>5. TypeOK'
    BY <1>2, <2>1, <2>2, <2>3, <2>4 DEF Crash, RulesInv, TypeOK
  <2> QED
    BY <1>0, <1>2, <2>5 DEF Crash, RulesInv, OneRulePerDomain, validateSettings
<1>3. CASE Tick
  <2>1. TypeOK'
    BY <1>3, StoreAssumption DEF Tick, configVars, RulesInv, TypeOK
  <2> QED
    BY <1>0, <1>3, <2>1 DEF Tick, configVars, RulesInv, OneRulePerDomain, validateSettings
<1>4. CASE Route
  <2>1. PICK next \in Settings : Persist(next) /\ Distinct(next.rules)
    BY <1>4, RouteKeepsRules
  <2>2. TypeOK'
    BY <2>1 DEF Persist, RulesInv, TypeOK
  <2> QED
    BY <1>0, <2>1, <2>2 DEF Persist, RulesInv, OneRulePerDomain, Distinct, validateSettings
<1>5. CASE Publish
  <2>1. staged[1] \in Settings
    BY <1>5 DEF Publish, MutexFree, RulesInv, TypeOK
  <2>2. blocked' \subseteq Seq(Label) /\ allowed' \subseteq Seq(Label)
    BY <1>5, <2>1, MapsType DEF Publish, Rebuild, RulesInv, TypeOK
  <2>3. TypeOK'
    BY <1>5, <2>1, <2>2 DEF Publish, RulesInv, TypeOK
  <2> QED
    BY <1>0, <1>5, <2>3 DEF Publish, RulesInv, OneRulePerDomain, validateSettings
<1>6. CASE ResetPassword
  <2>1. /\ settingsFile' \in Settings
        /\ settingsFile'.rules = settingsFile.rules
        /\ validateSettings(settingsFile)'
    BY <1>6 DEF ResetPassword, RulesInv, TypeOK, Settings, validateSettings
  <2>2. TypeOK'
    BY <1>6, <2>1 DEF ResetPassword, RulesInv, TypeOK
  <2> QED
    BY <1>0, <2>1, <2>2 DEF RulesInv, OneRulePerDomain
<1>7. CASE UNCHANGED vars
  BY <1>0, <1>7 DEF vars, RulesInv, TypeOK, OneRulePerDomain, validateSettings
<1> QED
  BY <1>1, <1>2, <1>3, <1>4, <1>5, <1>6, <1>7 DEF Next

(* RulesInv in every reachable state.                                        *)
LEMMA AlwaysRules == Spec => []RulesInv
BY InitRules, StepRules, PTL DEF Spec

(* Whatever is requested and wherever the process dies, settings, lists and  *)
(* maps keep their types (newStore, change, rebuildLocked).                  *)
THEOREM StoreTypes == Spec => []TypeOK
<1>1. RulesInv => TypeOK
  BY DEF RulesInv
<1> QED
  BY <1>1, AlwaysRules, PTL

(* For every spelling, order of requests and crash: one rule for a domain.   *)
THEOREM OneRuleEach == Spec => []OneRulePerDomain
<1>1. RulesInv => OneRulePerDomain
  BY DEF RulesInv
<1> QED
  BY <1>1, AlwaysRules, PTL

(* A rule on disk has a domain that is already normalised, of two labels or  *)
(* more: this is why a map that holds it matches it.                         *)
LEMMA MatchesItself ==
  ASSUME NEW n \in Seq(Label), validDomain(n), NEW map, n \in map
  PROVE  matches(map, n)
<1>1. canonical(n) = n /\ Len(n) >= 2 /\ Len(n) \in Nat
  BY DEF validDomain
<1>2. SubSeq(n, 1, Len(n)) = n
  BY <1>1
<1>3. n # <<EmptyLabel>>
  <2> SUFFICES ASSUME n = <<EmptyLabel>> PROVE FALSE
    OBVIOUS
  <2>1. Len(n) = 1
    OBVIOUS
  <2> QED
    BY <2>1, <1>1
<1>4. 1 \in 1..Len(n)
  BY <1>1
<1> QED
  BY <1>1, <1>2, <1>3, <1>4, Zenon DEF matches

(* Between changes, a running server answers by the rules on disk.           *)
LEMMA RulesDecide == RulesInv => SavedRuleIsActive
<1>1. RulesInv => SavedRuleIsActive
  <2> SUFFICES ASSUME RulesInv, up, MutexFree,
                      NEW i \in DOMAIN settingsFile.rules
               PROVE  LET r == settingsFile.rules[i]
                          opened == \E j \in DOMAIN settingsFile.rules :
                                      /\ settingsFile.rules[j].kind = "allow"
                                      /\ matches({settingsFile.rules[j].domain}, r.domain)
                      IN  IF r.kind = "allow"
                          THEN policy(r.domain) = [blocked |-> FALSE, allowed |-> TRUE]
                          ELSE policy(r.domain).blocked
                                 <=> ~opened /\ now > settingsFile.pausedUntil
    BY Zenon DEF SavedRuleIsActive
  <2> DEFINE rules  == settingsFile.rules
             d      == rules[i].domain
             opened == \E j \in DOMAIN rules :
                         rules[j].kind = "allow" /\ matches({rules[j].domain}, d)
  <2>1. settings = settingsFile
    BY DEF RulesInv, ConfigInv, FileLeads
  <2>2. /\ rules \in Seq(Rule) /\ settingsFile.pausedUntil \in Nat
        /\ now \in Nat
    BY DEF RulesInv, TypeOK, Settings, Rule
  <2>3. rules[i] \in Rule
    BY <2>2
  <2>4. d \in Seq(Label) /\ validDomain(d) /\ rules[i].kind \in Kind
    BY <2>3 DEF RulesInv, validateSettings, Rule
  <2>5. /\ blocked = BlockedNames(settings.sources, lists, rules)
        /\ allowed = RuleDomains(rules, {"allow"})
    BY <2>1 DEF RulesInv, ConfigInv, PolicyFollowsConfig, AllowedNames
  <2>6. Paused(settings) <=> now <= settingsFile.pausedUntil
    BY <2>1 DEF Paused
  <2>7. matches(allowed, d) <=> opened
    <3> DEFINE cut(k) == SubSeq(canonical(d), k, Len(canonical(d)))
    <3>1. ASSUME NEW m
          PROVE  matches(m, d) <=> \E k \in 1..Len(canonical(d)) :
                                     cut(k) \in m /\ cut(k) # <<EmptyLabel>>
      BY Zenon DEF matches
    <3>2. \A x : x \in allowed <=> \E j \in DOMAIN rules :
                                   rules[j].kind = "allow" /\ x = rules[j].domain
      BY <2>5, Zenon DEF RuleDomains
    <3> HIDE DEF cut
    <3>3. ASSUME NEW j \in DOMAIN rules
          PROVE  matches({rules[j].domain}, d) <=>
                   \E k \in 1..Len(canonical(d)) :
                     cut(k) = rules[j].domain /\ cut(k) # <<EmptyLabel>>
      <4> DEFINE m == {rules[j].domain}
      <4>1. \A x : x \in m <=> x = rules[j].domain
        OBVIOUS
      <4> HIDE DEF m
      <4>2. matches(m, d) <=> \E k \in 1..Len(canonical(d)) :
                                cut(k) = rules[j].domain /\ cut(k) # <<EmptyLabel>>
        <5>1. matches(m, d) <=> \E k \in 1..Len(canonical(d)) :
                                  cut(k) \in m /\ cut(k) # <<EmptyLabel>>
          BY <3>1, Zenon
        <5> HIDE DEF d, rules
        <5> QED
          BY <5>1, <4>1, Zenon
      <4> QED
        BY <4>2 DEF m
    <3>4. matches(allowed, d) <=>
            \E k \in 1..Len(canonical(d)), j \in DOMAIN rules :
              rules[j].kind = "allow" /\ cut(k) = rules[j].domain /\ cut(k) # <<EmptyLabel>>
      BY <3>1, <3>2, Zenon
    <3> QED
      BY <3>3, <3>4, Zenon
  <2>8. CASE rules[i].kind = "allow"
    <3>1. d \in allowed
      BY <2>5, <2>8, Zenon DEF RuleDomains
    <3>2. matches(allowed, d)
      BY <3>1, <2>4, MatchesItself
    <3> QED
      BY <3>2, <2>8, Zenon DEF policy, Decision
  <2>9. CASE rules[i].kind # "allow"
    <3>1. rules[i].kind = "block"
      BY <2>9, <2>4 DEF Kind
    <3>2. d \in blocked
      <4>1. d \in RuleDomains(rules, {"block"})
        BY <3>1, Zenon DEF RuleDomains
      <4> QED
        BY <4>1, <2>5, Zenon DEF BlockedNames
    <3>3. matches(blocked, d)
      BY <3>2, <2>4, MatchesItself
    <3>4. policy(d).blocked <=> ~Paused(settings) /\ ~matches(allowed, d)
      BY <3>3, Zenon DEF policy, Decision
    <3>5. now <= settingsFile.pausedUntil <=> ~(now > settingsFile.pausedUntil)
      BY <2>2
    <3> QED
      BY <3>4, <3>5, <2>6, <2>7, <2>9, Zenon
  <2> QED
    BY <2>8, <2>9
<1> QED
  BY <1>1

(* A rule that was saved decides, whatever routes, crashes and restarts came *)
(* before (change, newStore).                                                *)
THEOREM SavedRulesRule == Spec => []SavedRuleIsActive
BY RulesDecide, AlwaysRules, PTL

-----------------------------------------------------------------------------
(* As far as the proof needs the types: the lists and the locals of the      *)
(* goroutines are functions.                                                 *)
Shapes ==
  /\ lists = [id \in Catalog |-> lists[id]]
  /\ listFile = [id \in Catalog |-> listFile[id]]
  /\ pc \in [Worker -> PC]
  /\ cur \in [Worker -> Catalog]
  /\ got = [w \in Worker |-> got[w]]

(* What a goroutine has in hand: content worth writing before the write, and *)
(* after it content that is in the file.                                     *)
Handled ==
  \A w \in Worker :
    /\ pc[w] # "idle" => up
    /\ pc[w] = "write" => Usable(got[w])
    /\ pc[w] = "publish" /\ got[w] # Failed =>
         Usable(got[w]) /\ listFile[cur[w]] = got[w]

IInv == ConfigInv /\ Shapes /\ OneRefresher /\ Handled /\ ActiveListIsCached

(* A usable content is what a start would load.                              *)
LEMMA UsableIsCached == ASSUME NEW c, Usable(c) PROVE Cached(c) = parseList(c)
BY StoreAssumption DEF Usable, Cached

(* IInv holds at the start. *)
LEMMA InitRefresh == RefreshInit => IInv
<1> SUFFICES ASSUME RefreshInit PROVE IInv
  OBVIOUS
<1>1. ConfigInv
  BY InitConfig DEF RefreshInit
<1>2. Shapes /\ Handled
  BY StoreAssumption DEF RefreshInit, Init, Shapes, Handled, PC, Running
<1>3. OneRefresher /\ ActiveListIsCached
  BY DEF RefreshInit, Init, OneRefresher, ActiveListIsCached, Running
<1> QED
  BY <1>1, <1>2, <1>3 DEF IInv

(* A refresh does not disturb the configuration, nor a change the lists.     *)
LEMMA StepKeepsConfig == IInv /\ [RefreshNext]_allVars => ConfigInv'
<1> SUFFICES ASSUME IInv, [RefreshNext]_allVars PROVE ConfigInv'
  OBVIOUS
<1>1. CASE [Next]_vars
  BY <1>1, StepConfig DEF IInv
<1>2. ASSUME NEW w \in Worker, WriteList(w) \/ PublishList(w) PROVE ConfigInv'
  BY <1>2 DEF IInv, ConfigInv, FileLeads, Fields, MutexFree, PolicyFollowsConfig,
              WriteList, PublishList, configVars, Rebuild
<1> QED
  BY <1>1, <1>2
  DEF RefreshNext, Next, Route, BootAll, CrashAll, Stop, PublishConfig, AskingRoute,
      RefreshRequest, ScheduledRefresh, Step, Enter, Snapshot, Fetch, Finish,
      vars, allVars

(* Every step keeps the part of IInv that is about lists and goroutines.     *)
LEMMA StepKeepsLists ==
  IInv /\ [RefreshNext]_allVars => (Shapes /\ OneRefresher /\ Handled /\ ActiveListIsCached)'
<1> DEFINE Part == Shapes /\ OneRefresher /\ Handled /\ ActiveListIsCached
<1> SUFFICES ASSUME IInv, [RefreshNext]_allVars PROVE Part'
  OBVIOUS
<1> USE DEF IInv, Shapes, OneRefresher, Handled, ActiveListIsCached, PC, Running
<1>1. CASE BootAll
  BY <1>1 DEF BootAll, Boot, workVars
<1>2. CASE CrashAll
  BY <1>2, StoreAssumption DEF CrashAll, Crash
<1>3. CASE Stop
  BY <1>3 DEF Stop, vars, workVars
<1>4. CASE PublishConfig
  BY <1>4 DEF PublishConfig, Publish, workVars
<1>5. CASE (QuietRoute \/ Tick \/ ResetPassword) /\ UNCHANGED refreshVars
  <2>1. UNCHANGED <<up, lists, listFile>>
    <3>1. CASE QuietRoute
      BY <3>1, RouteWrites DEF Route, Written, Persist, ConfigInv
    <3> QED
      BY <1>5, <3>1 DEF Tick, ResetPassword
  <2> QED
    BY <1>5, <2>1 DEF refreshVars
<1>6. ASSUME NEW w \in Worker, AskingRoute(w) PROVE Part'
  <2>1. up /\ UNCHANGED <<up, lists, listFile>>
    BY <1>6, RouteWrites DEF AskingRoute, Route, Written, Persist, ConfigInv
  <2> QED
    BY <1>6, <2>1 DEF AskingRoute, Spawn
<1>7. ASSUME NEW w \in Worker, RefreshRequest(w) \/ ScheduledRefresh(w) PROVE Part'
  BY <1>7, SMTT(20) DEF RefreshRequest, ScheduledRefresh, Spawn, vars
<1>8. ASSUME NEW w \in Worker, Enter(w) PROVE Part'
  BY <1>8 DEF Enter, vars, workVars
<1>9. ASSUME NEW w \in Worker, Snapshot(w) PROVE Part'
  BY <1>9 DEF Snapshot, vars
<1>10. ASSUME NEW w \in Worker, NEW id \in Catalog, NEW c, Fetch(w, id, c) PROVE Part'
  BY <1>10, ZenonT(40) DEF Fetch, vars
<1>11. ASSUME NEW w \in Worker, WriteList(w) PROVE Part'
  <2>1. /\ pc[w] = "write" /\ pc' = [pc EXCEPT ![w] = "publish"]
        /\ UNCHANGED <<up, lists, cur, updating>>
        /\ \/ listFile' = [listFile EXCEPT ![cur[w]] = got[w]] /\ got' = got
           \/ listFile' = listFile /\ got' = [got EXCEPT ![w] = Failed]
    BY <1>11 DEF WriteList
  <2>2. \A v \in Worker : v # w => pc[v] \notin Running
    BY <2>1
  <2>3. Shapes'
    BY <2>1
  <2>4. OneRefresher'
    BY <2>1
  <2>5. Handled'
    BY <2>1, <2>2
  <2>6. up => \A id \in Catalog : lists[id] = Cached(listFile[id])
    BY <2>1, <2>2
  <2>7. ActiveListIsCached'
    <3> SUFFICES ASSUME up, NEW id \in Catalog,
                        ~(pc'[w] = "publish" /\ cur'[w] = id
                          /\ got'[w] # Failed /\ got'[w] = listFile'[id])
                 PROVE  lists'[id] = Cached(listFile'[id])
      BY <2>1
    <3>1. got[w] # Failed
      BY <2>1, RefreshAssumption DEF Usable
    <3>2. listFile'[id] = listFile[id]
      BY <2>1, <3>1
    <3> QED
      BY <2>1, <2>6, <3>2
  <2> QED
    BY <2>3, <2>4, <2>5, <2>7
<1>12. ASSUME NEW w \in Worker, PublishList(w) PROVE Part'
  <2>1. /\ pc[w] = "publish" /\ pc' = [pc EXCEPT ![w] = "next"]
        /\ cur' = [cur EXCEPT ![w] = DefaultSource] /\ got' = [got EXCEPT ![w] = Failed]
        /\ UNCHANGED <<up, listFile, updating>>
        /\ \/ got[w] = Failed /\ lists' = lists
           \/ got[w] # Failed /\ lists' = [lists EXCEPT ![cur[w]] = parseList(got[w])]
    BY <1>12 DEF PublishList
  <2>2. \A v \in Worker : v # w => pc[v] \notin Running
    BY <2>1
  <2>3. Shapes'
    <3>1. DefaultSource \in Catalog
      BY StoreAssumption
    <3> QED
      BY <2>1, <3>1
  <2>4. OneRefresher'
    BY <2>1
  <2>5. Handled'
    BY <2>1, <2>2
  <2>6. up => \A id \in Catalog : id # cur[w] \/ got[w] = Failed => lists[id] = Cached(listFile[id])
    BY <2>1, <2>2
  <2>7. got[w] # Failed => Cached(listFile[cur[w]]) = parseList(got[w])
    BY <2>1, UsableIsCached
  <2>8. ActiveListIsCached'
    BY <2>1, <2>6, <2>7
  <2> QED
    BY <2>3, <2>4, <2>5, <2>8
<1>13. ASSUME NEW w \in Worker, Finish(w) PROVE Part'
  BY <1>13 DEF Finish, vars, workVars
<1>14. CASE UNCHANGED allVars
  BY <1>14 DEF allVars, vars, refreshVars
<1> QED
  BY <1>1, <1>2, <1>3, <1>4, <1>5, <1>6, <1>7, <1>8, <1>9, <1>10, <1>11, <1>12,
     <1>13, <1>14 DEF RefreshNext, Step

(* IInv in every reachable state. *)
LEMMA AlwaysIInv == RefreshSpec => []IInv
<1>1. IInv /\ [RefreshNext]_allVars => IInv'
  BY StepKeepsConfig, StepKeepsLists DEF IInv
<1> QED
  BY <1>1, InitRefresh, PTL DEF RefreshSpec

(* A reader of policy() never sees maps that disagree with the rules, the    *)
(* enabled sources and the lists in force, whatever changes, updates of the  *)
(* lists, crashes and restarts overlap (rebuildLocked).                      *)
THEOREM PolicyNeverStale == RefreshSpec => []PolicyFollowsConfig
<1>1. IInv => PolicyFollowsConfig
  BY DEF IInv, ConfigInv
<1> QED
  BY <1>1, AlwaysIInv, PTL

(* Two goroutines are never inside refreshLists together, and updating says  *)
(* when one is.                                                              *)
THEOREM RefreshesExclude == RefreshSpec => []OneRefresher
<1>1. IInv => OneRefresher
  BY DEF IInv
<1> QED
  BY <1>1, AlwaysIInv, PTL

(* The list in force is the cached one but for the moment between its two    *)
(* publications.                                                             *)
THEOREM ActiveIsCached == RefreshSpec => []ActiveListIsCached
<1>1. IInv => ActiveListIsCached
  BY DEF IInv
<1> QED
  BY <1>1, AlwaysIInv, PTL

(* What a step can do to the file and to the active list of one source.      *)
LEMMA ListSteps ==
  ASSUME IInv, [RefreshNext]_allVars, NEW id \in Catalog
  PROVE  \/ UNCHANGED <<listFile[id], lists[id], up>>
         \/ ~up /\ up' /\ lists'[id] = Cached(listFile[id]) /\ UNCHANGED listFile
         \/ ~up' /\ UNCHANGED listFile
         \/ /\ Usable(listFile'[id]) /\ lists[id] = Cached(listFile[id])
            /\ UNCHANGED <<lists, up>>
         \/ /\ up /\ UNCHANGED <<listFile, up>>
            /\ Usable(listFile[id]) /\ lists'[id] = Cached(listFile[id])
<1> USE DEF IInv, Shapes
<1>1. CASE BootAll
  BY <1>1 DEF BootAll, Boot
<1>2. CASE CrashAll
  BY <1>2 DEF CrashAll, Crash
<1>3. ASSUME NEW w \in Worker, WriteList(w)
      PROVE  \/ UNCHANGED <<listFile[id], lists[id], up>>
             \/ /\ Usable(listFile'[id]) /\ lists[id] = Cached(listFile[id])
                /\ UNCHANGED <<lists, up>>
  <2>1. pc[w] = "write" /\ Usable(got[w]) /\ up
    BY <1>3 DEF WriteList, Handled
  <2>2. lists[id] = Cached(listFile[id])
    BY <2>1 DEF ActiveListIsCached, OneRefresher, Running
  <2> QED
    BY <1>3, <2>1, <2>2 DEF WriteList
<1>4. ASSUME NEW w \in Worker, PublishList(w)
      PROVE  \/ UNCHANGED <<listFile[id], lists[id], up>>
             \/ /\ up /\ UNCHANGED <<listFile, up>>
                /\ Usable(listFile[id]) /\ lists'[id] = Cached(listFile[id])
  <2>1. /\ up /\ UNCHANGED <<listFile, up>>
        /\ got[w] # Failed => Usable(got[w]) /\ listFile[cur[w]] = got[w]
    BY <1>4 DEF PublishList, Handled
  <2>2. \/ UNCHANGED lists
        \/ got[w] # Failed /\ lists' = [lists EXCEPT ![cur[w]] = parseList(got[w])]
    BY <1>4 DEF PublishList
  <2> QED
    BY <2>1, <2>2, UsableIsCached
<1>5. CASE UNCHANGED <<listFile, lists, up>>
  BY <1>5
<1>6. Route => UNCHANGED <<listFile, lists, up>>
  BY RouteWrites DEF Written, Persist, ConfigInv
<1> QED
  BY <1>1, <1>2, <1>3, <1>4, <1>5, <1>6
  DEF RefreshNext, Step, Stop, PublishConfig, Publish, AskingRoute, Route, Tick, ResetPassword,
      RefreshRequest, ScheduledRefresh, Enter, Snapshot, Fetch, Finish, vars, allVars

(* Every list is a DurableCell: it becomes active only after it has replaced *)
(* its cached file, and no second write of it begins before that.            *)
THEOREM ListsAreCells == RefreshSpec => ListsAreDurable
<1>1. RefreshInit => \A id \in Catalog : ListCell(id)!Init
  BY DEF RefreshInit, Init, ListCell!Init
<1>2. IInv /\ [RefreshNext]_allVars =>
        [\A id \in Catalog : ListCell(id)!Next \/ UNCHANGED ListCell(id)!vars]_allVars
  BY ListSteps
  DEF ListCell!Next, ListCell!vars, ListCell!Start, ListCell!Stop, ListCell!Commit, ListCell!Publish
<1> QED
  BY <1>1, <1>2, AlwaysIInv, PTL DEF RefreshSpec, ListsAreDurable

(* A list once usable is never replaced by less, whatever the provider       *)
(* serves and whichever call fails.                                          *)
THEOREM WorkingCopyKept == RefreshSpec => KeepsWorkingCopy
<1>1. ASSUME NEW c, Usable(c) PROVE Cardinality(Cached(c)) >= MinDomains
  BY <1>1, UsableIsCached DEF Usable
<1>2. IInv /\ [RefreshNext]_allVars =>
        [\A id \in Catalog :
           /\ Usable(listFile[id]) => Usable(listFile'[id])
           /\ up /\ up' /\ Cardinality(lists[id]) >= MinDomains
                => Cardinality(lists'[id]) >= MinDomains]_allVars
  BY <1>1, ListSteps
<1> QED
  BY <1>2, AlwaysIInv, PTL DEF RefreshSpec, KeepsWorkingCopy

(* With nothing between a file and its publication, the process a restart    *)
(* would start decides every name as the running one does.                   *)
THEOREM RestartChangesNothing == RefreshSpec => []RestartKeepsPolicy
<1>1. IInv => RestartKeepsPolicy
  <2> SUFFICES ASSUME IInv, up, MutexFree, \A w \in Worker : pc[w] # "publish"
               PROVE  /\ blocked = BlockedNames(settingsFile.sources,
                                      [id \in Catalog |-> Cached(listFile[id])],
                                      settingsFile.rules)
                      /\ allowed = AllowedNames(settingsFile.rules)
    BY DEF RestartKeepsPolicy
  <2>1. lists = [id \in Catalog |-> Cached(listFile[id])]
    BY DEF IInv, Shapes, ActiveListIsCached
  <2>2. settings = settingsFile
    BY DEF IInv, ConfigInv, FileLeads
  <2> QED
    BY <2>1, <2>2 DEF IInv, ConfigInv, PolicyFollowsConfig
<1> QED
  BY <1>1, AlwaysIInv, PTL

-----------------------------------------------------------------------------
(* What a goroutine writes or publishes is content of a list.                *)
LEMMA ListsKeepRules ==
  ASSUME IInv, RulesInv, NEW w \in Worker, WriteList(w) \/ PublishList(w)
  PROVE  RulesInv'
<1>0. ConfigInv' /\ OneRulePerDomain' /\ validateSettings(settingsFile)'
  <2>1. ConfigInv'
    BY StepKeepsConfig DEF RefreshNext, Step
  <2>2. settingsFile' = settingsFile
    BY DEF WriteList, PublishList, configVars
  <2> QED
    BY <2>1, <2>2 DEF RulesInv, OneRulePerDomain, validateSettings
<1>1. CASE WriteList(w)
  <2>1. got[w] \in Content /\ cur[w] \in Catalog
    BY <1>1 DEF WriteList, IInv, Handled, Shapes, Usable
  <2>2. listFile' \in [Catalog -> Content \cup {Absent}]
    BY <1>1, <2>1 DEF WriteList, RulesInv, TypeOK
  <2>3. TypeOK'
    BY <1>1, <2>2 DEF WriteList, configVars, RulesInv, TypeOK
  <2> QED
    BY <1>0, <2>3 DEF RulesInv
<1>2. CASE PublishList(w)
  <2>1. CASE got[w] = Failed
    <3>1. TypeOK'
      BY <1>2, <2>1 DEF PublishList, RulesInv, TypeOK
    <3> QED
      BY <1>0, <3>1 DEF RulesInv
  <2>2. CASE got[w] # Failed
    <3>1. Usable(got[w]) /\ cur[w] \in Catalog
      BY <1>2, <2>2 DEF PublishList, IInv, Handled, Shapes
    <3>2. parseList(got[w]) \subseteq Seq(Label)
      BY <3>1, UsableIsCached, CachedType DEF Usable
    <3>3. lists' \in [Catalog -> SUBSET Seq(Label)]
      BY <1>2, <2>2, <3>2 DEF PublishList, RulesInv, TypeOK
    <3>4. blocked' \subseteq Seq(Label) /\ allowed' \subseteq Seq(Label)
      <4>1. settings \in Settings
        BY DEF RulesInv, TypeOK
      <4>2. Rebuild(settings, lists')
        BY <1>2, <2>2 DEF PublishList
      <4> QED
        BY <3>3, <4>1, <4>2, MapsType DEF Rebuild
    <3>5. TypeOK'
      BY <1>2, <3>3, <3>4 DEF PublishList, RulesInv, TypeOK
    <3> QED
      BY <1>0, <3>5 DEF RulesInv
  <2> QED
    BY <2>1, <2>2
<1> QED
  BY <1>1, <1>2

(* Every step beside a refresh keeps the rules and the types.                *)
LEMMA StepKeepsRules == IInv /\ RulesInv /\ [RefreshNext]_allVars => RulesInv'
<1> SUFFICES ASSUME IInv, RulesInv, [RefreshNext]_allVars PROVE RulesInv'
  OBVIOUS
<1>1. CASE [Next]_vars
  BY <1>1, StepRules
<1> QED
  BY <1>1, ListsKeepRules
  DEF RefreshNext, Next, Route, BootAll, CrashAll, Stop, PublishConfig, AskingRoute,
      RefreshRequest, ScheduledRefresh, Step, Enter, Snapshot, Fetch, Finish,
      vars, allVars

(* The types of what the goroutines add to Store.                            *)
WorkTypes ==
  /\ updating \in BOOLEAN /\ refreshPending \in BOOLEAN /\ stopping \in BOOLEAN
  /\ pc \in [Worker -> PC]
  /\ ctx \in [Worker -> {"run", "request"}]
  /\ todo \in [Worker -> SUBSET Catalog]
  /\ cur \in [Worker -> Catalog]
  /\ got \in [Worker -> Content \cup {Failed}]
  /\ due \subseteq Catalog

(* Every step keeps them.                                                    *)
LEMMA StepKeepsWork == IInv /\ RulesInv /\ WorkTypes /\ [RefreshNext]_allVars => WorkTypes'
<1> SUFFICES ASSUME IInv, RulesInv, WorkTypes, [RefreshNext]_allVars PROVE WorkTypes'
  OBVIOUS
<1> USE DEF WorkTypes, PC
<1>0. settings.sources \subseteq Catalog
      /\ (~MutexFree => staged[1].sources \subseteq Catalog)
  <2>1. settings \in Settings /\ settingsFile \in Settings
    BY DEF RulesInv, TypeOK
  <2>2. ~MutexFree => staged[1] = settingsFile
    BY DEF RulesInv, ConfigInv, FileLeads
  <2> QED
    BY <2>1, <2>2 DEF Settings
<1>1. CASE BootAll
  BY <1>1 DEF BootAll, workVars
<1>2. CASE CrashAll
  <2>1. updating' \in BOOLEAN /\ refreshPending' \in BOOLEAN /\ stopping' \in BOOLEAN
    BY <1>2, Zenon DEF CrashAll
  <2> QED
    BY <1>2, <2>1, StoreAssumption DEF CrashAll
<1>3. CASE Stop
  BY <1>3, Zenon DEF Stop, workVars
<1>4. CASE PublishConfig
  BY <1>0, <1>4 DEF PublishConfig, Publish, workVars
<1>5. ASSUME NEW w \in Worker, NEW at \in {"asked", "enter"}, NEW c \in {"run", "request"},
             Spawn(w, at, c), due' \in {due, due \cup settings.sources}
      PROVE  WorkTypes'
  BY <1>0, <1>5 DEF Spawn
<1>6. ASSUME NEW w \in Worker, Enter(w) PROVE WorkTypes'
  <2>1. updating' \in BOOLEAN /\ refreshPending' \in BOOLEAN /\ stopping' \in BOOLEAN
    BY <1>6, Zenon DEF Enter
  <2> QED
    BY <1>6, <2>1 DEF Enter, workVars
<1>7. ASSUME NEW w \in Worker, Snapshot(w) PROVE WorkTypes'
  BY <1>0, <1>7 DEF Snapshot
<1>8. ASSUME NEW w \in Worker, NEW id \in Catalog, NEW c \in Content \cup {Failed},
             Fetch(w, id, c)
      PROVE  WorkTypes'
  BY <1>8 DEF Fetch
<1>9. ASSUME NEW w \in Worker, WriteList(w) PROVE WorkTypes'
  BY <1>9 DEF WriteList
<1>10. ASSUME NEW w \in Worker, PublishList(w) PROVE WorkTypes'
  BY <1>10, StoreAssumption DEF PublishList
<1>11. ASSUME NEW w \in Worker, Finish(w) PROVE WorkTypes'
  <2>1. updating' \in BOOLEAN /\ refreshPending' \in BOOLEAN /\ stopping' \in BOOLEAN
    BY <1>11, Zenon DEF Finish
  <2> QED
    BY <1>11, <2>1 DEF Finish, workVars
<1>12. CASE UNCHANGED refreshVars
  BY <1>12 DEF refreshVars
<1> QED
  BY <1>1, <1>2, <1>3, <1>4, <1>5, <1>6, <1>7, <1>8, <1>9, <1>10, <1>11, <1>12
  DEF RefreshNext, AskingRoute, RefreshRequest, ScheduledRefresh, Step, allVars

(* The types at the start.                                                   *)
LEMMA StartTypes == RefreshInit => RulesInv /\ WorkTypes
<1> SUFFICES ASSUME RefreshInit PROVE RulesInv /\ WorkTypes
  OBVIOUS
<1>1. updating \in BOOLEAN /\ refreshPending \in BOOLEAN /\ stopping \in BOOLEAN
  BY Zenon DEF RefreshInit
<1> QED
  BY <1>1, InitRules, StoreAssumption DEF RefreshInit, WorkTypes, PC

(* The rules and the locals, beside updates of the lists.                    *)
LEMMA AlwaysWork == RefreshSpec => [](RulesInv /\ WorkTypes)
<1> DEFINE Types == RulesInv /\ WorkTypes
<1>1. RefreshInit => Types
  BY StartTypes
<1>2. IInv /\ Types /\ [RefreshNext]_allVars => Types'
  BY StepKeepsRules, StepKeepsWork
<1> QED
  BY <1>1, <1>2, InitRefresh, StepKeepsConfig, StepKeepsLists, PTL DEF RefreshSpec, IInv

(* Types hold for any number of goroutines, whatever is requested and        *)
(* wherever the process dies (refreshLists beside Store).                    *)
THEOREM RefreshTypes == RefreshSpec => []RefreshTypeOK
<1>1. RulesInv /\ WorkTypes => RefreshTypeOK
  BY DEF RulesInv, WorkTypes, RefreshTypeOK
<1> QED
  BY <1>1, AlwaysWork, PTL

(* No update of a list changes what a saved rule decides (refreshLists       *)
(* beside change).                                                           *)
THEOREM UpdatesKeepRules == RefreshSpec => []SavedRuleIsActive
BY RulesDecide, AlwaysWork, PTL

-----------------------------------------------------------------------------
(* What a quiet route writes enables no list.                                *)
LEMMA QuietEnablesNothing ==
  ASSUME Fields, QuietRoute
  PROVE  staged'[1].sources \subseteq settings.sources
<1> USE DEF Fields, newSettings, Persist
<1>1. ASSUME NEW n, NEW u, PutSettings(n, u) PROVE staged'[1].sources = settings.sources
  <2>1. staged'[1] = [settings EXCEPT !.name = n, !.upstreams = u]
    BY <1>1 DEF PutSettings
  <2> QED
    BY <2>1
<1>2. ASSUME NEW id, DisableSource(id) PROVE staged'[1].sources = settings.sources \ {id}
  BY <1>2 DEF DisableSource
<1>3. ASSUME NEW raw, NEW k, DeleteRule(raw) \/ PostRule(raw, k)
      PROVE  staged'[1].sources = settings.sources
  BY <1>3 DEF DeleteRule, PostRule
<1>4. ASSUME NEW m, Pause(m) PROVE staged'[1].sources = settings.sources
  BY <1>4 DEF Pause
<1> QED
  BY <1>1, <1>2, <1>3, <1>4 DEF QuietRoute

(* Nothing is owed by a process that is down, and a change that starts no    *)
(* refresh when it is published enables nothing.                             *)
Asked == \E w \in Worker : pc[w] = "asked"

OwedInv ==
  /\ RefreshOwed
  /\ ~up => due = {}
  /\ ~MutexFree /\ ~Asked => staged[1].sources \subseteq settings.sources

(* A goroutine that reads the enabled lists later, or has a list ahead.      *)
Sees(w, id) ==
  \/ pc[w] \in {"enter", "snapshot"}
  \/ pc[w] \in Running /\ (refreshPending \/ id \in todo[w])

(* Every step keeps what is owed.                                            *)
LEMMA StepOwed ==
  IInv /\ WorkTypes /\ OwedInv /\ [RefreshNext]_allVars => OwedInv'
<1> SUFFICES ASSUME IInv, WorkTypes, OwedInv, [RefreshNext]_allVars PROVE OwedInv'
  OBVIOUS
<1> USE DEF Running, PC
<1>0. /\ pc \in [Worker -> PC] /\ todo \in [Worker -> SUBSET Catalog]
      /\ \A w \in Worker : pc[w] # "idle" => up
      /\ up \in BOOLEAN /\ (~MutexFree => up)
      /\ ~up => due = {}
      /\ ~MutexFree /\ ~Asked => staged[1].sources \subseteq settings.sources
  BY DEF IInv, ConfigInv, FileLeads, Handled, WorkTypes, OwedInv
<1>1. \A v, w \in Worker : pc[v] \in Running /\ pc[w] \in Running => v = w
  BY DEF IInv, OneRefresher
<1>2. updating => \E w \in Worker : pc[w] \in Running
  BY DEF IInv, OneRefresher
<1>3. up /\ ~stopping => \A id \in due \cap settings.sources : \E w \in Worker : Sees(w, id)
  BY DEF OwedInv, RefreshOwed, Sees
<1>4. ASSUME up' /\ ~stopping' => \A id \in due' \cap settings'.sources : \E w \in Worker : Sees(w, id)'
      PROVE  RefreshOwed'
  BY <1>4 DEF RefreshOwed, Sees
<1>5. ASSUME UNCHANGED <<vars, stopping, due>>,
             \A w \in Worker : pc[w] = "asked" <=> pc'[w] = "asked",
             up /\ ~stopping => \A id \in due \cap settings.sources :
               (\E w \in Worker : Sees(w, id)) => \E w \in Worker : Sees(w, id)'
      PROVE  OwedInv'
  <2>1. RefreshOwed'
    BY <1>3, <1>4, <1>5 DEF vars
  <2> QED
    BY <1>0, <1>5, <2>1 DEF OwedInv, Asked, vars, MutexFree
<1>6. CASE BootAll
  BY <1>0, <1>4, <1>6 DEF BootAll, Boot, workVars, OwedInv, Asked, MutexFree
<1>7. CASE CrashAll
  BY <1>4, <1>7 DEF CrashAll, Crash, OwedInv, MutexFree
<1>8. CASE Stop
  BY <1>0, <1>4, <1>8 DEF Stop, vars, workVars, OwedInv, Asked, MutexFree
<1>9. CASE PublishConfig
  <2>1. /\ settings' = staged[1] /\ staged' = << >> /\ ~MutexFree
        /\ UNCHANGED <<up, stopping, refreshPending, todo>>
        /\ pc' = [w \in Worker |-> IF pc[w] = "asked" THEN "enter" ELSE pc[w]]
        /\ due' = IF Asked THEN due \cup staged[1].sources ELSE due
    BY <1>9 DEF PublishConfig, Publish, workVars, Asked
  <2>2. CASE Asked
    <3>1. \E w \in Worker : pc'[w] = "enter"
      BY <2>1, <2>2 DEF Asked
    <3> QED
      BY <1>0, <1>4, <2>1, <3>1 DEF OwedInv, MutexFree, Sees
  <2>3. CASE ~Asked
    <3>1. settings'.sources \subseteq settings.sources /\ due' = due
      BY <1>0, <2>1, <2>3
    <3>2. \A w \in Worker : pc'[w] = pc[w]
      BY <2>1, <2>3 DEF Asked
    <3>3. RefreshOwed'
      BY <1>3, <1>4, <2>1, <3>1, <3>2 DEF Sees
    <3> QED
      BY <1>0, <2>1, <3>1, <3>3 DEF OwedInv, MutexFree
  <2> QED
    BY <2>2, <2>3
<1>10. CASE QuietRoute /\ UNCHANGED refreshVars
  <2>1. UNCHANGED <<up, settings>>
    <3>1. Fields
      BY DEF IInv, ConfigInv
    <3> QED
      BY <1>10, <3>1, RouteWrites DEF Route, Written, Persist
  <2>2. staged'[1].sources \subseteq settings.sources
    BY <1>10, QuietEnablesNothing DEF IInv, ConfigInv
  <2>3. RefreshOwed'
    BY <1>3, <1>4, <1>10, <2>1 DEF refreshVars, Sees, workVars
  <2> QED
    BY <1>0, <1>10, <2>1, <2>2, <2>3 DEF OwedInv, refreshVars
<1>11. CASE (Tick \/ ResetPassword) /\ UNCHANGED refreshVars
  <2>1. UNCHANGED <<up, settings, staged>>
    BY <1>11 DEF Tick, ResetPassword, configVars
  <2>2. RefreshOwed'
    BY <1>3, <1>4, <1>11, <2>1 DEF refreshVars, Sees, workVars
  <2> QED
    BY <1>0, <1>11, <2>1, <2>2 DEF OwedInv, refreshVars, Asked, MutexFree
<1>12. ASSUME NEW w \in Worker, AskingRoute(w) PROVE OwedInv'
  <2>1. UNCHANGED <<up, settings>>
    <3>1. Fields
      BY DEF IInv, ConfigInv
    <3> QED
      BY <1>12, <3>1, RouteWrites DEF AskingRoute, Route, Written, Persist
  <2>2. /\ UNCHANGED <<due, stopping, refreshPending, todo>>
        /\ pc[w] = "idle" /\ pc' = [pc EXCEPT ![w] = "asked"]
    BY <1>12 DEF AskingRoute, Spawn
  <2>3. RefreshOwed'
    BY <1>0, <1>3, <1>4, <2>1, <2>2 DEF Sees
  <2>4. Asked'
    BY <1>0, <2>2 DEF Asked
  <2> QED
    BY <1>0, <2>1, <2>2, <2>3, <2>4 DEF OwedInv
<1>13. ASSUME NEW w \in Worker, RefreshRequest(w) \/ ScheduledRefresh(w) PROVE OwedInv'
  <2>1. /\ UNCHANGED <<up, settings, staged, stopping, refreshPending, todo>>
        /\ pc[w] = "idle" /\ pc' = [pc EXCEPT ![w] = "enter"] /\ up /\ MutexFree
    BY <1>13 DEF RefreshRequest, ScheduledRefresh, Spawn, vars
  <2>2. pc'[w] = "enter"
    BY <1>0, <2>1
  <2> QED
    BY <1>0, <1>4, <2>1, <2>2 DEF OwedInv, Sees, MutexFree
<1>14. ASSUME NEW w \in Worker, Enter(w) PROVE OwedInv'
  <2>1. /\ UNCHANGED <<vars, stopping, todo, due>> /\ pc[w] = "enter"
        /\ \/ /\ updating /\ refreshPending' = TRUE /\ pc' = [pc EXCEPT ![w] = "idle"]
           \/ pc' = [pc EXCEPT ![w] = "snapshot"]
    BY <1>14 DEF Enter, workVars
  <2>2. CASE updating /\ refreshPending' = TRUE /\ pc' = [pc EXCEPT ![w] = "idle"]
    <3>1. PICK v \in Worker : pc[v] \in Running
      BY <1>2, <2>2
    <3>2. v # w /\ pc'[v] = pc[v]
      BY <1>0, <2>1, <2>2, <3>1
    <3>3. \A id : Sees(v, id)'
      BY <2>2, <3>1, <3>2 DEF Sees
    <3> QED
      BY <1>0, <1>5, <2>1, <2>2, <3>3
  <2>3. CASE pc' = [pc EXCEPT ![w] = "snapshot"]
    <3>1. \A id : Sees(w, id)'
      BY <1>0, <2>3 DEF Sees
    <3> QED
      BY <1>0, <1>5, <2>1, <2>3, <3>1
  <2> QED
    BY <2>1, <2>2, <2>3
<1>15. ASSUME NEW w \in Worker, Snapshot(w) PROVE OwedInv'
  <2>1. /\ UNCHANGED <<vars, stopping, due>> /\ pc[w] = "snapshot"
        /\ pc' = [pc EXCEPT ![w] = "next"] /\ todo' = [todo EXCEPT ![w] = settings.sources]
    BY <1>15 DEF Snapshot
  <2>2. \A id \in settings.sources : Sees(w, id)'
    BY <1>0, <2>1 DEF Sees
  <2> QED
    BY <1>0, <1>5, <2>1, <2>2
<1>16. ASSUME NEW w \in Worker, NEW id \in Catalog, NEW c, Fetch(w, id, c) PROVE OwedInv'
  <2>1. /\ UNCHANGED <<vars, stopping, refreshPending>> /\ pc[w] = "next"
        /\ pc' = [pc EXCEPT ![w] = IF Usable(c) THEN "write" ELSE "publish"]
        /\ todo' = [todo EXCEPT ![w] = @ \ {id}] /\ due' = due \ {id}
    BY <1>16 DEF Fetch
  <2>2. \A v \in Worker, x \in due' : Sees(v, x) => Sees(v, x)'
    BY <1>0, <2>1 DEF Sees
  <2>3. RefreshOwed'
    BY <1>3, <1>4, <2>1, <2>2 DEF vars
  <2> QED
    BY <1>0, <2>1, <2>3 DEF OwedInv, Asked, MutexFree, vars
<1>17. ASSUME NEW w \in Worker, WriteList(w) \/ PublishList(w) PROVE OwedInv'
  <2>1. /\ UNCHANGED <<up, settings, staged, stopping, refreshPending, todo, due>>
        /\ pc[w] \in {"write", "publish"}
        /\ \/ pc' = [pc EXCEPT ![w] = "publish"]
           \/ pc' = [pc EXCEPT ![w] = "next"]
    BY <1>17 DEF WriteList, PublishList, configVars
  <2>2. \A v \in Worker, x \in due : Sees(v, x) => Sees(v, x)'
    BY <1>0, <2>1 DEF Sees
  <2>3. RefreshOwed'
    BY <1>3, <1>4, <2>1, <2>2
  <2> QED
    BY <1>0, <2>1, <2>3 DEF OwedInv, Asked, MutexFree
<1>18. ASSUME NEW w \in Worker, Finish(w) PROVE OwedInv'
  <2>1. /\ UNCHANGED <<vars, stopping, todo, due>> /\ pc[w] = "next" /\ todo[w] = {}
        /\ pc' = [pc EXCEPT ![w] =
             IF refreshPending /\ ~(ctx[w] = "run" /\ stopping) THEN "enter" ELSE "idle"]
    BY <1>18 DEF Finish, workVars
  <2>2. CASE refreshPending /\ ~stopping
    <3>1. \A id : Sees(w, id)'
      BY <1>0, <2>1, <2>2 DEF Sees
    <3> QED
      BY <1>0, <1>5, <2>1, <2>2, <3>1
  <2>3. CASE ~refreshPending
    <3>1. \A v \in Worker, x \in due : Sees(v, x) => Sees(v, x)'
      BY <1>0, <1>1, <2>1, <2>3 DEF Sees
    <3> QED
      BY <1>0, <1>5, <2>1, <2>3, <3>1
  <2>4. CASE stopping
    BY <1>0, <1>5, <2>1, <2>4
  <2> QED
    BY <2>2, <2>3, <2>4
<1>19. CASE UNCHANGED allVars
  <2>1. UNCHANGED <<vars, stopping, due, pc, todo, refreshPending>>
    BY <1>19 DEF allVars, refreshVars
  <2> QED
    BY <1>5, <2>1 DEF Sees
<1> QED
  BY <1>6, <1>7, <1>8, <1>9, <1>10, <1>11, <1>12, <1>13, <1>14, <1>15, <1>16, <1>17,
     <1>18, <1>19 DEF RefreshNext, Step

(* However requests, updates and changes of the lists overlap, and for any   *)
(* number of each: no request for a list is forgotten while the process goes *)
(* on.                                                                       *)
THEOREM NoRequestForgotten == RefreshSpec => []RefreshOwed
<1> DEFINE Types == RulesInv /\ WorkTypes
<1>1. RefreshInit => IInv /\ Types /\ OwedInv
  <2> SUFFICES ASSUME RefreshInit PROVE IInv /\ Types /\ OwedInv
    OBVIOUS
  <2>1. OwedInv
    BY DEF RefreshInit, Init, OwedInv, RefreshOwed, MutexFree
  <2> QED
    BY <2>1, StartTypes, InitRefresh
<1>2. IInv /\ Types /\ OwedInv /\ [RefreshNext]_allVars => (IInv /\ Types /\ OwedInv)'
  BY StepKeepsConfig, StepKeepsLists, StepKeepsRules, StepKeepsWork, StepOwed DEF IInv
<1>3. OwedInv => RefreshOwed
  BY DEF OwedInv
<1> QED
  BY <1>1, <1>2, <1>3, PTL DEF RefreshSpec

(* Any number of lists and of goroutines: a running update never takes a     *)
(* list twice, nor goes back on the one in hand.                             *)
THEOREM UpdatesAdvance == RefreshSpec => UpdateAdvances
<1> DEFINE Work(w) == <<pc[w], todo[w], cur[w], got[w]>>
           Nearer(w) == \/ pc[w] = "snapshot" /\ pc'[w] = "next"
                        \/ todo'[w] \subseteq todo[w] /\ todo'[w] # todo[w]
                        \/ todo'[w] = todo[w] /\ Ahead[pc'[w]] < Ahead[pc[w]]
           Advances == \A w \in Worker :
                         /\ pc[w] \in Running /\ pc'[w] \in Running
                         /\ Work(w)' # Work(w)
                         => Nearer(w)
<1>1. ASSUME Shapes, todo = [w \in Worker |-> todo[w]], [RefreshNext]_allVars
      PROVE  [Advances]_allVars
  <2> SUFFICES ASSUME RefreshNext, NEW w \in Worker, pc[w] \in Running, pc'[w] \in Running,
                      Work(w)' # Work(w)
               PROVE  Nearer(w)
    BY <1>1
  <2> USE <1>1 DEF Shapes, Running
  <2>1. CASE \E v \in Worker : Step(v) /\ v # w
    BY <2>1 DEF Step, Enter, Snapshot, Fetch, WriteList, PublishList, Finish, workVars
  <2>2. CASE Enter(w) \/ Finish(w)
    BY <2>2 DEF Enter, Finish, workVars
  <2>3. CASE Snapshot(w)
    BY <2>3 DEF Snapshot
  <2>4. ASSUME NEW id \in Catalog, NEW c, Fetch(w, id, c) PROVE Nearer(w)
    BY <2>4 DEF Fetch
  <2>5. CASE WriteList(w) \/ PublishList(w)
    BY <2>5 DEF WriteList, PublishList, Ahead
  <2>6. ASSUME NEW v \in Worker, NEW at, NEW c, Spawn(v, at, c) PROVE FALSE
    BY <2>6 DEF Spawn
  <2>7. CASE BootAll \/ CrashAll \/ Stop \/ PublishConfig \/ UNCHANGED refreshVars
    BY <2>7 DEF BootAll, CrashAll, Stop, PublishConfig, refreshVars, workVars
  <2> QED
    BY <2>1, <2>2, <2>3, <2>4, <2>5, <2>6, <2>7
    DEF RefreshNext, Step, AskingRoute, RefreshRequest, ScheduledRefresh
<1> DEFINE Types == RulesInv /\ WorkTypes
<1>2. RefreshInit => Types
  BY StartTypes
<1>3. IInv /\ Types /\ [RefreshNext]_allVars => Types'
  BY StepKeepsRules, StepKeepsWork
<1>4. IInv /\ Types => Shapes /\ todo = [w \in Worker |-> todo[w]]
  BY DEF IInv, WorkTypes
<1> QED
  BY <1>1, <1>2, <1>3, <1>4, AlwaysIInv, PTL DEF RefreshSpec, UpdateAdvances
=============================================================================
