------------------------------- MODULE PureParts -------------------------------
(***************************************************************************)
(* Inputs of DomainPolicy and of Chart as states, part by part. For the    *)
(* policy a list file, a rule and a pause change one at a time, and the    *)
(* invariants compare the walk of matches with a direct reading of what a  *)
(* rule or a list entry covers. For the chart buckets arrive and two       *)
(* clocks run, and the invariant compares headline and points with the     *)
(* buckets of an hour.                                                     *)
(***************************************************************************)
EXTENDS DomainPolicy, Chart, FiniteSets

CONSTANTS
  Word,        \* what a list file may hold on a line of its own
  Line,        \* other lines it may hold, one too long to be read among them
  Ruled,       \* the domains a custom rule may name, once spelled canonically
  Asked,       \* the names asked
  Bucket,      \* the buckets a history may hold
  MaxLines, MaxRules, MaxBuckets, MaxTime   \* bounds

(* Of the labels of a name that a DNS message can carry, only the last may   *)
(* be empty: the root.                                                       *)
ASSUME InputAssumption ==
  /\ Word \subseteq Seq(Label)
  /\ Line \subseteq Seq(Seq(Label)) \cup {LongLine}
  /\ Ruled \subseteq Seq(Label)
  /\ Asked \subseteq Seq(Label)
  /\ \A n \in Asked : \A i \in 1..Len(n) - 1 : n[i] # EmptyLabel
  /\ \A b \in Bucket : b.time \in Nat
  /\ MaxTime \in Nat

VARIABLES
  part,     \* whose input this is, "policy" or "chart"
  lines,    \* the list file
  rules,    \* the custom rules
  paused,   \* whether protection is paused
  query,    \* the name asked
  buckets,  \* s.history.Buckets
  serverNow, browserNow

policyVars == <<lines, rules, paused, query>>
chartVars  == <<buckets, serverNow, browserNow>>
vars == <<part, policyVars, chartVars>>

Rule == [domain : {n \in Ruled : validDomain(n)}, kind : {"allow", "block"}]

Init ==
  /\ part \in {"policy", "chart"}
  /\ lines \in IF part = "chart" THEN {{}} ELSE {{<<w>>} : w \in Word}
  /\ query \in IF part = "chart" THEN {<<EmptyLabel>>} ELSE Asked
  /\ rules = << >> /\ paused = FALSE
  /\ buckets = << >> /\ serverNow = 0 /\ browserNow = 0

AddLine(l) ==
  /\ part = "policy" /\ Cardinality(lines) < MaxLines
  /\ lines' = lines \cup {l}
  /\ UNCHANGED <<part, rules, paused, query, chartVars>>

AddRule(r) ==
  /\ part = "policy" /\ Len(rules) < MaxRules
  /\ rules' = Append(rules, r)
  /\ UNCHANGED <<part, lines, paused, query, chartVars>>

TogglePause ==
  /\ part = "policy"
  /\ paused' = ~paused
  /\ UNCHANGED <<part, lines, rules, query, chartVars>>

(* Buckets arrive in any order, twice for one period too. *)
AddBucket(b) ==
  /\ part = "chart" /\ Len(buckets) < MaxBuckets
  /\ buckets' = Append(buckets, b)
  /\ UNCHANGED <<part, policyVars, serverNow, browserNow>>

ServerTick ==
  /\ part = "chart"
  /\ serverNow' = (serverNow + 1) % (MaxTime + 1)
  /\ UNCHANGED <<part, policyVars, buckets, browserNow>>

BrowserTick ==
  /\ part = "chart"
  /\ browserNow' = (browserNow + 1) % (MaxTime + 1)
  /\ UNCHANGED <<part, policyVars, buckets, serverNow>>

Next ==
  \/ \E l \in Line : AddLine(l)
  \/ \E r \in Rule : AddRule(r)
  \/ TogglePause
  \/ \E b \in Bucket : AddBucket(b)
  \/ ServerTick \/ BrowserTick

Spec == Init /\ [][Next]_vars

-----------------------------------------------------------------------------
(* How a reader spells a name out: lower case, every trailing dot gone. *)
Plain(n) ==
  LET last == CHOOSE k \in 0..Len(n) :
                /\ \A i \in k + 1..Len(n) : n[i] = EmptyLabel
                /\ k = 0 \/ n[k] # EmptyLabel
  IN  [i \in 1..last |-> lower[n[i]]]

(* q is d itself or one of its subdomains. *)
SameOrBelow(q, d) ==
  /\ Len(Plain(q)) >= Len(Plain(d))
  /\ \A i \in 0..Len(Plain(d)) - 1 :
       Plain(q)[Len(Plain(q)) - i] = Plain(d)[Len(Plain(d)) - i]

(* What a file's author wrote as an entry: not the address of a hosts line.  *)
Written ==
  UNION {{l[i] : i \in {j \in 1..Len(l) : j > 1 \/ l[1] \notin IPAddress}} :
           l \in lines \ {LongLine}}

(* A list entry, however its file spells it, covers exactly the name it      *)
(* spells and that name's subdomains, however the query spells them; the     *)
(* address column of a hosts line and a bare host name cover nothing.        *)
(* (parseList against matches, both through canonical.)                      *)
EntryCoversItsSubtree ==
  LET parsed  == parseList(lines)
      entries == {w \in Written : Len(Plain(w)) > 1 /\ Plain(w) \notin LocalName}
  IN  parsed # Invalid =>
        (matches(parsed, query) <=> \E e \in entries : SameOrBelow(query, e))

(* A file is refused for exactly two reasons: one of its entries cannot be a *)
(* domain (an empty inner label, a label the syntax excludes, a bare         *)
(* address), or a line is too long to be read, so that what follows it is    *)
(* never seen. A refused file never replaces an active list, so a file       *)
(* taken as good is one that was read to its end (parseList, scanner.Err).   *)
RefusesOnlyBadFiles ==
  LET bad(w) == /\ canonical(w) \notin LocalName
                /\ Len(canonical(w)) > 1
                /\ \/ \E i \in 1..Len(canonical(w)) :
                        canonical(w)[i] \in BadLabel \cup {EmptyLabel}
                   \/ Plain(w) \in IPAddress \cup LongName
  IN  parseList(lines) = Invalid <=>
        LongLine \in lines \/ \E w \in Written : bad(w)

(* "Allow rules override blocklists and block rules. Every rule includes    *)
(* the domain's subdomains" (app.js): an allow rule at or above the name    *)
(* wins over any entry, however specific, and a pause over everything.      *)
AllowRuleWins ==
  LET lists == [s \in {"list"} |-> IF parseList(lines) = Invalid THEN {} ELSE parseList(lines)]
      d == Decision(BlockedNames({"list"}, lists, rules), AllowedNames(rules), paused, query)
      above(kind) == \E i \in DOMAIN rules :
                       rules[i].kind = kind /\ SameOrBelow(query, rules[i].domain)
  IN  /\ d.allowed <=> above("allow")
      /\ d.blocked <=> /\ ~paused
                       /\ ~above("allow")
                       /\ \/ above("block")
                          \/ SameOrBelow(query, ReservedName)
                          \/ \E e \in lists["list"] : SameOrBelow(query, e)

(* "Hourly DNS query totals and blocked queries over the last 24 hours"      *)
(* (app.js): each point holds what was counted in its hour, no bucket is in  *)
(* two points and none is invented, however the clocks of server and browser *)
(* differ. When they agree, the chart misses of the headline only the        *)
(* buckets of the hour that is not 24 hours old in full.                     *)
ChartCountsEachBucketOnce ==
  LET o       == overview(buckets, serverNow)
      points  == chartPoints(buckets, o.buckets, browserNow)
      hour(t) == t \div Hour
      of(h)   == {k \in DOMAIN buckets : /\ hour(buckets[k].time) = h
                                         /\ serverNow - buckets[k].time < Hours * Hour}
      first   == hour(browserNow) - Hours + 1
      charted == UNION {of(h) : h \in first..first + Hours - 1}
  IN  /\ \A i \in 1..Hours : /\ points[i].time = (first + i - 1) * Hour
                            /\ points[i].total = Total(buckets, of(first + i - 1))
                            /\ points[i].blocked = Blocked(buckets, of(first + i - 1))
      /\ serverNow = browserNow /\ (\A k \in DOMAIN buckets : buckets[k].time <= serverNow) =>
           /\ o.total = Total(buckets, charted \cup of(first - 1))
           /\ o.blocked = Blocked(buckets, charted \cup of(first - 1))
=============================================================================
