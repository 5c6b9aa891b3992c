----------------------------- MODULE DomainPolicy -----------------------------
(***************************************************************************)
(* The pure core of QuietDNS: how a domain name is normalised, when it may *)
(* enter a list, and how the two policy maps decide a query (lists.go and  *)
(* rebuildLocked and policy in store.go).                                  *)
(*                                                                         *)
(* A name is the sequence of its labels, strings.Split(name, "."), most    *)
(* specific label first: the root dot of "ads.test." is a trailing empty   *)
(* label, and the empty string is <<EmptyLabel>>.                          *)
(***************************************************************************)
EXTENDS Naturals, Sequences

CONSTANTS
  Label,         \* the labels in use, upper- and lower-case spellings apart
  EmptyLabel,    \* the label of zero characters
  BadLabel,      \* labels over 63 characters, with an edge hyphen or a foreign character
  lower,         \* lower[l]: strings.ToLower of a label
  IPAddress,     \* the names net.ParseIP accepts
  LongName,      \* the names over 253 characters
  LongLine,      \* a line of a list file too long for the scanner, over 1 MiB
  LocalName,     \* localhost.localdomain, which a hosts file may contain
  ReservedName   \* blocked.test

ASSUME LabelAssumption ==
  /\ EmptyLabel \in Label
  /\ BadLabel \subseteq Label \ {EmptyLabel}
  /\ lower \in [Label -> Label]
  /\ \A l \in Label : lower[lower[l]] = lower[l]
  /\ \A l \in Label : lower[l] = EmptyLabel <=> l = EmptyLabel

-----------------------------------------------------------------------------
(* Mutant: the root dot stays. *)
canonical_RootDot(name) == [i \in 1..Len(name) |-> lower[name[i]]]

(* Lower case, without one trailing root dot. *)
canonical(name) ==
  LET low == [i \in 1..Len(name) |-> lower[name[i]]]
  IN  IF Len(low) > 1 /\ low[Len(low)] = EmptyLabel
      THEN SubSeq(low, 1, Len(low) - 1)
      ELSE low

(* The names that rules and lists may hold. *)
validDomain(name) ==
  /\ name = canonical(name)
  /\ Len(name) >= 2
  /\ name \notin IPAddress \cup LongName
  /\ \A i \in 1..Len(name) : name[i] # EmptyLabel /\ name[i] \notin BadLabel

(* The names the code itself holds: the one it leaves out of every list, and *)
(* the one it always blocks.                                                 *)
ASSUME NameAssumption ==
  /\ \A n \in LocalName : n[Len(n)] # EmptyLabel
  /\ validDomain(ReservedName) /\ ReservedName \in Seq(Label)

(* The loop looks the name up, then what follows each of its dots, until     *)
(* nothing is left.                                                          *)
matches(list, name) ==
  LET n == canonical(name)
  IN  \E i \in 1..Len(n) : SubSeq(n, i, Len(n)) \in list \ {<<EmptyLabel>>}

(* The error of parseList: no list, since the root is no domain.             *)
Invalid == {<<EmptyLabel>>}

(* Mutant: scanner.Err is not asked, so the file ends at the long line. *)
parseList_Truncated(lines) ==
  LET fields(line) == IF Len(line) > 0 /\ line[1] \in IPAddress
                      THEN Tail(line) ELSE line
      names == UNION {{canonical(fields(l)[i]) : i \in 1..Len(fields(l))} : l \in lines \ {LongLine}}
      kept  == {n \in names : Len(n) >= 2 /\ n \notin LocalName}
  IN  IF \A n \in kept : validDomain(n) THEN kept ELSE Invalid

(* A list file is a set of lines, a line the sequence of its fields with the *)
(* comment cut off. A leading address is the column of a hosts file; a       *)
(* single-label field is skipped; any other field that is no valid domain    *)
(* rejects the whole file, and so does a line the scanner cannot hold,       *)
(* whatever is on it: scanning stops there and scanner.Err reports it.       *)
parseList(lines) ==
  LET fields(line) == IF Len(line) > 0 /\ line[1] \in IPAddress
                      THEN Tail(line) ELSE line
      names == UNION {{canonical(fields(l)[i]) : i \in 1..Len(fields(l))} : l \in lines}
      kept  == {n \in names : Len(n) >= 2 /\ n \notin LocalName}
  IN  IF LongLine \notin lines /\ \A n \in kept : validDomain(n) THEN kept ELSE Invalid

-----------------------------------------------------------------------------
(* rebuildLocked: rules is a sequence of records [domain, kind]; lists maps  *)
(* every source to the set of names of its active list.                      *)
RuleDomains(rules, kinds) ==
  {rules[i].domain : i \in {j \in DOMAIN rules : rules[j].kind \in kinds}}

BlockedNames(sources, lists, rules) ==
  {ReservedName} \cup (UNION {lists[id] : id \in sources})
                 \cup RuleDomains(rules, {"block"})

AllowedNames(rules) == RuleDomains(rules, {"allow"})

(* Mutant: a block entry is looked up first. *)
Decision_BlockFirst(blockedMap, allowedMap, paused, name) ==
  LET blocked == ~paused /\ matches(blockedMap, name)
  IN  [blocked |-> blocked, allowed |-> ~blocked /\ matches(allowedMap, name)]

(* policy: what the resolver is told about a name. *)
Decision(blockedMap, allowedMap, paused, name) ==
  LET allowed == matches(allowedMap, name)
  IN  [blocked |-> ~paused /\ ~allowed /\ matches(blockedMap, name),
       allowed |-> allowed]
=============================================================================
