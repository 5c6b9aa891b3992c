---------------------------- MODULE PurePartsProofs ----------------------------
(***************************************************************************)
(* What the policy decides and what the chart shows, for names of any      *)
(* length over any labels, files and rules of any number, and any hours.   *)
(***************************************************************************)
EXTENDS PureParts, SequenceTheorems, TLAPS

-----------------------------------------------------------------------------
(* canonical leaves a name's lower-case labels, without a trailing empty one *)
(* if it has another.                                                        *)
LEMMA CanonicalShape ==
  ASSUME NEW n \in Seq(Label)
  PROVE  \E m \in 0..Len(n) :
           /\ canonical(n) = [i \in 1..m |-> lower[n[i]]]
           /\ \/ m = Len(n) /\ (Len(n) <= 1 \/ n[Len(n)] # EmptyLabel)
              \/ m = Len(n) - 1 /\ m >= 1 /\ n[Len(n)] = EmptyLabel
<1> DEFINE low == [i \in 1..Len(n) |-> lower[n[i]]]
<1>1. Len(n) \in Nat /\ \A i \in 1..Len(n) : n[i] \in Label
  OBVIOUS
<1>2. \A i \in 1..Len(n) : /\ low[i] \in Label
                           /\ low[i] = EmptyLabel <=> n[i] = EmptyLabel
  BY <1>1, LabelAssumption
<1>3. low \in Seq(Label) /\ Len(low) = Len(n)
  <2>1. low \in [1..Len(n) -> Label]
    BY <1>2
  <2> HIDE DEF low
  <2> QED
    BY <1>1, <2>1
<1>4. canonical(n) = IF Len(low) > 1 /\ low[Len(low)] = EmptyLabel
                     THEN SubSeq(low, 1, Len(low) - 1) ELSE low
  BY DEF canonical
<1>5. CASE Len(n) > 1 /\ n[Len(n)] = EmptyLabel
  <2> DEFINE m == Len(n) - 1
  <2>1. m \in 0..Len(n) /\ m >= 1 /\ Len(n) \in 1..Len(n)
    BY <1>1, <1>5
  <2>2. canonical(n) = SubSeq(low, 1, m)
    BY <1>2, <1>3, <1>4, <1>5, <2>1
  <2>3. SubSeq(low, 1, m) = [i \in 1..m |-> lower[n[i]]]
    <3>1. \A i \in 1..m : i \in 1..Len(n)
      BY <1>1
    <3>2. /\ Len(SubSeq(low, 1, m)) = m /\ SubSeq(low, 1, m) \in Seq(Label)
          /\ \A i \in 1..m : SubSeq(low, 1, m)[i] = low[i]
      <4>1. \A i \in 1..m : low[i] \in Label
        BY <1>2, <3>1
      <4> HIDE DEF low
      <4> QED
        BY <1>3, <2>1, <4>1, SubSeqProperties
    <3>3. \A i \in 1..m : SubSeq(low, 1, m)[i] = lower[n[i]]
      BY <3>1, <3>2
    <3> DEFINE x == SubSeq(low, 1, m)
    <3> HIDE DEF x, m
    <3>4. x = [i \in 1..m |-> x[i]]
      BY <3>2 DEF x
    <3> QED
      BY <3>3, <3>4 DEF x
  <2> HIDE DEF m
  <2>4. canonical(n) = [i \in 1..m |-> lower[n[i]]]
    BY <2>2, <2>3
  <2> QED
    BY <1>5, <2>1, <2>4 DEF m
<1>6. CASE ~(Len(n) > 1 /\ n[Len(n)] = EmptyLabel)
  <2>1. canonical(n) = low
    <3>1. ~(Len(n) > 1 /\ low[Len(n)] = EmptyLabel)
      <4>1. Len(n) > 1 => Len(n) \in 1..Len(n)
        BY <1>1
      <4> HIDE DEF low
      <4> QED
        BY <1>2, <1>6, <4>1
    <3> HIDE DEF low
    <3> QED
      BY <1>3, <1>4, <3>1
  <2>2. Len(n) \in 0..Len(n) /\ (Len(n) <= 1 \/ n[Len(n)] # EmptyLabel)
    BY <1>1, <1>6
  <2> QED
    BY <2>1, <2>2
<1> QED
  BY <1>5, <1>6

(* A name that canonical returns is one.                                     *)
LEMMA CanonicalType ==
  ASSUME NEW n \in Seq(Label)
  PROVE  canonical(n) \in Seq(Label)
<1>1. PICK m \in 0..Len(n) : canonical(n) = [i \in 1..m |-> lower[n[i]]]
  BY CanonicalShape
<1>2. \A i \in 1..m : lower[n[i]] \in Label
  BY LabelAssumption
<1> DEFINE c == [i \in 1..m |-> lower[n[i]]]
<1>3. c \in [1..m -> Label]
  BY <1>2
<1> HIDE DEF c
<1>4. c \in Seq(Label)
  BY <1>3
<1> QED
  BY <1>1, <1>4 DEF c

(* What Plain chooses, given the place of the last label that is not empty.  *)
LEMMA PlainIs ==
  ASSUME NEW n \in Seq(Label), NEW m \in 0..Len(n),
         \A i \in m + 1..Len(n) : n[i] = EmptyLabel,
         m = 0 \/ n[m] # EmptyLabel
  PROVE  Plain(n) = [i \in 1..m |-> lower[n[i]]]
<1> DEFINE P(k) == /\ \A i \in k + 1..Len(n) : n[i] = EmptyLabel
                   /\ k = 0 \/ n[k] # EmptyLabel
           last == CHOOSE k \in 0..Len(n) : P(k)
<1>1. \A k \in 0..Len(n) : P(k) => k = m
  OBVIOUS
<1>2. P(m)
  OBVIOUS
<1>3. last = m
  <2> HIDE DEF P
  <2> QED
    BY <1>1, <1>2
<1>4. Plain(n) = [i \in 1..last |-> lower[n[i]]]
  BY DEF Plain
<1> QED
  BY <1>3, <1>4

(* Where canonical leaves no trailing empty label, a reader reads the same.  *)
LEMMA PlainIsCanonical ==
  ASSUME NEW n \in Seq(Label), NEW c, c = canonical(n),
         Len(c) > 0, c[Len(c)] # EmptyLabel
  PROVE  Plain(n) = c
<1>1. PICK m \in 0..Len(n) :
        /\ c = [i \in 1..m |-> lower[n[i]]]
        /\ \/ m = Len(n) /\ (Len(n) <= 1 \/ n[Len(n)] # EmptyLabel)
           \/ m = Len(n) - 1 /\ m >= 1 /\ n[Len(n)] = EmptyLabel
  BY CanonicalShape
<1>2. Len(c) = m
  BY <1>1
<1>3. m \in 1..Len(n) /\ n[m] \in Label /\ c[m] = lower[n[m]]
  BY <1>1, <1>2
<1>4. n[m] # EmptyLabel
  BY <1>2, <1>3, LabelAssumption
<1>5. \A i \in m + 1..Len(n) : n[i] = EmptyLabel
  BY <1>1
<1> QED
  BY <1>1, <1>3, <1>4, <1>5, PlainIs

(* A valid domain reads as it is written.                                    *)
LEMMA ValidIsPlain ==
  ASSUME NEW d \in Seq(Label), validDomain(d)
  PROVE  Plain(d) = d /\ canonical(d) = d /\ Len(d) >= 2
<1>1. d = canonical(d) /\ Len(d) >= 2 /\ Len(d) \in 1..Len(d)
  BY DEF validDomain
<1>2. d[Len(d)] # EmptyLabel
  BY <1>1 DEF validDomain
<1> QED
  BY <1>1, <1>2, PlainIsCanonical

-----------------------------------------------------------------------------
(* A name as it may be asked: no empty label but the root.                   *)
Askable(q) == q \in Seq(Label) /\ \A i \in 1..Len(q) - 1 : q[i] # EmptyLabel

(* The walk along the dots of an askable name meets a domain exactly when    *)
(* the name is the domain or one of its subdomains.                          *)
LEMMA WalkMeetsDomain ==
  ASSUME NEW q, Askable(q), NEW d \in Seq(Label), Len(d) >= 2, Plain(d) = d,
         NEW c, c = canonical(q)
  PROVE  SameOrBelow(q, d) <=> \E i \in 1..Len(c) : SubSeq(c, i, Len(c)) = d
<1>1. c \in Seq(Label) /\ Len(c) \in Nat /\ Len(d) \in Nat
  BY CanonicalType DEF Askable
<1>2. PICK m \in 0..Len(q) :
        /\ c = [i \in 1..m |-> lower[q[i]]]
        /\ \/ m = Len(q) /\ (Len(q) <= 1 \/ q[Len(q)] # EmptyLabel)
           \/ m = Len(q) - 1 /\ m >= 1 /\ q[Len(q)] = EmptyLabel
  BY CanonicalShape DEF Askable
<1>3. Len(c) = m
  BY <1>1, <1>2
<1>4. \A i \in 1..Len(c) :
        /\ Len(SubSeq(c, i, Len(c))) = Len(c) - i + 1
        /\ SubSeq(c, i, Len(c)) \in Seq(Label)
        /\ \A j \in 1..Len(c) - i + 1 : SubSeq(c, i, Len(c))[j] = c[i + j - 1]
  <2> SUFFICES ASSUME NEW i \in 1..Len(c)
               PROVE  /\ Len(SubSeq(c, i, Len(c))) = Len(c) - i + 1
                      /\ SubSeq(c, i, Len(c)) \in Seq(Label)
                      /\ \A j \in 1..Len(c) - i + 1 : SubSeq(c, i, Len(c))[j] = c[i + j - 1]
    OBVIOUS
  <2>1. \A j \in i..Len(c) : c[j] \in Label
    BY <1>1
  <2> QED
    BY <1>1, <2>1, SubSeqProperties
<1>5. CASE m = 0 \/ q[m] = EmptyLabel
  <2>1. m <= 1
    BY <1>2, <1>5 DEF Askable
  <2>2. ~ \E i \in 1..Len(c) : SubSeq(c, i, Len(c)) = d
    BY <1>1, <1>3, <1>4, <2>1
  <2>3. Plain(q) = [i \in 1..0 |-> lower[q[i]]]
    <3>1. \A i \in 0 + 1..Len(q) : q[i] = EmptyLabel
      BY <1>2, <1>5, <2>1 DEF Askable
    <3>2. 0 \in 0..Len(q)
      BY DEF Askable
    <3> QED
      BY <3>1, <3>2, PlainIs DEF Askable
  <2>4. Len(Plain(q)) = 0
    BY <2>3
  <2> QED
    BY <1>1, <2>2, <2>4 DEF SameOrBelow
<1>6. CASE m # 0 /\ q[m] # EmptyLabel
  <2>1. m \in 1..Len(q) /\ c[m] # EmptyLabel
    BY <1>2, <1>6, LabelAssumption DEF Askable
  <2>2. Plain(q) = c
    BY <1>3, <2>1, PlainIsCanonical DEF Askable
  <2>3. SameOrBelow(q, d) <=> /\ Len(c) >= Len(d)
                              /\ \A i \in 0..Len(d) - 1 : c[Len(c) - i] = d[Len(d) - i]
    BY <2>2 DEF SameOrBelow
  <2>4. ASSUME SameOrBelow(q, d) PROVE \E i \in 1..Len(c) : SubSeq(c, i, Len(c)) = d
    <3> DEFINE k == Len(c) - Len(d) + 1
               s == SubSeq(c, k, Len(c))
    <3>1. k \in 1..Len(c) /\ Len(c) - k + 1 = Len(d)
      BY <1>1, <2>3, <2>4
    <3>2. Len(s) = Len(d) /\ s \in Seq(Label)
          /\ \A j \in 1..Len(d) : s[j] = c[k + j - 1]
      BY <1>4, <3>1
    <3>3. \A j \in 1..Len(d) : c[k + j - 1] = d[j]
      <4> SUFFICES ASSUME NEW j \in 1..Len(d) PROVE c[k + j - 1] = d[j]
        OBVIOUS
      <4>1. /\ Len(d) - j \in 0..Len(d) - 1
            /\ Len(c) - (Len(d) - j) = k + j - 1 /\ Len(d) - (Len(d) - j) = j
        BY <1>1
      <4>2. c[Len(c) - (Len(d) - j)] = d[Len(d) - (Len(d) - j)]
        BY <2>3, <2>4, <4>1
      <4> HIDE DEF k
      <4> QED
        BY <4>1, <4>2
    <3> HIDE DEF k, s
    <3>4. s = d
      BY <1>1, <3>2, <3>3
    <3> QED
      BY <3>1, <3>4 DEF s
  <2>5. ASSUME NEW k \in 1..Len(c), SubSeq(c, k, Len(c)) = d PROVE SameOrBelow(q, d)
    <3>1. Len(d) = Len(c) - k + 1 /\ \A j \in 1..Len(d) : d[j] = c[k + j - 1]
      BY <1>4, <2>5
    <3>2. \A i \in 0..Len(d) - 1 : c[Len(c) - i] = d[Len(d) - i]
      <4> SUFFICES ASSUME NEW i \in 0..Len(d) - 1 PROVE c[Len(c) - i] = d[Len(d) - i]
        OBVIOUS
      <4>1. Len(d) - i \in 1..Len(d) /\ k + (Len(d) - i) - 1 = Len(c) - i
        BY <1>1, <3>1
      <4>2. d[Len(d) - i] = c[k + (Len(d) - i) - 1]
        BY <3>1, <4>1
      <4> QED
        BY <4>1, <4>2
    <3>3. Len(c) >= Len(d)
      BY <1>1, <3>1
    <3> QED
      BY <2>3, <3>2, <3>3
  <2> QED
    BY <2>4, <2>5
<1> QED
  BY <1>5, <1>6

(* matches: an askable name is on a list of domains exactly when it is at or *)
(* below one of them.                                                        *)
LEMMA MatchesDomains ==
  ASSUME NEW q, Askable(q), NEW list,
         \A d \in list : d \in Seq(Label) /\ Len(d) >= 2 /\ Plain(d) = d
  PROVE  matches(list, q) <=> \E d \in list : SameOrBelow(q, d)
<1> DEFINE c == canonical(q)
<1>1. \A d \in list : SameOrBelow(q, d) <=> \E i \in 1..Len(c) : SubSeq(c, i, Len(c)) = d
  BY WalkMeetsDomain
<1>2. <<EmptyLabel>> \notin list
  <2>1. \A d \in list : Len(d) >= 2
    OBVIOUS
  <2>2. Len(<<EmptyLabel>>) = 1
    OBVIOUS
  <2>3. ~ (1 >= 2)
    OBVIOUS
  <2> QED
    BY <2>1, <2>2, <2>3, Zenon
<1>3. list \ {<<EmptyLabel>>} = list
  BY <1>2
<1>4. matches(list, q) <=> \E i \in 1..Len(c) : SubSeq(c, i, Len(c)) \in list
  BY <1>3 DEF matches
<1> HIDE DEF c
<1> QED
  BY <1>1, <1>4


-----------------------------------------------------------------------------
(* The inputs the states hold.                                               *)
FileOK == \A l \in lines \ {LongLine} : l \in Seq(Seq(Label))

InputsOK ==
  /\ FileOK
  /\ rules \in Seq(Rule)
  /\ Askable(query)
  /\ buckets \in Seq(Bucket)
  /\ serverNow \in Nat /\ browserNow \in Nat

(* The names a file is searched for, and those of them that must be valid.   *)
Found == {canonical(w) : w \in Written}
Kept  == {n \in Found : Len(n) >= 2 /\ n \notin LocalName}

(* What is written is a name.                                                *)
LEMMA WrittenType ==
  ASSUME FileOK
  PROVE  Written \subseteq Seq(Label)
<1> SUFFICES ASSUME NEW l \in lines \ {LongLine}, NEW i \in 1..Len(l) PROVE l[i] \in Seq(Label)
  BY DEF Written
<1> QED
  BY DEF FileOK

(* The fields of a line are what is written on it.                           *)
LEMMA FieldsAreWritten ==
  ASSUME NEW l \in Seq(Seq(Label))
  PROVE  LET f == IF Len(l) > 0 /\ l[1] \in IPAddress THEN Tail(l) ELSE l
         IN  {f[i] : i \in 1..Len(f)} =
               {l[i] : i \in {j \in 1..Len(l) : j > 1 \/ l[1] \notin IPAddress}}
<1> DEFINE f == IF Len(l) > 0 /\ l[1] \in IPAddress THEN Tail(l) ELSE l
           J == {j \in 1..Len(l) : j > 1 \/ l[1] \notin IPAddress}
<1>1. Len(l) \in Nat
  OBVIOUS
<1>2. CASE Len(l) > 0 /\ l[1] \in IPAddress
  <2>1. Len(f) = Len(l) - 1 /\ \A i \in 1..Len(f) : f[i] = l[i + 1]
    BY <1>2
  <2> HIDE DEF f
  <2>2. \A i \in 1..Len(f) : i + 1 \in J
    BY <1>1, <2>1
  <2>3. \A j \in J : j - 1 \in 1..Len(f) /\ l[j] = f[j - 1]
    BY <1>1, <1>2, <2>1
  <2> HIDE DEF J
  <2>4. \A i \in 1..Len(f) : \E j \in J : f[i] = l[j]
    BY <2>1, <2>2
  <2>5. \A j \in J : \E i \in 1..Len(f) : l[j] = f[i]
    BY <2>3
  <2>6. {f[i] : i \in 1..Len(f)} = {l[i] : i \in J}
    <3> DEFINE X == {f[i] : i \in 1..Len(f)}
               Y == {l[i] : i \in J}
    <3>1. X \subseteq Y
      BY <2>4
    <3>2. Y \subseteq X
      BY <2>5
    <3> HIDE DEF X, Y
    <3>3. X = Y
      BY <3>1, <3>2
    <3> QED
      BY <3>3 DEF X, Y
  <2> QED
    BY <2>6 DEF f, J
<1>3. CASE ~(Len(l) > 0 /\ l[1] \in IPAddress)
  <2>1. f = l /\ J = 1..Len(l)
    BY <1>1, <1>3
  <2>2. {f[i] : i \in 1..Len(f)} = {l[i] : i \in J}
    BY <2>1
  <2> QED
    BY <2>2 DEF f, J
<1> QED
  BY <1>2, <1>3

(* parseList keeps the names written, or refuses the file for one of them or *)
(* for a line it cannot read.                                                *)
LEMMA ParseIs ==
  ASSUME FileOK
  PROVE  /\ parseList(lines) = IF LongLine \notin lines /\ \A n \in Kept : validDomain(n)
                               THEN Kept ELSE Invalid
         /\ Kept \subseteq Seq(Label) /\ Kept # Invalid
<1> DEFINE fields(l) == IF Len(l) > 0 /\ l[1] \in IPAddress THEN Tail(l) ELSE l
           names == UNION {{canonical(fields(l)[i]) : i \in 1..Len(fields(l))} : l \in lines}
           kept == {n \in names : Len(n) >= 2 /\ n \notin LocalName}
<1>1. ASSUME LongLine \notin lines PROVE names = Found
  <2> USE <1>1
  <2>1. \A l \in lines :
          {fields(l)[i] : i \in 1..Len(fields(l))} =
            {l[i] : i \in {j \in 1..Len(l) : j > 1 \/ l[1] \notin IPAddress}}
    <3> SUFFICES ASSUME NEW l \in lines
                 PROVE {fields(l)[i] : i \in 1..Len(fields(l))} =
                         {l[i] : i \in {j \in 1..Len(l) : j > 1 \/ l[1] \notin IPAddress}}
      OBVIOUS
    <3>1. l \in Seq(Seq(Label))
      BY DEF FileOK
    <3> QED
      BY <3>1, FieldsAreWritten
  <2>2. ASSUME NEW n \in names PROVE n \in Found
    <3>1. PICK l \in lines : \E i \in 1..Len(fields(l)) : n = canonical(fields(l)[i])
      OBVIOUS
    <3>2. PICK i \in 1..Len(fields(l)) : n = canonical(fields(l)[i])
      BY <3>1
    <3> HIDE DEF fields
    <3>3. fields(l)[i] \in Written
      BY <2>1 DEF Written
    <3> QED
      BY <3>2, <3>3 DEF Found
  <2>3. ASSUME NEW n \in Found PROVE n \in names
    <3>1. PICK w \in Written : n = canonical(w)
      BY DEF Found
    <3>2. PICK l \in lines :
            w \in {l[i] : i \in {j \in 1..Len(l) : j > 1 \/ l[1] \notin IPAddress}}
      BY DEF Written
    <3> HIDE DEF fields
    <3>3. PICK i \in 1..Len(fields(l)) : w = fields(l)[i]
      BY <2>1, <3>2
    <3>4. n \in {canonical(fields(l)[j]) : j \in 1..Len(fields(l))}
      BY <3>1, <3>3
    <3> QED
      BY <3>4
  <2> HIDE DEF names
  <2> QED
    BY <2>2, <2>3
<1>2. parseList(lines) = IF LongLine \notin lines /\ \A n \in kept : validDomain(n)
                         THEN kept ELSE Invalid
  BY DEF parseList
<1>3. LongLine \notin lines => kept = Kept
  <2> HIDE DEF names
  <2> QED
    BY <1>1 DEF Kept
<1>4. Kept \subseteq Seq(Label)
  BY WrittenType, CanonicalType DEF Kept, Found
<1>5. Kept # Invalid
  <2>1. <<EmptyLabel>> \in Invalid
    BY DEF Invalid
  <2>2. \A n \in Kept : Len(n) >= 2
    BY DEF Kept
  <2>3. Len(<<EmptyLabel>>) = 1 /\ ~ (1 >= 2)
    OBVIOUS
  <2> QED
    BY <2>1, <2>2, <2>3, Zenon
<1> HIDE DEF kept
<1> QED
  BY <1>2, <1>3, <1>4, <1>5

(* A list that was not refused is one of domains, read as they are written.  *)
LEMMA ListIsPlain ==
  ASSUME FileOK, parseList(lines) # Invalid
  PROVE  /\ parseList(lines) = Kept
         /\ \A d \in Kept : /\ d \in Seq(Label) /\ Len(d) >= 2 /\ Plain(d) = d
                            /\ validDomain(d)
<1>1. /\ parseList(lines) = Kept /\ Kept \subseteq Seq(Label)
      /\ \A n \in Kept : validDomain(n)
  BY ParseIs
<1> QED
  BY <1>1, ValidIsPlain

(* The inputs stay inputs.                                                   *)
LEMMA AlwaysInputs == Spec => []InputsOK
<1>1. Init => InputsOK
  <2> SUFFICES ASSUME Init PROVE InputsOK
    OBVIOUS
  <2>1. FileOK
    <3>1. \A w \in Word : <<w>> \in Seq(Seq(Label))
      BY InputAssumption
    <3>2. \A l \in lines : \E w \in Word : l = <<w>>
      BY DEF Init
    <3> QED
      BY <3>1, <3>2 DEF FileOK
  <2>2. Askable(query)
    <3>1. Askable(<<EmptyLabel>>)
      BY LabelAssumption DEF Askable
    <3>2. \A n \in Asked : Askable(n)
      BY InputAssumption DEF Askable
    <3> QED
      BY <3>1, <3>2 DEF Init
  <2> QED
    BY <2>1, <2>2 DEF Init, InputsOK
<1>2. InputsOK /\ [Next]_vars => InputsOK'
  <2> SUFFICES ASSUME InputsOK, [Next]_vars PROVE InputsOK'
    OBVIOUS
  <2> USE DEF InputsOK
  <2>1. ASSUME NEW l \in Line, AddLine(l) PROVE InputsOK'
    BY <2>1, InputAssumption DEF AddLine, FileOK, chartVars
  <2>2. ASSUME NEW r \in Rule, AddRule(r) PROVE InputsOK'
    BY <2>2 DEF AddRule, FileOK, chartVars
  <2>3. CASE TogglePause
    BY <2>3 DEF TogglePause, FileOK, chartVars
  <2>4. ASSUME NEW b \in Bucket, AddBucket(b) PROVE InputsOK'
    BY <2>4 DEF AddBucket, FileOK, policyVars
  <2>5. CASE ServerTick
    BY <2>5, InputAssumption DEF ServerTick, FileOK, policyVars
  <2>6. CASE BrowserTick
    BY <2>6, InputAssumption DEF BrowserTick, FileOK, policyVars
  <2>7. CASE UNCHANGED vars
    BY <2>7 DEF vars, policyVars, chartVars, FileOK
  <2> QED
    BY <2>1, <2>2, <2>3, <2>4, <2>5, <2>6, <2>7 DEF Next
<1> QED
  BY <1>1, <1>2, PTL DEF Spec

-----------------------------------------------------------------------------
(* A rule's domain reads as it is written, and a name is at or below one of  *)
(* the domains of a kind exactly when it is at or below such a rule's.       *)
LEMMA RuleDomainsArePlain ==
  ASSUME InputsOK, NEW kind
  PROVE  /\ \A d \in RuleDomains(rules, {kind}) :
              d \in Seq(Label) /\ Len(d) >= 2 /\ Plain(d) = d
         /\ (\E d \in RuleDomains(rules, {kind}) : SameOrBelow(query, d)) <=>
              \E i \in DOMAIN rules : rules[i].kind = kind /\ SameOrBelow(query, rules[i].domain)
<1>1. \A i \in DOMAIN rules : rules[i] \in Rule
  BY DEF InputsOK
<1>2. \A i \in DOMAIN rules : rules[i].domain \in Ruled /\ validDomain(rules[i].domain)
  <2> SUFFICES ASSUME NEW i \in DOMAIN rules
               PROVE  rules[i].domain \in Ruled /\ validDomain(rules[i].domain)
    OBVIOUS
  <2>1. rules[i].domain \in {n \in Ruled : validDomain(n)}
    BY <1>1 DEF Rule
  <2> QED
    BY <2>1
<1>3. \A i \in DOMAIN rules :
        /\ rules[i].domain \in Seq(Label) /\ Len(rules[i].domain) >= 2
        /\ Plain(rules[i].domain) = rules[i].domain
  BY <1>2, InputAssumption, ValidIsPlain
<1>4. \A d : d \in RuleDomains(rules, {kind}) <=>
               \E i \in DOMAIN rules : rules[i].kind = kind /\ d = rules[i].domain
  BY DEF RuleDomains
<1> QED
  BY <1>3, <1>4, ZenonT(40)

(* Decision, whatever the rules, the file and the name asked: an allow rule  *)
(* at or above the name wins over any entry, and a pause over everything.    *)
THEOREM AllowWins == Spec => []AllowRuleWins
<1>1. ASSUME InputsOK PROVE AllowRuleWins
  <2> DEFINE lists == [s \in {"list"} |-> IF parseList(lines) = Invalid THEN {} ELSE parseList(lines)]
             blockedMap == BlockedNames({"list"}, lists, rules)
             allowedMap == AllowedNames(rules)
             above(kind) == \E i \in DOMAIN rules :
                              rules[i].kind = kind /\ SameOrBelow(query, rules[i].domain)
             list == lists["list"]
  <2>1. \A d \in list : d \in Seq(Label) /\ Len(d) >= 2 /\ Plain(d) = d
    BY <1>1, ListIsPlain DEF InputsOK
  <2>2. /\ ReservedName \in Seq(Label) /\ Len(ReservedName) >= 2
        /\ Plain(ReservedName) = ReservedName
    BY NameAssumption, ValidIsPlain
  <2>3. blockedMap = {ReservedName} \cup list \cup RuleDomains(rules, {"block"})
    <3>1. UNION {lists[id] : id \in {"list"}} = list
      OBVIOUS
    <3> QED
      BY <3>1 DEF BlockedNames
  <2>4. matches(allowedMap, query) <=> above("allow")
    <3>1. /\ \A d \in allowedMap : d \in Seq(Label) /\ Len(d) >= 2 /\ Plain(d) = d
          /\ (\E d \in allowedMap : SameOrBelow(query, d)) <=> above("allow")
      BY <1>1, RuleDomainsArePlain DEF AllowedNames
    <3> HIDE DEF allowedMap, above
    <3>2. matches(allowedMap, query) <=> \E d \in allowedMap : SameOrBelow(query, d)
      BY <1>1, <3>1, MatchesDomains DEF InputsOK
    <3> QED
      BY <3>1, <3>2
  <2>5. matches(blockedMap, query) <=> \/ above("block") \/ SameOrBelow(query, ReservedName)
                                      \/ \E e \in list : SameOrBelow(query, e)
    <3> HIDE DEF list
    <3>1. \A d \in RuleDomains(rules, {"block"}) :
            d \in Seq(Label) /\ Len(d) >= 2 /\ Plain(d) = d
      BY <1>1, RuleDomainsArePlain
    <3>2. (\E d \in RuleDomains(rules, {"block"}) : SameOrBelow(query, d)) <=> above("block")
      BY <1>1, RuleDomainsArePlain
    <3>3. \A d \in blockedMap : d \in Seq(Label) /\ Len(d) >= 2 /\ Plain(d) = d
      BY <2>1, <2>2, <2>3, <3>1
    <3> HIDE DEF blockedMap, above
    <3>4. matches(blockedMap, query) <=> \E d \in blockedMap : SameOrBelow(query, d)
      BY <1>1, <3>3, MatchesDomains DEF InputsOK
    <3> QED
      BY <2>3, <3>2, <3>4
  <2>6. LET d == Decision(blockedMap, allowedMap, paused, query)
        IN  /\ d.allowed <=> matches(allowedMap, query)
            /\ d.blocked <=> /\ ~paused /\ ~matches(allowedMap, query)
                             /\ matches(blockedMap, query)
    <3> HIDE DEF blockedMap, allowedMap
    <3> QED
      BY Zenon DEF Decision
  <2>7. LET d == Decision(blockedMap, allowedMap, paused, query)
        IN  /\ d.allowed <=> above("allow")
            /\ d.blocked <=> /\ ~paused
                             /\ ~above("allow")
                             /\ \/ above("block")
                                \/ SameOrBelow(query, ReservedName)
                                \/ \E e \in list : SameOrBelow(query, e)
    <3> HIDE DEF blockedMap, allowedMap, above, list
    <3> QED
      BY <2>4, <2>5, <2>6, Zenon
  <2> QED
    BY <2>7, Zenon DEF AllowRuleWins
<1> QED
  BY <1>1, AlwaysInputs, PTL

-----------------------------------------------------------------------------
(* A name of which canonical leaves one label at most reads as one at most.  *)
LEMMA ShortReadsShort ==
  ASSUME NEW n \in Seq(Label), Len(canonical(n)) <= 1
  PROVE  ~(Len(Plain(n)) > 1)
<1>1. PICK m \in 0..Len(n) :
        /\ canonical(n) = [i \in 1..m |-> lower[n[i]]]
        /\ \/ m = Len(n) /\ (Len(n) <= 1 \/ n[Len(n)] # EmptyLabel)
           \/ m = Len(n) - 1 /\ m >= 1 /\ n[Len(n)] = EmptyLabel
  BY CanonicalShape
<1>2. m <= 1
  <2>1. Len([i \in 1..m |-> lower[n[i]]]) = m
    BY <1>1
  <2> QED
    BY <1>1, <2>1
<1>3. \A i \in m + 1..Len(n) : n[i] = EmptyLabel
  BY <1>1
<1>4. CASE m = 1 /\ n[1] # EmptyLabel
  <2>1. Plain(n) = [i \in 1..m |-> lower[n[i]]]
    BY <1>3, <1>4, PlainIs
  <2> QED
    BY <1>4, <2>1
<1>5. CASE m = 0 \/ n[1] = EmptyLabel
  <2>1. 0 \in 0..Len(n) /\ \A i \in 0 + 1..Len(n) : n[i] = EmptyLabel
    BY <1>2, <1>3, <1>5
  <2>2. Plain(n) = [i \in 1..0 |-> lower[n[i]]]
    BY <2>1, PlainIs
  <2> QED
    BY <2>2
<1> QED
  BY <1>2, <1>4, <1>5

(* canonical changes nothing more in what it has returned.                   *)
LEMMA CanonicalTwice ==
  ASSUME NEW n \in Seq(Label), NEW c, c = canonical(n),
         Len(c) > 0, c[Len(c)] # EmptyLabel
  PROVE  canonical(c) = c
<1>1. PICK m \in 0..Len(n) : c = [i \in 1..m |-> lower[n[i]]]
  BY CanonicalShape
<1>2. c \in Seq(Label) /\ Len(c) = m
  <2>1. c \in Seq(Label)
    BY CanonicalType
  <2> QED
    BY <1>1, <2>1
<1>3. PICK k \in 0..Len(c) :
        /\ canonical(c) = [i \in 1..k |-> lower[c[i]]]
        /\ \/ k = Len(c)
           \/ c[Len(c)] = EmptyLabel
  BY <1>2, CanonicalShape
<1>4. k = m
  BY <1>2, <1>3
<1>5. \A i \in 1..m : c[i] = lower[n[i]] /\ n[i] \in Label
  BY <1>1
<1>6. \A i \in 1..m : lower[c[i]] = c[i]
  BY <1>5, LabelAssumption
<1>7. canonical(c) = [i \in 1..m |-> c[i]]
  BY <1>3, <1>4, <1>6
<1>8. c = [i \in 1..m |-> c[i]]
  BY <1>1
<1> QED
  BY <1>7, <1>8

(* An entry of a file that was not refused is kept under the name it spells, *)
(* and whatever is kept is the name that an entry spells.                    *)
LEMMA KeptIsSpelled ==
  ASSUME FileOK, parseList(lines) # Invalid
  PROVE  /\ \A w \in Written : Len(Plain(w)) > 1 /\ Plain(w) \notin LocalName =>
              Plain(w) \in Kept
         /\ \A d \in Kept : \E w \in Written : Plain(w) = d
<1>1. Written \subseteq Seq(Label)
  BY WrittenType
<1>2. \A d \in Kept : d \in Seq(Label) /\ Len(d) >= 2 /\ d[Len(d)] # EmptyLabel
  <2>1. \A d \in Kept : d \in Seq(Label) /\ Len(d) >= 2 /\ validDomain(d)
    BY ListIsPlain
  <2> SUFFICES ASSUME NEW d \in Kept PROVE d[Len(d)] # EmptyLabel
    BY <2>1
  <2>2. Len(d) \in 1..Len(d)
    BY <2>1
  <2> QED
    BY <2>1, <2>2 DEF validDomain
<1>3. ASSUME NEW w \in Written, Len(Plain(w)) > 1, Plain(w) \notin LocalName
      PROVE  Plain(w) \in Kept
  <2> DEFINE c == canonical(w)
  <2>1. c \in Seq(Label) /\ Len(c) \in Nat
    BY <1>1, CanonicalType
  <2>3. ~(Len(c) <= 1)
    <3> SUFFICES ASSUME Len(c) <= 1 PROVE FALSE
      OBVIOUS
    <3>1. ~(Len(Plain(w)) > 1)
      BY <1>1, ShortReadsShort
    <3> QED
      BY <1>3, <3>1
  <2>4. Len(c) >= 2
    BY <2>1, <2>3
  <2>5. CASE c \in LocalName
    <3>1. c[Len(c)] # EmptyLabel
      BY <2>5, NameAssumption
    <3>2. Plain(w) = c
      BY <1>1, <2>4, <3>1, <2>1, PlainIsCanonical
    <3> QED
      BY <1>3, <2>5, <3>2
  <2>6. CASE c \notin LocalName
    <3>1. c \in Kept
      BY <2>4, <2>6 DEF Kept, Found
    <3>2. c[Len(c)] # EmptyLabel
      BY <1>2, <3>1
    <3>3. Plain(w) = c
      BY <1>1, <2>1, <2>4, <3>2, PlainIsCanonical
    <3> QED
      BY <3>1, <3>3
  <2> QED
    BY <2>5, <2>6
<1>4. ASSUME NEW d \in Kept PROVE \E w \in Written : Plain(w) = d
  <2>1. PICK w \in Written : d = canonical(w)
    BY DEF Kept, Found
  <2>2. Plain(w) = d
    BY <1>1, <1>2, <2>1, PlainIsCanonical
  <2> QED
    BY <2>2
<1> QED
  BY <1>3, <1>4

(* parseList against matches, whatever the file and the name asked: an entry *)
(* covers the name it spells and that name's subdomains, and nothing else.   *)
THEOREM EntriesCover == Spec => []EntryCoversItsSubtree
<1>1. ASSUME InputsOK PROVE EntryCoversItsSubtree
  <2> DEFINE entries == {w \in Written : Len(Plain(w)) > 1 /\ Plain(w) \notin LocalName}
  <2> SUFFICES ASSUME parseList(lines) # Invalid
               PROVE  matches(parseList(lines), query) <=>
                        \E e \in entries : SameOrBelow(query, e)
    BY DEF EntryCoversItsSubtree
  <2>1. /\ parseList(lines) = Kept
        /\ \A d \in Kept : d \in Seq(Label) /\ Len(d) >= 2 /\ Plain(d) = d
    BY <1>1, ListIsPlain DEF InputsOK
  <2>2. \A d \in Kept : d \notin LocalName
    BY DEF Kept
  <2>3. matches(Kept, query) <=> \E d \in Kept : SameOrBelow(query, d)
    BY <1>1, <2>1, MatchesDomains DEF InputsOK
  <2>4. ASSUME NEW d \in Kept, SameOrBelow(query, d)
        PROVE  \E e \in entries : SameOrBelow(query, e)
    <3>1. PICK w \in Written : Plain(w) = d
      BY <1>1, KeptIsSpelled DEF InputsOK
    <3>2. Len(Plain(w)) > 1 /\ Plain(w) \notin LocalName
      BY <2>1, <2>2, <3>1
    <3>3. SameOrBelow(query, w)
      BY <2>1, <2>4, <3>1 DEF SameOrBelow
    <3> QED
      BY <3>2, <3>3
  <2>5. ASSUME NEW e \in entries, SameOrBelow(query, e)
        PROVE  \E d \in Kept : SameOrBelow(query, d)
    <3>1. Plain(e) \in Kept
      BY <1>1, KeptIsSpelled DEF InputsOK
    <3>2. Plain(Plain(e)) = Plain(e)
      BY <2>1, <3>1
    <3>3. SameOrBelow(query, Plain(e))
      BY <2>5, <3>2 DEF SameOrBelow
    <3> QED
      BY <3>1, <3>3
  <2> QED
    BY <2>1, <2>3, <2>4, <2>5
<1> QED
  BY <1>1, AlwaysInputs, PTL

(* parseList refuses a file for a bad entry or a line too long to be read,   *)
(* and for nothing else.                                                     *)
THEOREM BadFilesRefused == Spec => []RefusesOnlyBadFiles
<1>1. ASSUME InputsOK PROVE RefusesOnlyBadFiles
  <2> DEFINE bad(w) == /\ canonical(w) \notin LocalName
                       /\ Len(canonical(w)) > 1
                       /\ \/ \E i \in 1..Len(canonical(w)) :
                               canonical(w)[i] \in BadLabel \cup {EmptyLabel}
                          \/ Plain(w) \in IPAddress \cup LongName
  <2>1. parseList(lines) = Invalid <=>
          LongLine \in lines \/ \E n \in Kept : ~validDomain(n)
    <3>1. /\ parseList(lines) = IF LongLine \notin lines /\ \A n \in Kept : validDomain(n)
                                THEN Kept ELSE Invalid
          /\ Kept # Invalid
      BY <1>1, ParseIs DEF InputsOK
    <3> QED
      BY <3>1
  <2>2. (\E n \in Kept : ~validDomain(n)) <=>
          \E w \in Written : /\ Len(canonical(w)) >= 2 /\ canonical(w) \notin LocalName
                             /\ ~validDomain(canonical(w))
    BY DEF Kept, Found
  <2>3. ASSUME NEW w \in Written
        PROVE  bad(w) <=> /\ Len(canonical(w)) >= 2 /\ canonical(w) \notin LocalName
                          /\ ~validDomain(canonical(w))
    <3> DEFINE c == canonical(w)
               odd == \E i \in 1..Len(c) : c[i] \in BadLabel \cup {EmptyLabel}
    <3>1. w \in Seq(Label)
      BY <1>1, WrittenType DEF InputsOK
    <3>2. c \in Seq(Label)
      BY <3>1, CanonicalType
    <3>3. Len(c) \in Nat
      BY <3>2
    <3>4. validDomain(c) <=> /\ c = canonical(c) /\ Len(c) >= 2
                             /\ c \notin IPAddress \cup LongName /\ ~odd
      BY DEF validDomain
    <3>5. CASE odd
      BY <3>3, <3>4, <3>5
    <3>6. CASE ~odd /\ Len(c) >= 2
      <4>1. Len(c) \in 1..Len(c)
        BY <3>3, <3>6
      <4>2. c[Len(c)] # EmptyLabel
        BY <3>6, <4>1
      <4> HIDE DEF c
      <4>3. Plain(w) = c /\ canonical(c) = c
        BY <3>1, <3>3, <3>6, <4>2, PlainIsCanonical, CanonicalTwice DEF c
      <4>4. bad(w) <=> c \notin LocalName /\ Len(c) > 1 /\ (odd \/ Plain(w) \in IPAddress \cup LongName)
        BY DEF c
      <4> HIDE DEF bad, odd
      <4>5. bad(w) <=> Len(c) >= 2 /\ c \notin LocalName /\ ~validDomain(c)
        BY <3>3, <3>4, <3>6, <4>3, <4>4
      <4> QED
        BY <4>5 DEF c
    <3>7. CASE ~(Len(c) >= 2)
      BY <3>3, <3>7
    <3> QED
      BY <3>5, <3>6, <3>7
  <2> HIDE DEF bad
  <2>4. parseList(lines) = Invalid <=> LongLine \in lines \/ \E w \in Written : bad(w)
    BY <2>1, <2>2, <2>3
  <2> QED
    BY <2>4 DEF RefusesOnlyBadFiles, bad
<1> QED
  BY <1>1, AlwaysInputs, PTL

-----------------------------------------------------------------------------
(* More hours are more time.                                                 *)
LEMMA HoursGrow ==
  ASSUME NEW j \in Int, NEW k \in Int, j < k
  PROVE  j * Hour + Hour <= k * Hour
<1>1. k - j - 1 \in Nat /\ Hour \in Nat
  BY ChartAssumption
<1>2. (k - j - 1) * Hour >= 0
  BY <1>1
<1>3. (k - j - 1) * Hour = k * Hour - j * Hour - Hour
  BY ChartAssumption
<1>4. j * Hour \in Int /\ k * Hour \in Int
  BY ChartAssumption
<1> QED
  BY <1>1, <1>2, <1>3, <1>4

(* The hour a time is in.                                                    *)
LEMMA HourOf ==
  ASSUME NEW t \in Nat, NEW k \in Int
  PROVE  /\ t \div Hour \in Nat
         /\ t \div Hour = k <=> k * Hour <= t /\ t < k * Hour + Hour
<1> DEFINE q == t \div Hour
<1>1. Hour \in Nat /\ Hour > 0
  BY ChartAssumption
<1>2. q \in Nat /\ q * Hour <= t /\ t < q * Hour + Hour
  <2>1. q \in Nat /\ t % Hour \in 0..Hour - 1
    BY <1>1
  <2>2. t = Hour * q + (t % Hour)
    BY <1>1
  <2>3. Hour * q = q * Hour /\ q * Hour \in Nat
    BY <1>1, <2>1
  <2> HIDE DEF q
  <2> QED
    BY <1>1, <2>1, <2>2, <2>3
<1> HIDE DEF q
<1>3. q * Hour \in Int /\ k * Hour \in Int
  BY <1>1, <1>2
<1>4. ASSUME k * Hour <= t, t < k * Hour + Hour PROVE q = k
  <2>1. CASE q < k
    BY <1>1, <1>2, <1>3, <1>4, <2>1, HoursGrow
  <2>2. CASE k < q
    BY <1>1, <1>2, <1>3, <1>4, <2>2, HoursGrow
  <2> QED
    BY <1>2, <2>1, <2>2
<1> QED
  BY <1>2, <1>4 DEF q

(* overview and chartPoints, whatever the buckets, the clocks and the length *)
(* of an hour: each point holds what was counted in its hour, and where the  *)
(* clocks agree the chart misses only the hour that is not 24 hours old.     *)
THEOREM ChartOnce == Spec => []ChartCountsEachBucketOnce
<1>1. ASSUME InputsOK PROVE ChartCountsEachBucketOnce
  <2> DEFINE o == overview(buckets, serverNow)
             points == chartPoints(buckets, o.buckets, browserNow)
             hour(t) == t \div Hour
             recent == {k \in DOMAIN buckets : buckets[k].time > serverNow - Hours * Hour}
             of(h) == {k \in DOMAIN buckets : /\ hour(buckets[k].time) = h
                                             /\ serverNow - buckets[k].time < Hours * Hour}
             first == hour(browserNow) - Hours + 1
             charted == UNION {of(h) : h \in first..first + Hours - 1}
             start(i) == hour(browserNow) * Hour - (Hours - i) * Hour
             samples(i) == {k \in recent : /\ buckets[k].time >= start(i)
                                           /\ buckets[k].time < start(i) + Hour}
  <2>1. /\ serverNow \in Nat /\ browserNow \in Nat /\ Hour \in Nat /\ Hours \in Nat
        /\ Hours > 0 /\ Hour > 0 /\ Hours * Hour \in Nat
    BY <1>1, ChartAssumption DEF InputsOK
  <2>2. \A k \in DOMAIN buckets : buckets[k].time \in Nat
    BY <1>1, InputAssumption DEF InputsOK
  <2>3. hour(browserNow) \in Nat /\ first \in Int
    <3>1. hour(browserNow) \in Nat
      BY <2>1, HourOf
    <3> QED
      BY <2>1, <3>1
  <2>4. /\ o.buckets = recent
        /\ o.total = Total(buckets, recent) /\ o.blocked = Blocked(buckets, recent)
    BY DEF overview
  <2>5. \A i \in 1..Hours : /\ points[i].time = start(i)
                            /\ points[i].total = Total(buckets, samples(i))
                            /\ points[i].blocked = Blocked(buckets, samples(i))
    BY <2>4 DEF chartPoints
  <2>6. ASSUME NEW i \in 1..Hours
        PROVE  start(i) = (first + i - 1) * Hour /\ samples(i) = of(first + i - 1)
    <3> DEFINE h == first + i - 1
    <3>1. h \in Int /\ h = hour(browserNow) - (Hours - i)
      BY <2>1, <2>3
    <3>2. start(i) = h * Hour
      <4> HIDE DEF h, first, hour
      <4>1. (hour(browserNow) - (Hours - i)) * Hour =
              hour(browserNow) * Hour - (Hours - i) * Hour
        BY <2>1, <2>3
      <4> QED
        BY <3>1, <4>1
    <3> HIDE DEF h, first, start
    <3>3. ASSUME NEW k \in DOMAIN buckets
          PROVE  k \in samples(i) <=> k \in of(h)
      <4>1. buckets[k].time \in Nat
        BY <2>2
      <4>2. buckets[k].time > serverNow - Hours * Hour <=> serverNow - buckets[k].time < Hours * Hour
        BY <2>1, <4>1
      <4>3. hour(buckets[k].time) = h <=>
              buckets[k].time >= start(i) /\ buckets[k].time < start(i) + Hour
        <5>1. hour(buckets[k].time) = h <=>
                h * Hour <= buckets[k].time /\ buckets[k].time < h * Hour + Hour
          BY <3>1, <4>1, HourOf
        <5>2. h * Hour \in Int
          BY <2>1, <3>1
        <5> HIDE DEF hour
        <5> QED
          BY <3>2, <4>1, <5>1, <5>2
      <4> HIDE DEF hour
      <4> QED
        BY <4>2, <4>3
    <3>4. samples(i) = of(h)
      BY <3>3
    <3> QED
      BY <3>2, <3>4 DEF h
  <2>7. ASSUME serverNow = browserNow, \A k \in DOMAIN buckets : buckets[k].time <= serverNow
        PROVE  recent = charted \cup of(first - 1)
    <3> SUFFICES ASSUME NEW k \in DOMAIN buckets
                 PROVE  k \in recent <=> k \in charted \cup of(first - 1)
      OBVIOUS
    <3> DEFINE t == buckets[k].time
    <3>1. t \in Nat /\ t <= serverNow
      BY <2>2, <2>7
    <3>2. t > serverNow - Hours * Hour <=> serverNow - t < Hours * Hour
      BY <2>1, <3>1
    <3>3. ASSUME serverNow - t < Hours * Hour PROVE hour(t) \in first - 1..first + Hours - 1
      <4>1. hour(t) \in Nat /\ hour(t) * Hour <= t /\ t < hour(t) * Hour + Hour
        BY <3>1, HourOf
      <4>2. /\ hour(serverNow) \in Nat /\ hour(serverNow) * Hour <= serverNow
            /\ serverNow < hour(serverNow) * Hour + Hour
        BY <2>1, HourOf
      <4>3. first = hour(serverNow) - Hours + 1
        BY <2>7
      <4> HIDE DEF t, first, hour
      <4>4. hour(t) * Hour \in Int /\ hour(serverNow) * Hour \in Int
        BY <2>1, <4>1, <4>2
      <4>5. hour(t) <= hour(serverNow)
        <5> SUFFICES ASSUME hour(serverNow) < hour(t) PROVE FALSE
          BY <4>1, <4>2
        <5>1. hour(serverNow) * Hour + Hour <= hour(t) * Hour
          BY <4>1, <4>2, HoursGrow
        <5> QED
          BY <2>1, <3>1, <4>1, <4>2, <4>4, <5>1
      <4>6. hour(t) >= hour(serverNow) - Hours
        <5> DEFINE s == hour(serverNow) - Hours
        <5> SUFFICES ASSUME hour(t) < s PROVE FALSE
          BY <2>1, <4>1, <4>2
        <5>1. s * Hour = hour(serverNow) * Hour - Hours * Hour /\ s \in Int
          BY <2>1, <4>2
        <5> HIDE DEF s
        <5>2. hour(t) * Hour + Hour <= s * Hour
          BY <4>1, <5>1, HoursGrow
        <5> QED
          BY <2>1, <3>1, <3>3, <4>1, <4>2, <4>4, <5>1, <5>2
      <4> QED
        BY <2>1, <4>1, <4>2, <4>3, <4>5, <4>6
    <3>4. k \in charted <=> \E h \in first..first + Hours - 1 : k \in of(h)
      OBVIOUS
    <3>5. \A h : k \in of(h) <=> hour(t) = h /\ serverNow - t < Hours * Hour
      OBVIOUS
    <3>6. k \in recent <=> t > serverNow - Hours * Hour
      OBVIOUS
    <3> HIDE DEF recent, charted, of, hour, first, t
    <3> QED
      BY <2>1, <2>3, <3>2, <3>3, <3>4, <3>5, <3>6
  <2>8. \A i \in 1..Hours : /\ points[i].time = (first + i - 1) * Hour
                            /\ points[i].total = Total(buckets, of(first + i - 1))
                            /\ points[i].blocked = Blocked(buckets, of(first + i - 1))
    <3> HIDE DEF points, start, samples, of, first
    <3> QED
      BY <2>5, <2>6
  <2>9. serverNow = browserNow /\ (\A k \in DOMAIN buckets : buckets[k].time <= serverNow) =>
          /\ o.total = Total(buckets, charted \cup of(first - 1))
          /\ o.blocked = Blocked(buckets, charted \cup of(first - 1))
    <3> HIDE DEF o, recent, charted, of, first
    <3> QED
      BY <2>4, <2>7
  <2> QED
    BY <2>8, <2>9, Zenon DEF ChartCountsEachBucketOnce
<1> QED
  BY <1>1, AlwaysInputs, PTL

=============================================================================
