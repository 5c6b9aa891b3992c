-------------------------- MODULE QueryHistoryProofs --------------------------
(***************************************************************************)
(* The retention of the query history, the opt-out, and the agreement of   *)
(* chart and list, for any window, limit, number of resolver goroutines    *)
(* and wait for the mutex.                                                 *)
(***************************************************************************)
EXTENDS QueryHistory, SequenceTheorems, FunctionTheorems, FiniteSetTheorems, TLAPS

-----------------------------------------------------------------------------
(* A sequence of entries no later than t and out of order by no more than    *)
(* lag: queries, and the buckets that count them.                            *)
Near(s, S, lag, t) ==
  /\ s \in Seq(S)
  /\ \A i \in 1..Len(s) : s[i].time <= t
  /\ \A i, j \in 1..Len(s) : i < j => s[i].time <= s[j].time + lag

Fits(q, t) == Near(q, Query, MaxLag, t)

(* Any run of consecutive entries of such a sequence is one.                 *)
LEMMA PartNear ==
  ASSUME NEW S, NEW lag, NEW q, NEW t \in Nat, Near(q, S, lag, t),
         NEW a \in Nat \ {0}, NEW b \in Nat, b <= Len(q)
  PROVE  Near(SubSeq(q, a, b), S, lag, t)
<1>1. \A i \in a..b : q[i] \in S
  BY DEF Near
<1>2. /\ SubSeq(q, a, b) \in Seq(S)
      /\ Len(SubSeq(q, a, b)) = IF a <= b THEN b - a + 1 ELSE 0
      /\ \A i \in 1..b - a + 1 : SubSeq(q, a, b)[i] = q[a + i - 1]
  BY <1>1, SubSeqProperties
<1> DEFINE p == SubSeq(q, a, b)
<1>3. \A i \in 1..Len(p) : p[i] = q[a + i - 1] /\ a + i - 1 \in 1..Len(q)
  BY <1>2 DEF Near
<1> QED
  BY <1>2, <1>3 DEF Near

(* A non-empty set of indexes has a least one: a smallest initial segment.   *)
LEMMA LeastIndex ==
  ASSUME NEW n \in Nat, NEW K, K \subseteq 1..n, K # {}
  PROVE  \E m \in K : \A j \in K : m <= j
<1> DEFINE segments == {1..m : m \in K}
<1>1. segments \subseteq FiniteSubsetsOf(1..n) /\ segments # {}
  <2>1. IsFiniteSet(1..n)
    BY FS_Interval
  <2>2. FiniteSubsetsOf(1..n) = SUBSET (1..n)
    BY <2>1, FS_FiniteSubsetsOfFinite
  <2>3. \A m \in K : 1..m \subseteq 1..n
    OBVIOUS
  <2>4. segments \subseteq SUBSET (1..n)
    BY <2>3
  <2>5. \A m \in K : 1..m \in segments
    OBVIOUS
  <2>6. segments # {}
    <3> HIDE DEF segments
    <3> QED
      BY <2>5
  <2> HIDE DEF segments
  <2> QED
    BY <2>2, <2>4, <2>6
<1>2. PICK seg \in segments : \A other \in segments :
                                 <<other, seg>> \notin StrictSubsetOrdering(1..n)
  <2> HIDE DEF segments
  <2> QED
    BY <1>1, WFMin, FS_StrictSubsetOrderingWellFounded
<1>3. PICK m \in K : seg = 1..m
  OBVIOUS
<1>4. ASSUME NEW j \in K, j < m PROVE FALSE
  <2>1. 1..j \subseteq 1..m /\ 1..j # 1..m
    BY <1>4
  <2>2. 1..j \subseteq 1..n /\ 1..m \subseteq 1..n
    OBVIOUS
  <2>3. <<1..j, 1..m>> \in StrictSubsetOrdering(1..n)
    BY <2>1, <2>2 DEF StrictSubsetOrdering
  <2> QED
    BY <1>2, <1>3, <2>3
<1> QED
  BY <1>4

(* DropOld drops a prefix, of entries that are too old, and only that.       *)
LEMMA DropOldIsSuffix ==
  ASSUME NEW S, NEW q \in Seq(S), NEW c
  PROVE  \E m \in 1..Len(q) + 1 :
           /\ DropOld(q, c) = SubSeq(q, m, Len(q))
           /\ \A i \in 1..m - 1 : ~(q[i].time >= c)
           /\ m <= Len(q) => q[m].time >= c
<1> DEFINE kept == {i \in DOMAIN q : q[i].time >= c}
<1>1. Len(q) \in Nat /\ DOMAIN q = 1..Len(q)
  OBVIOUS
<1>2. CASE kept = {}
  <2>1. DropOld(q, c) = << >>
    BY <1>2 DEF DropOld
  <2>2. SubSeq(q, Len(q) + 1, Len(q)) = << >>
    BY <1>1, SubSeqEmpty
  <2>3. \A i \in 1..(Len(q) + 1) - 1 : ~(q[i].time >= c)
    BY <1>1, <1>2
  <2>4. Len(q) + 1 \in 1..Len(q) + 1 /\ ~(Len(q) + 1 <= Len(q))
    BY <1>1
  <2> HIDE DEF kept
  <2> QED
    BY <2>1, <2>2, <2>3, <2>4
<1>3. CASE kept # {}
  <2> DEFINE m == CHOOSE i \in kept : \A j \in kept : i <= j
  <2>1. kept \subseteq 1..Len(q)
    BY <1>1
  <2>2. DropOld(q, c) = SubSeq(q, m, Len(q))
    BY <1>3 DEF DropOld
  <2>3. \E i \in kept : \A j \in kept : i <= j
    <3> HIDE DEF kept
    <3> QED
      BY <1>1, <1>3, <2>1, LeastIndex
  <2>4. m \in kept /\ \A j \in kept : m <= j
    BY <2>3
  <2> HIDE DEF m
  <2>5. m \in 1..Len(q)
    BY <2>1, <2>4
  <2>6. \A i \in 1..m - 1 : ~(q[i].time >= c)
    BY <1>1, <2>4, <2>5
  <2>7. m \in 1..Len(q) + 1 /\ q[m].time >= c
    BY <1>1, <2>4, <2>5
  <2> HIDE DEF kept
  <2> QED
    BY <2>2, <2>6, <2>7
<1> QED
  BY <1>2, <1>3

(* DropOld keeps a run of entries, and what it keeps is older than the       *)
(* cutoff by lag at most: whatever follows the first entry to be kept.       *)
LEMMA DropOldNear ==
  ASSUME NEW S, \A e \in S : e.time \in Nat, NEW lag \in Nat,
         NEW q, NEW t \in Nat, Near(q, S, lag, t), NEW cutoff \in Int
  PROVE  /\ Near(DropOld(q, cutoff), S, lag, t)
         /\ Len(DropOld(q, cutoff)) <= Len(q)
         /\ \A i \in 1..Len(DropOld(q, cutoff)) :
              DropOld(q, cutoff)[i].time + lag >= cutoff
<1>1. q \in Seq(S) /\ Len(q) \in Nat
  BY DEF Near
<1>2. PICK m \in 1..Len(q) + 1 :
        /\ DropOld(q, cutoff) = SubSeq(q, m, Len(q))
        /\ m <= Len(q) => q[m].time >= cutoff
  BY <1>1, DropOldIsSuffix
<1>3. \A i \in 1..Len(q) : q[i].time \in Nat
  BY <1>1, ElementOfSeq
<1>4. \A i \in m..Len(q) : q[i].time + lag >= cutoff
  <2> SUFFICES ASSUME NEW i \in m..Len(q) PROVE q[i].time + lag >= cutoff
    OBVIOUS
  <2>1. m \in 1..Len(q) /\ i \in 1..Len(q)
    BY <1>1
  <2>2. m < i => q[m].time <= q[i].time + lag
    BY <2>1 DEF Near
  <2>3. q[m].time >= cutoff
    BY <1>1, <1>2, <2>1
  <2> QED
    BY <1>1, <1>3, <2>1, <2>2, <2>3
<1>5. /\ Len(SubSeq(q, m, Len(q))) = Len(q) - m + 1
      /\ \A i \in 1..Len(q) - m + 1 : SubSeq(q, m, Len(q))[i] = q[m + i - 1]
  <2>1. \A i \in m..Len(q) : q[i] \in S
    BY <1>1
  <2> QED
    BY <1>1, <2>1, SubSeqProperties
<1>6. Near(SubSeq(q, m, Len(q)), S, lag, t)
  BY <1>1, PartNear
<1> DEFINE d == SubSeq(q, m, Len(q))
<1> HIDE DEF d
<1>7. Len(d) <= Len(q) /\ \A i \in 1..Len(d) : d[i].time + lag >= cutoff
  BY <1>1, <1>4, <1>5 DEF d
<1>8. Near(d, S, lag, t) /\ DropOld(q, cutoff) = d
  BY <1>2, <1>6 DEF d
<1> QED
  BY <1>7, <1>8

(* An entry no older than lag may follow at the end.                         *)
LEMMA AppendNear ==
  ASSUME NEW S, \A y \in S : y.time \in Nat, NEW lag \in Nat, NEW n \in Nat,
         NEW s, Near(s, S, lag, n), NEW e \in S, e.time <= n, n <= e.time + lag
  PROVE  Near(Append(s, e), S, lag, n)
<1>1. s \in Seq(S) /\ Len(s) \in Nat
  BY DEF Near
<1> DEFINE x == Append(s, e)
<1>2. /\ x \in Seq(S) /\ Len(x) = Len(s) + 1
      /\ \A i \in 1..Len(s) : x[i] = s[i]
      /\ x[Len(s) + 1] = e
  BY <1>1, AppendProperties
<1>3. \A i \in 1..Len(s) : s[i].time \in Nat /\ s[i].time <= n
  BY <1>1, ElementOfSeq DEF Near
<1> HIDE DEF x
<1>4. \A i \in 1..Len(x) : x[i].time <= n
  BY <1>1, <1>2, <1>3
<1>5. \A i, j \in 1..Len(x) : i < j => x[i].time <= x[j].time + lag
  <2> SUFFICES ASSUME NEW i \in 1..Len(x), NEW j \in 1..Len(x), i < j
               PROVE  x[i].time <= x[j].time + lag
    OBVIOUS
  <2>1. i \in 1..Len(s) /\ x[i] = s[i]
    BY <1>1, <1>2
  <2>2. CASE j \in 1..Len(s)
    BY <1>1, <1>2, <2>1, <2>2 DEF Near
  <2>3. CASE j = Len(s) + 1
    BY <1>2, <1>3, <2>1, <2>3
  <2>4. j \in 1..Len(s) \/ j = Len(s) + 1
    <3>1. Len(x) = Len(s) + 1
      BY <1>2
    <3> QED
      BY <1>1, <3>1
  <2> QED
    BY <2>2, <2>3, <2>4, Zenon
<1>6. Near(x, S, lag, n)
  BY <1>2, <1>4, <1>5 DEF Near
<1> QED
  BY <1>6 DEF x

(* Every query has a time.                                                   *)
LEMMA QueryTimes == \A e \in Query : e.time \in Nat
BY DEF Query

(* The same of pruneLocked, which also enforces the limit.                   *)
LEMMA PruneFits ==
  ASSUME NEW h, NEW t \in Nat, NEW s \in Nat, Fits(h.queries, t)
  PROVE  /\ Fits(pruneLocked(h, s).queries, t)
         /\ Len(pruneLocked(h, s).queries) <= MaxQueries
         /\ \A i \in 1..Len(pruneLocked(h, s).queries) :
              pruneLocked(h, s).queries[i].time + MaxLag >= s - Window
<1> DEFINE q == DropOld(h.queries, s - Window)
<1>1. /\ Fits(q, t) /\ q \in Seq(Query)
      /\ \A i \in 1..Len(q) : q[i].time + MaxLag >= s - Window
  <2>1. s - Window \in Int /\ MaxLag \in Nat
    BY HistoryAssumption
  <2>2. Near(h.queries, Query, MaxLag, t)
    BY DEF Fits
  <2>3. /\ Near(q, Query, MaxLag, t)
        /\ \A i \in 1..Len(q) : q[i].time + MaxLag >= s - Window
    BY <2>1, <2>2, DropOldNear, QueryTimes
  <2> QED
    BY <2>3 DEF Fits, Near
<1> HIDE DEF q
<1>2. CASE Len(q) <= MaxQueries
  BY <1>1, <1>2, HistoryAssumption DEF pruneLocked, Newest, q
<1>3. CASE Len(q) > MaxQueries
  <2> DEFINE a == Len(q) - MaxQueries + 1
  <2>1. a \in Nat \ {0} /\ a <= Len(q) /\ Len(q) - a + 1 = MaxQueries
    BY <1>1, <1>3, HistoryAssumption
  <2>2. pruneLocked(h, s).queries = SubSeq(q, a, Len(q))
    BY <1>3 DEF pruneLocked, Newest, q
  <2>3. /\ Len(SubSeq(q, a, Len(q))) = Len(q) - a + 1
        /\ \A i \in 1..Len(q) - a + 1 : SubSeq(q, a, Len(q))[i] = q[a + i - 1]
    BY <1>1, <2>1, SubSeqProperties
  <2>4. Fits(SubSeq(q, a, Len(q)), t)
    <3>1. Near(q, Query, MaxLag, t) /\ Len(q) \in Nat /\ Len(q) <= Len(q)
      BY <1>1 DEF Fits
    <3> HIDE DEF a
    <3>2. Near(SubSeq(q, a, Len(q)), Query, MaxLag, t)
      BY <2>1, <3>1, PartNear
    <3> QED
      BY <3>2 DEF Fits
  <2>5. \A i \in 1..MaxQueries : q[a + i - 1].time + MaxLag >= s - Window
    <3>1. \A i \in 1..MaxQueries : a + i - 1 \in 1..Len(q)
      BY <1>1, <2>1, HistoryAssumption
    <3> HIDE DEF a
    <3> QED
      BY <1>1, <3>1
  <2>6. Len(pruneLocked(h, s).queries) = MaxQueries
    BY <2>1, <2>2, <2>3
  <2>7. \A i \in 1..MaxQueries : pruneLocked(h, s).queries[i] = q[a + i - 1]
    BY <2>1, <2>2, <2>3
  <2> HIDE DEF a
  <2>8. \A i \in 1..MaxQueries :
          pruneLocked(h, s).queries[i].time + MaxLag >= s - Window
    BY <2>5, <2>7
  <2>9. Fits(pruneLocked(h, s).queries, t)
    BY <2>2, <2>4, Zenon
  <2>10. Len(pruneLocked(h, s).queries) <= MaxQueries
    BY <2>6, HistoryAssumption
  <2>11. \A i \in 1..Len(pruneLocked(h, s).queries) :
           pruneLocked(h, s).queries[i].time + MaxLag >= s - Window
    BY <2>6, <2>8, Zenon
  <2> QED
    BY <2>9, <2>10, <2>11
<1> QED
  BY <1>1, <1>2, <1>3, HistoryAssumption

(* A query no older than the wait for the mutex fits at the end.             *)
LEMMA RecordFits ==
  ASSUME NEW h, NEW n \in Nat, NEW t \in Nat,
         Fits(h.queries, n), Len(h.queries) <= MaxQueries, t <= n, n <= t + MaxLag
  PROVE  /\ Fits(Recorded(Opened(h, t), t).queries, n)
         /\ Len(Recorded(Opened(h, t), t).queries) <= MaxQueries
<1> DEFINE q == Opened(h, t).queries
           r == IF Len(q) >= MaxQueries THEN SubSeq(q, 2, MaxQueries) ELSE q
           e == [time |-> t, before |-> FALSE]
<1>1. Fits(q, n) /\ Len(q) <= MaxQueries
  BY PruneFits DEF Opened
<1>2. Len(q) \in Nat
  BY <1>1 DEF Fits, Near
<1>3. Recorded(Opened(h, t), t).queries = Append(r, e)
  BY DEF Recorded
<1> HIDE DEF q
<1>4. Fits(r, n) /\ Len(r) \in Nat /\ Len(r) < MaxQueries
  <2>1. CASE Len(q) >= MaxQueries
    <3>1. Fits(SubSeq(q, 2, MaxQueries), n)
      BY <1>1, <1>2, <2>1, PartNear, HistoryAssumption DEF Fits
    <3>2. Len(SubSeq(q, 2, MaxQueries)) = IF 2 <= MaxQueries THEN MaxQueries - 1 ELSE 0
      BY <1>1, <2>1, SubSeqProperties, HistoryAssumption DEF Fits, Near
    <3> QED
      BY <2>1, <3>1, <3>2, HistoryAssumption
  <2> QED
    BY <1>1, <1>2, <2>1, HistoryAssumption
<1>5. e \in Query /\ e.time = t
  BY DEF Query
<1> HIDE DEF r, e
<1>6. Fits(Append(r, e), n)
  BY <1>4, <1>5, AppendNear, QueryTimes, HistoryAssumption DEF Fits
<1>7. Len(Append(r, e)) = Len(r) + 1
  BY <1>4, <1>5, AppendProperties DEF Fits, Near
<1> QED
  BY <1>3, <1>4, <1>6, <1>7, HistoryAssumption

(* The mark of the model changes neither order nor length.                   *)
LEMMA MarkFits ==
  ASSUME NEW h, NEW n \in Nat, Fits(h.queries, n)
  PROVE  Fits(Marked(h).queries, n) /\ Len(Marked(h).queries) = Len(h.queries)
<1> DEFINE q == h.queries
           m == [i \in 1..Len(q) |-> [q[i] EXCEPT !.before = TRUE]]
<1>1. Marked(h).queries = m
  BY DEF Marked, Fits, Near
<1>2. \A i \in 1..Len(q) : q[i] \in Query
  BY ElementOfSeq DEF Fits, Near
<1>3. \A i \in 1..Len(q) : m[i] \in Query /\ m[i].time = q[i].time
  BY <1>2 DEF Query
<1>4. m \in Seq(Query) /\ Len(m) = Len(q)
  <2>1. Len(q) \in Nat
    BY DEF Fits, Near
  <2>2. m \in [1..Len(q) -> Query]
    BY <1>3
  <2> HIDE DEF m
  <2> QED
    BY <2>1, <2>2
<1> HIDE DEF m
<1> QED
  BY <1>1, <1>3, <1>4 DEF Fits, Near

-----------------------------------------------------------------------------
(* The inductive invariant of the retention: the stamps in flight are not    *)
(* older than MaxLag, and both histories fit.                                *)
RetentionInv ==
  /\ now \in Nat
  /\ pending \in [Handler -> Nat \cup {NoQuery}]
  /\ \A h \in Handler : pending[h] # NoQuery => pending[h] <= now /\ now <= pending[h] + MaxLag
  /\ Fits(history.queries, now) /\ Len(history.queries) <= MaxQueries
  /\ Fits(historyFile.queries, now) /\ Len(historyFile.queries) <= MaxQueries

(* What fits now fits later.                                                 *)
LEMMA LaterFits ==
  ASSUME NEW q, NEW t \in Nat, Fits(q, t)
  PROVE  Fits(q, t + 1)
<1>1. \A i \in 1..Len(q) : q[i].time \in Nat
  <2>1. \A i \in 1..Len(q) : q[i] \in Query
    BY ElementOfSeq DEF Fits, Near
  <2> QED
    BY <2>1 DEF Query
<1> QED
  BY <1>1 DEF Fits, Near

(* The empty history fits.                                                   *)
LEMMA EmptyFits ==
  ASSUME NEW t \in Nat
  PROVE  Fits(NoHistory.queries, t) /\ Len(NoHistory.queries) <= MaxQueries
BY HistoryAssumption DEF Fits, Near, NoHistory

(* RetentionInv holds at the start.                                          *)
LEMMA InitRetention == Init => RetentionInv
<1> SUFFICES ASSUME Init PROVE RetentionInv
  OBVIOUS
<1>1. now = 0 /\ history = NoHistory /\ historyFile = NoHistory
  BY DEF Init
<1>2. pending = [h \in Handler |-> NoQuery]
  BY DEF Init
<1> QED
  BY <1>1, <1>2, EmptyFits DEF RetentionInv

(* Every step keeps it.                                                      *)
LEMMA StepRetention == RetentionInv /\ [Next]_vars => RetentionInv'
<1> SUFFICES ASSUME RetentionInv, [Next]_vars PROVE RetentionInv'
  OBVIOUS
<1> USE DEF RetentionInv
<1>1. CASE Tick
  <2>1. Fits(history.queries, now + 1) /\ Fits(historyFile.queries, now + 1)
    BY LaterFits
  <2>2. /\ now' = now + 1 /\ UNCHANGED <<history, historyFile, pending>>
        /\ \A h \in Handler : pending[h] # NoQuery => now < pending[h] + MaxLag
    BY <1>1 DEF Tick
  <2>3. \A h \in Handler : pending[h] # NoQuery =>
                             pending[h] <= now + 1 /\ now + 1 <= pending[h] + MaxLag
    BY <2>2, HistoryAssumption
  <2> QED
    BY <2>1, <2>2, <2>3
<1>2. CASE Boot
  <2>1. history' = pruneLocked(historyFile, now) \/ history' = pruneLocked(NoHistory, now)
    BY <1>2 DEF Boot
  <2>2. Fits(history'.queries, now) /\ Len(history'.queries) <= MaxQueries
    BY <2>1, PruneFits, EmptyFits
  <2> QED
    BY <1>2, <2>2 DEF Boot
<1>3. ASSUME NEW h \in Handler, Stamp(h) PROVE RetentionInv'
  BY <1>3, HistoryAssumption DEF Stamp
<1>4. ASSUME NEW h \in Handler, Record(h) PROVE RetentionInv'
  <2>1. /\ pending[h] \in Nat /\ pending[h] <= now /\ now <= pending[h] + MaxLag
    BY <1>4 DEF Record
  <2>2. /\ pending' = [pending EXCEPT ![h] = NoQuery] /\ UNCHANGED <<now, historyFile>>
        /\ \/ history' = history
           \/ history' = Recorded(Opened(history, pending[h]), pending[h])
    BY <1>4 DEF Record
  <2>3. Fits(history'.queries, now) /\ Len(history'.queries) <= MaxQueries
    BY <2>1, <2>2, RecordFits
  <2> QED
    BY <2>2, <2>3
<1>5. CASE Flush
  <2>1. history' = pruneLocked(history, now) /\ historyFile' \in {historyFile, history'}
    BY <1>5 DEF Flush
  <2>2. Fits(history'.queries, now) /\ Len(history'.queries) <= MaxQueries
    BY <2>1, PruneFits
  <2> QED
    BY <1>5, <2>1, <2>2 DEF Flush
<1>6. CASE OptIn
  BY <1>6 DEF OptIn
<1>7. ASSUME NEW c \in Client, OptOut(c) PROVE RetentionInv'
  BY <1>7, MarkFits DEF OptOut
<1>8. ASSUME NEW c \in Client, FinishOptOut(c) PROVE RetentionInv'
  BY <1>8, EmptyFits DEF FinishOptOut, clearHistory
<1>9. CASE DeleteHistory
  BY <1>9, EmptyFits DEF DeleteHistory, clearHistory
<1>10. CASE Crash
  <2>1. /\ history' = NoHistory /\ pending' = [h \in Handler |-> NoQuery] /\ now' = now
        /\ historyFile' \in {historyFile, Marked(historyFile), NoHistory}
    BY <1>10 DEF Crash
  <2> QED
    BY <2>1, MarkFits, EmptyFits
<1>11. CASE UNCHANGED vars
  BY <1>11 DEF vars
<1> QED
  BY <1>1, <1>2, <1>3, <1>4, <1>5, <1>6, <1>7, <1>8, <1>9, <1>10, <1>11 DEF Next

(* RetentionInv in every reachable state.                                    *)
LEMMA AlwaysRetention == Spec => []RetentionInv
BY InitRetention, StepRetention, PTL DEF Spec

(* In memory and on disk, a query never precedes one that is more than       *)
(* MaxLag older: the loops of pruneLocked may stop at the first that stays.  *)
THEOREM HistoryAlmostSorted == Spec => []AlmostSorted
<1>1. RetentionInv => AlmostSorted
  BY SMTT(20) DEF RetentionInv, AlmostSorted, Fits, Near
<1> QED
  BY <1>1, AlwaysRetention, PTL

(* The limit on the number of queries holds in memory and on disk.           *)
THEOREM HistoryWithinLimit == Spec => []WithinLimit
<1>1. RetentionInv => WithinLimit
  BY DEF RetentionInv, WithinLimit
<1> QED
  BY <1>1, AlwaysRetention, PTL

-----------------------------------------------------------------------------
(* The inductive invariant of the opt-out: after an answered opt-out there   *)
(* is nothing to show, and nothing to load, until logging is on again.       *)
OptOutInv ==
  /\ up \in BOOLEAN /\ logging \in BOOLEAN /\ loggingFile \in BOOLEAN
  /\ acked \in BOOLEAN
  /\ up => logging = loggingFile
  /\ acked => history = NoHistory /\ historyFile = NoHistory /\ ~loggingFile

(* Pruning or marking the empty history leaves it empty.                     *)
LEMMA EmptyStays ==
  ASSUME NEW t \in Int
  PROVE  pruneLocked(NoHistory, t) = NoHistory /\ Marked(NoHistory) = NoHistory
<1>1. \A c : DropOld(<< >>, c) = << >>
  BY DEF DropOld
<1>2. Newest(<< >>, MaxQueries) = << >>
  BY HistoryAssumption DEF Newest
<1>3. [i \in DOMAIN << >> |-> [<< >>[i] EXCEPT !.before = TRUE]] = << >>
  OBVIOUS
<1> QED
  BY <1>1, <1>2, <1>3 DEF pruneLocked, Marked, NoHistory

(* Once the answer to an opt-out is sent, no query in flight, flush, crash   *)
(* or start brings a query back before logging is turned on.                 *)
THEOREM OptOutIsKept == Spec => []OptOutHolds
<1>1. Init => OptOutInv
  BY DEF Init, OptOutInv
<1>2. RetentionInv /\ OptOutInv /\ [Next]_vars => OptOutInv'
  <2> SUFFICES ASSUME now \in Int, OptOutInv, [Next]_vars PROVE OptOutInv'
    BY DEF RetentionInv
  <2> USE DEF OptOutInv
  <2>1. CASE Tick
    BY <2>1 DEF Tick, ghosts
  <2>2. CASE Boot
    BY <2>2, EmptyStays DEF Boot, ghosts
  <2>3. ASSUME NEW h \in Handler, Stamp(h) PROVE OptOutInv'
    BY <2>3 DEF Stamp, ghosts
  <2>4. ASSUME NEW h \in Handler, Record(h) PROVE OptOutInv'
    BY <2>4 DEF Record
  <2>5. CASE Flush
    BY <2>5, EmptyStays DEF Flush, ghosts
  <2>6. CASE OptIn
    BY <2>6 DEF OptIn
  <2>7. ASSUME NEW c \in Client, OptOut(c) PROVE OptOutInv'
    BY <2>7, EmptyStays DEF OptOut, ghosts
  <2>8. ASSUME up, clearHistory, UNCHANGED <<up, logging, loggingFile>> PROVE OptOutInv'
    <3>1. CASE /\ historyFile' = NoHistory /\ history' = NoHistory
               /\ acked' = ~logging
      <4>1. logging' = logging /\ loggingFile' = loggingFile /\ up' = up
        BY <2>8
      <4>2. acked' \in BOOLEAN /\ (acked' => ~loggingFile')
        BY <2>8, <3>1, <4>1
      <4> QED
        BY <3>1, <4>1, <4>2
    <3>2. CASE UNCHANGED <<history, historyFile, acked>>
      BY <2>8, <3>2
    <3> QED
      BY <2>8, <3>1, <3>2 DEF clearHistory
  <2>9. ASSUME DeleteHistory \/ \E c \in Client : FinishOptOut(c) PROVE OptOutInv'
    BY <2>8, <2>9 DEF DeleteHistory, FinishOptOut
  <2>10. CASE Crash
    <3>1. up' = FALSE /\ logging' = TRUE /\ history' = NoHistory
      BY <2>10 DEF Crash
    <3>2. CASE UNCHANGED <<loggingFile, historyFile, acked>>
      BY <3>1, <3>2
    <3>3. CASE loggingFile' = TRUE /\ acked' = FALSE /\ UNCHANGED historyFile
      BY <3>1, <3>3
    <3>4. CASE loggingFile' = FALSE /\ historyFile' = Marked(historyFile) /\ UNCHANGED acked
      BY <3>1, <3>4, EmptyStays
    <3>5. CASE historyFile' = NoHistory /\ UNCHANGED <<loggingFile, acked>>
      BY <3>1, <3>5
    <3> QED
      BY <2>10, <3>2, <3>3, <3>4, <3>5 DEF Crash
  <2>11. CASE UNCHANGED vars
    BY <2>11 DEF vars
  <2> QED
    BY <2>1, <2>2, <2>3, <2>4, <2>5, <2>6, <2>7, <2>9, <2>10, <2>11 DEF Next
<1>3. OptOutInv => OptOutHolds
  BY DEF OptOutInv, OptOutHolds
<1> QED
  BY <1>1, <1>2, <1>3, AlwaysRetention, PTL DEF Spec

-----------------------------------------------------------------------------
(* Dropping a prefix of a sequence leaves a sequence.                        *)
LEMMA DropOldType ==
  ASSUME NEW S, NEW q \in Seq(S), NEW c
  PROVE  DropOld(q, c) \in Seq(S)
<1>1. PICK m \in 1..Len(q) + 1 : DropOld(q, c) = SubSeq(q, m, Len(q))
  BY DropOldIsSuffix
<1>2. \A i \in m..Len(q) : q[i] \in S
  OBVIOUS
<1> QED
  BY <1>1, <1>2, SubSeqProperties

(* A pruned history is a history.                                            *)
LEMMA PruneType ==
  ASSUME NEW h \in History, NEW t
  PROVE  pruneLocked(h, t) \in History
<1> DEFINE q == DropOld(h.queries, t - Window)
<1>1. q \in Seq(Query) /\ DropOld(h.buckets, t - Window) \in Seq(Bucket)
  BY DropOldType DEF History
<1>2. Newest(q, MaxQueries) \in Seq(Query)
  <2> HIDE DEF q
  <2>1. CASE Len(q) > MaxQueries
    <3> DEFINE a == Len(q) - MaxQueries + 1
    <3>1. Len(q) \in Nat /\ a \in Nat /\ 1 <= a
      BY <1>1, <2>1, HistoryAssumption
    <3>2. \A i \in a..Len(q) : q[i] \in Query
      BY <1>1, <3>1
    <3> HIDE DEF a
    <3>3. SubSeq(q, a, Len(q)) \in Seq(Query)
      BY <3>1, <3>2, SubSeqProperties
    <3> QED
      BY <2>1, <3>3 DEF Newest, a
  <2> QED
    BY <1>1, <2>1 DEF Newest
<1> QED
  BY <1>1, <1>2 DEF pruneLocked, History

(* The stamp of a bucket is a time.                                          *)
LEMMA TruncateType == ASSUME NEW t \in Nat PROVE Truncate(t) \in Nat
<1>1. CASE t < BucketSpan
  BY <1>1, HistoryAssumption DEF Truncate
<1>2. CASE t >= BucketSpan
  BY <1>2, HistoryAssumption DEF Truncate
<1> QED
  BY <1>1, <1>2, HistoryAssumption

(* A history with one more query is a history.                               *)
LEMMA RecordType ==
  ASSUME NEW h \in History, NEW t \in Nat
  PROVE  Recorded(Opened(h, t), t) \in History
<1> DEFINE bucket == [time |-> Truncate(t), total |-> 0]
           wider  == [queries |-> h.queries, buckets |-> Append(h.buckets, bucket)]
           o      == Opened(h, t)
<1>1. bucket \in Bucket
  BY TruncateType DEF Bucket
<1> HIDE DEF bucket
<1>2. wider \in History
  BY <1>1 DEF History
<1>3. o \in History
  BY <1>2, PruneType DEF Opened, bucket
<1> HIDE DEF o
<1>4. o.queries \in Seq(Query) /\ o.buckets \in Seq(Bucket)
  BY <1>3 DEF History
<1> DEFINE r == IF Len(o.queries) >= MaxQueries
                THEN SubSeq(o.queries, 2, MaxQueries) ELSE o.queries
<1>5. r \in Seq(Query)
  <2>1. CASE Len(o.queries) >= MaxQueries
    <3>1. \A i \in 2..MaxQueries : o.queries[i] \in Query
      BY <1>4, <2>1, HistoryAssumption
    <3>2. SubSeq(o.queries, 2, MaxQueries) \in Seq(Query)
      BY <1>4, <3>1, SubSeqProperties, HistoryAssumption
    <3> QED
      BY <2>1, <3>2
  <2> QED
    BY <1>4, <2>1
<1> HIDE DEF r
<1> DEFINE e == [time |-> t, before |-> FALSE]
<1>6. e \in Query
  BY DEF Query
<1> HIDE DEF e
<1>7. Append(r, e) \in Seq(Query)
  BY <1>5, <1>6
<1>8. [o.buckets EXCEPT ![Len(o.buckets)].total = @ + 1] \in Seq(Bucket)
  <2> DEFINE b == o.buckets
             n == Len(b)
             c == [b EXCEPT ![n].total = @ + 1]
  <2>1. b \in Seq(Bucket)
    BY <1>4
  <2> HIDE DEF b
  <2>2. b \in [1..n -> Bucket] /\ n \in Nat
    BY <2>1
  <2> HIDE DEF n
  <2>3. \A i \in 1..n : c[i] = IF i = n THEN [b[i] EXCEPT !.total = @ + 1] ELSE b[i]
    BY <2>2
  <2>4. \A i \in 1..n : b[i] \in Bucket
    BY <2>2
  <2>5. \A y \in Bucket : [y EXCEPT !.total = @ + 1] \in Bucket
    BY DEF Bucket
  <2>6. \A i \in 1..n : c[i] \in Bucket
    BY <2>3, <2>4, <2>5
  <2>7. c \in [1..n -> Bucket]
    BY <2>2, <2>6
  <2>8. c \in Seq(Bucket)
    <3> HIDE DEF c
    <3> QED
      BY <2>2, <2>7
  <2> QED
    BY <2>8 DEF b, n
<1>9. Recorded(o, t) = [queries |-> Append(r, e),
                        buckets |-> [o.buckets EXCEPT ![Len(o.buckets)].total = @ + 1]]
  BY DEF Recorded, r, e
<1> QED
  BY <1>7, <1>8, <1>9 DEF History, o

(* A marked history is a history.                                            *)
LEMMA MarkType ==
  ASSUME NEW h \in History
  PROVE  Marked(h) \in History
<1> DEFINE m == [i \in DOMAIN h.queries |-> [h.queries[i] EXCEPT !.before = TRUE]]
<1>1. h.queries \in Seq(Query) /\ h.buckets \in Seq(Bucket)
  BY DEF History
<1>2. \A i \in DOMAIN h.queries : m[i] \in Query
  <2>1. \A i \in DOMAIN h.queries : h.queries[i] \in Query
    BY <1>1
  <2>2. \A e \in Query : [e EXCEPT !.before = TRUE] \in Query
    BY DEF Query
  <2> QED
    BY <2>1, <2>2
<1>3. m \in Seq(Query)
  <2>1. DOMAIN h.queries = 1..Len(h.queries) /\ Len(h.queries) \in Nat
    BY <1>1
  <2>2. m \in [1..Len(h.queries) -> Query]
    BY <1>2, <2>1
  <2> HIDE DEF m
  <2> QED
    BY <2>1, <2>2
<1> QED
  BY <1>1, <1>3 DEF Marked, History

(* TypeOK in named parts.                                                    *)
HistoriesOK == history \in History /\ historyFile \in History
ClockOK     == now \in 0..MaxTime /\ pending \in [Handler -> 0..MaxTime \cup {NoQuery}]

(* The histories in memory and on disk stay histories.                       *)
LEMMA HistoryStep ==
  ASSUME ClockOK, HistoriesOK, [Next]_vars
  PROVE  HistoriesOK'
<1>1. NoHistory \in History
  BY DEF NoHistory, History
<1>2. now \in Nat /\ \A h \in Handler : pending[h] # NoQuery => pending[h] \in Nat
  BY HistoryAssumption DEF ClockOK
<1>3. CASE Boot
  BY <1>1, <1>3, PruneType DEF Boot, HistoriesOK
<1>4. CASE Flush
  BY <1>4, PruneType DEF Flush, HistoriesOK
<1>5. ASSUME NEW h \in Handler, Record(h) PROVE HistoriesOK'
  <2>1. pending[h] \in Nat
    BY <1>2, <1>5 DEF Record
  <2>2. history' = Recorded(Opened(history, pending[h]), pending[h]) \/ history' = history
    BY <1>5 DEF Record
  <2>3. UNCHANGED historyFile
    BY <1>5 DEF Record
  <2> QED
    BY <2>1, <2>2, <2>3, RecordType DEF HistoriesOK
<1>6. ASSUME NEW c \in Client, OptOut(c) PROVE HistoriesOK'
  BY <1>6, MarkType DEF OptOut, HistoriesOK
<1>7. CASE clearHistory
  BY <1>1, <1>7 DEF clearHistory, HistoriesOK
<1>8. CASE Crash
  BY <1>1, <1>8, MarkType DEF Crash, HistoriesOK
<1>9. CASE UNCHANGED <<history, historyFile>>
  BY <1>9 DEF HistoriesOK
<1> QED
  BY <1>3, <1>4, <1>5, <1>6, <1>7, <1>8, <1>9
     DEF Next, vars, Tick, Stamp, OptIn, FinishOptOut, DeleteHistory

(* The clock stays within its bound, and so do the stamps.                   *)
LEMMA ClockStep ==
  ASSUME ClockOK, [Next]_vars
  PROVE  ClockOK'
<1>1. CASE Tick
  BY <1>1, HistoryAssumption DEF Tick, ClockOK
<1>2. ASSUME NEW h \in Handler, Stamp(h) PROVE ClockOK'
  BY <1>2 DEF Stamp, ClockOK
<1>3. ASSUME NEW h \in Handler, Record(h) PROVE ClockOK'
  BY <1>3 DEF Record, ClockOK
<1>4. CASE Crash
  BY <1>4 DEF Crash, ClockOK
<1>5. CASE UNCHANGED <<now, pending>>
  BY <1>5 DEF ClockOK
<1> QED
  BY <1>1, <1>2, <1>3, <1>4, <1>5
     DEF Next, vars, Boot, Flush, OptIn, OptOut, FinishOptOut, DeleteHistory

FlagsOK ==
  /\ up \in BOOLEAN /\ logging \in BOOLEAN /\ loggingFile \in BOOLEAN
  /\ clearing \subseteq Client
  /\ acked \in BOOLEAN /\ refused \in BOOLEAN /\ evicted \in BOOLEAN

(* The flags stay flags.                                                     *)
LEMMA FlagsStep ==
  ASSUME FlagsOK, [Next]_vars
  PROVE  FlagsOK'
<1>1. CASE clearHistory /\ UNCHANGED <<up, logging, loggingFile>> /\ clearing' \subseteq clearing
  BY <1>1, Zenon DEF clearHistory, FlagsOK
<1>2. CASE Tick \/ Boot \/ Flush \/ OptIn \/ Crash
  BY <1>2, Zenon DEF Tick, Boot, Flush, OptIn, Crash, FlagsOK, ghosts
<1>3. ASSUME NEW h \in Handler, Stamp(h) \/ Record(h) PROVE FlagsOK'
  BY <1>3, Zenon DEF Stamp, Record, FlagsOK, ghosts
<1>4. ASSUME NEW c \in Client, OptOut(c) PROVE FlagsOK'
  BY <1>4, Zenon DEF OptOut, FlagsOK, ghosts
<1>5. CASE UNCHANGED vars
  BY <1>5, Zenon DEF vars, FlagsOK
<1> QED
  BY <1>1, <1>2, <1>3, <1>4, <1>5 DEF Next, FinishOptOut, DeleteHistory

(* The parts of TypeOK hold at the start.                                    *)
LEMMA InitTypes == Init => ClockOK /\ HistoriesOK /\ FlagsOK
<1>1. Init => ClockOK
  BY HistoryAssumption DEF Init, ClockOK
<1>2. Init => HistoriesOK
  BY DEF Init, HistoriesOK, NoHistory, History
<1>3. Init => FlagsOK
  BY Zenon DEF Init, FlagsOK
<1> QED
  BY <1>1, <1>2, <1>3

(* The history and its file are what pruning, recording and marking make of  *)
(* a history, in memory and on disk, after any crash.                        *)
THEOREM HistoryTypes == Spec => []TypeOK
<1>1. Init => ClockOK /\ HistoriesOK /\ FlagsOK
  BY InitTypes
<1>2. ClockOK /\ HistoriesOK /\ FlagsOK /\ [Next]_vars => (ClockOK /\ HistoriesOK /\ FlagsOK)'
  BY ClockStep, HistoryStep, FlagsStep
<1>3. ClockOK /\ HistoriesOK /\ FlagsOK => TypeOK
  BY DEF ClockOK, HistoriesOK, FlagsOK, TypeOK
<1> QED
  BY <1>1, <1>2, <1>3, PTL DEF Spec

-----------------------------------------------------------------------------
(* The stamp of a time is at most it and in the same period.                 *)
LEMMA TruncateBounds ==
  ASSUME NEW t \in Nat
  PROVE  Truncate(t) \in Nat /\ Truncate(t) <= t /\ t < Truncate(t) + BucketSpan
<1>1. BucketSpan \in Nat \ {0}
  BY HistoryAssumption
<1>2. t % BucketSpan \in 0..BucketSpan - 1
  BY <1>1
<1> QED
  BY <1>1, <1>2, TruncateType DEF Truncate

(* The buckets are out of order by no more than a late record may be and the *)
(* rest of its period, in memory and on disk.                                *)
Slack == MaxLag + BucketSpan - 1

BucketInv ==
  /\ Near(history.buckets, Bucket, Slack, now)
  /\ Near(historyFile.buckets, Bucket, Slack, now)

LEMMA BucketTimes == Slack \in Nat /\ \A e \in Bucket : e.time \in Nat
BY HistoryAssumption DEF Bucket, Slack

(* Pruning drops the buckets before the window, up to their disorder.        *)
LEMMA PruneBuckets ==
  ASSUME NEW h, NEW n \in Nat, NEW t \in Nat, Near(h.buckets, Bucket, Slack, n)
  PROVE  /\ Near(pruneLocked(h, t).buckets, Bucket, Slack, n)
         /\ \A i \in 1..Len(pruneLocked(h, t).buckets) :
              pruneLocked(h, t).buckets[i].time + Slack >= t - Window
<1>1. t - Window \in Int
  BY HistoryAssumption
<1>2. pruneLocked(h, t).buckets = DropOld(h.buckets, t - Window)
  BY DEF pruneLocked
<1> QED
  BY <1>1, <1>2, DropOldNear, BucketTimes

(* A record opens a bucket of its own period, or counts in the last one.     *)
LEMMA RecordBuckets ==
  ASSUME NEW h, NEW n \in Nat, NEW t \in Nat, Near(h.buckets, Bucket, Slack, n),
         t <= n, n <= t + MaxLag
  PROVE  Near(Recorded(Opened(h, t), t).buckets, Bucket, Slack, n)
<1> DEFINE e == [time |-> Truncate(t), total |-> 0]
           b == Opened(h, t).buckets
           c == [b EXCEPT ![Len(b)].total = @ + 1]
<1>1. e \in Bucket /\ e.time <= n /\ n <= e.time + Slack
  <2>1. Truncate(t) \in Nat /\ Truncate(t) <= t /\ t < Truncate(t) + BucketSpan
    BY TruncateBounds
  <2>2. e \in Bucket /\ e.time = Truncate(t)
    BY <2>1 DEF Bucket
  <2> HIDE DEF e
  <2> QED
    BY <2>1, <2>2, HistoryAssumption DEF Slack
<1>2. Near(b, Bucket, Slack, n)
  <2> DEFINE w == [queries |-> h.queries, buckets |-> Append(h.buckets, e)]
  <2>1. Near(w.buckets, Bucket, Slack, n)
    <3> HIDE DEF e
    <3> QED
      BY <1>1, AppendNear, BucketTimes
  <2>2. Opened(h, t) = h \/ Opened(h, t) = pruneLocked(w, t)
    BY DEF Opened
  <2> HIDE DEF w, e
  <2>3. Near(pruneLocked(w, t).buckets, Bucket, Slack, n)
    BY <2>1, PruneBuckets
  <2> QED
    BY <2>2, <2>3
<1>3. Recorded(Opened(h, t), t).buckets = c
  BY DEF Recorded
<1> HIDE DEF b
<1>4. b \in [1..Len(b) -> Bucket] /\ Len(b) \in Nat
  BY <1>2 DEF Near
<1>5. \A x \in Bucket : /\ [x EXCEPT !.total = @ + 1] \in Bucket
                        /\ [x EXCEPT !.total = @ + 1].time = x.time
  BY DEF Bucket
<1>6. \A i \in 1..Len(b) : c[i] = IF i = Len(b) THEN [b[i] EXCEPT !.total = @ + 1] ELSE b[i]
  BY <1>4
<1>7. \A i \in 1..Len(b) : c[i] \in Bucket /\ c[i].time = b[i].time
  <2> HIDE DEF c
  <2>1. \A i \in 1..Len(b) : b[i] \in Bucket
    BY <1>4
  <2> QED
    BY <1>5, <1>6, <2>1, ZenonT(30)
<1>8. c \in [1..Len(b) -> Bucket]
  BY <1>4, <1>7
<1> HIDE DEF c
<1>9. c \in Seq(Bucket) /\ Len(c) = Len(b)
  BY <1>4, <1>8
<1>10. Near(c, Bucket, Slack, n)
  <2>1. \A i \in 1..Len(c) : i \in 1..Len(b) /\ c[i].time = b[i].time
    BY <1>7, <1>9
  <2>2. \A i \in 1..Len(c) : c[i].time <= n
    BY <1>2, <2>1 DEF Near
  <2>3. \A i, j \in 1..Len(c) : i < j => c[i].time <= c[j].time + Slack
    BY <1>2, <2>1 DEF Near
  <2> QED
    BY <1>9, <2>2, <2>3 DEF Near
<1> QED
  BY <1>3, <1>10

(* The empty history has no bucket, and the mark of the model leaves them.   *)
LEMMA OtherBuckets ==
  ASSUME NEW n \in Nat, NEW h
  PROVE  Near(NoHistory.buckets, Bucket, Slack, n) /\ Marked(h).buckets = h.buckets
BY DEF Near, NoHistory, Marked

(* Every step keeps the order of the buckets.                                *)
LEMMA StepBuckets == RetentionInv /\ BucketInv /\ [Next]_vars => BucketInv'
<1> SUFFICES ASSUME RetentionInv, BucketInv, [Next]_vars PROVE BucketInv'
  OBVIOUS
<1> USE DEF BucketInv
<1>1. now \in Nat
  BY DEF RetentionInv
<1>2. CASE Tick
  <2>1. \A b : Near(b, Bucket, Slack, now) => Near(b, Bucket, Slack, now + 1)
    <3> SUFFICES ASSUME NEW b, Near(b, Bucket, Slack, now)
                 PROVE  Near(b, Bucket, Slack, now + 1)
      OBVIOUS
    <3>1. \A i \in 1..Len(b) : b[i].time \in Nat
      BY ElementOfSeq, BucketTimes DEF Near
    <3> QED
      BY <1>1, <3>1 DEF Near
  <2> QED
    BY <1>2, <2>1 DEF Tick
<1>3. CASE Boot
  BY <1>1, <1>3, PruneBuckets, OtherBuckets DEF Boot
<1>4. ASSUME NEW h \in Handler, Record(h) PROVE BucketInv'
  <2>1. pending[h] \in Nat /\ pending[h] <= now /\ now <= pending[h] + MaxLag
    BY <1>4 DEF Record, RetentionInv
  <2>2. /\ UNCHANGED <<now, historyFile>>
        /\ \/ history' = history
           \/ history' = Recorded(Opened(history, pending[h]), pending[h])
    BY <1>4 DEF Record
  <2> QED
    BY <1>1, <2>1, <2>2, RecordBuckets
<1>5. CASE Flush
  <2>1. /\ history' = pruneLocked(history, now)
        /\ historyFile' \in {historyFile, history'} /\ now' = now
    BY <1>5 DEF Flush
  <2> QED
    BY <1>1, <2>1, PruneBuckets
<1>6. ASSUME NEW c \in Client, OptOut(c) PROVE BucketInv'
  BY <1>1, <1>6, OtherBuckets DEF OptOut
<1>7. CASE UNCHANGED now /\ clearHistory
  BY <1>1, <1>7, OtherBuckets DEF clearHistory
<1>8. CASE Crash
  <2>1. /\ history' = NoHistory /\ now' = now
        /\ historyFile' \in {historyFile, Marked(historyFile), NoHistory}
    BY <1>8 DEF Crash
  <2> QED
    BY <1>1, <2>1, OtherBuckets
<1>9. CASE UNCHANGED <<now, history, historyFile>>
  BY <1>9
<1> QED
  BY <1>2, <1>3, <1>4, <1>5, <1>6, <1>7, <1>8, <1>9
     DEF Next, vars, Stamp, OptIn, FinishOptOut, DeleteHistory

(* What a write of history.json holds is no older than the window, the       *)
(* longest wait for the mutex and, for a bucket, its period together.        *)
THEOREM RetentionHolds == Spec => RetentionLimited
<1>1. Init => BucketInv
  BY OtherBuckets DEF Init, BucketInv
<1>2. RetentionInv /\ BucketInv /\ [Next]_vars =>
        [historyFile' # historyFile /\ up' /\ clearing' = clearing =>
           /\ \A i \in DOMAIN historyFile'.queries :
                historyFile'.queries[i].time + MaxLag >= now - Window
           /\ \A i \in DOMAIN historyFile'.buckets :
                historyFile'.buckets[i].time + BucketSpan + MaxLag > now - Window]_vars
  <2> SUFFICES ASSUME RetentionInv, BucketInv, [Next]_vars,
                      historyFile' # historyFile, up', clearing' = clearing
               PROVE  /\ \A i \in DOMAIN historyFile'.queries :
                           historyFile'.queries[i].time + MaxLag >= now - Window
                      /\ \A i \in DOMAIN historyFile'.buckets :
                           historyFile'.buckets[i].time + BucketSpan + MaxLag > now - Window
    OBVIOUS
  <2>1. CASE Flush
    <3> DEFINE p == pruneLocked(history, now)
    <3>1. historyFile' = p /\ now \in Nat
      BY <2>1 DEF Flush, RetentionInv
    <3>2. /\ Fits(p.queries, now)
          /\ \A i \in 1..Len(p.queries) : p.queries[i].time + MaxLag >= now - Window
      BY PruneFits DEF RetentionInv
    <3>3. /\ Near(p.buckets, Bucket, Slack, now)
          /\ \A i \in 1..Len(p.buckets) : p.buckets[i].time + Slack >= now - Window
      BY <3>1, PruneBuckets DEF BucketInv
    <3> HIDE DEF p
    <3>4. DOMAIN p.queries = 1..Len(p.queries)
      BY <3>2 DEF Fits, Near
    <3>5. DOMAIN p.buckets = 1..Len(p.buckets) /\ \A i \in 1..Len(p.buckets) : p.buckets[i] \in Bucket
      BY <3>3 DEF Near
    <3>6. \A i \in 1..Len(p.buckets) : p.buckets[i].time + BucketSpan + MaxLag > now - Window
      BY <3>1, <3>3, <3>5, BucketTimes, HistoryAssumption, SMTT(20) DEF Slack
    <3> QED
      BY <3>1, <3>2, <3>4, <3>5, <3>6
  <2>2. CASE DeleteHistory
    BY <2>2 DEF DeleteHistory, clearHistory, NoHistory
  <2> QED
    BY <2>1, <2>2
    DEF Next, Tick, Boot, Stamp, Record, OptIn, OptOut, FinishOptOut, Crash, vars
<1> QED
  BY <1>1, <1>2, StepBuckets, InitRetention, StepRetention, PTL DEF Spec, RetentionLimited

(* What a bucket has counted, pair by pair.                                  *)
LEMMA CountedMember ==
  ASSUME NEW h, NEW s, h.buckets \in Seq(Bucket)
  PROVE  \A p : p \in Counted(h, s) <=>
           \E k \in 1..Len(h.buckets) : \E n \in 1..h.buckets[k].total :
             h.buckets[k].time = s /\ p = <<k, n>>
<1>1. DOMAIN h.buckets = 1..Len(h.buckets)
  OBVIOUS
<1>2. Counted(h, s) = UNION {{k} \X (1..h.buckets[k].total) :
                       k \in {j \in 1..Len(h.buckets) : h.buckets[j].time = s}}
  BY <1>1 DEF Counted
<1> QED
  BY <1>2

(* Both sides of the chart are finite.                                       *)
LEMMA ChartFinite ==
  ASSUME NEW h \in History, NEW s
  PROVE  IsFiniteSet(Listed(h, s)) /\ IsFiniteSet(Counted(h, s))
<1>1. h.queries \in Seq(Query) /\ h.buckets \in Seq(Bucket)
  BY DEF History
<1>2. IsFiniteSet(Listed(h, s))
  <2>1. IsFiniteSet(1..Len(h.queries))
    BY <1>1, FS_Interval
  <2>2. Listed(h, s) \in SUBSET (1..Len(h.queries))
    BY <1>1 DEF Listed
  <2> QED
    BY <2>1, <2>2, FS_Subset
<1>3. IsFiniteSet(Counted(h, s))
  <2> DEFINE K  == {j \in DOMAIN h.buckets : h.buckets[j].time = s}
             of == [k \in K |-> {k} \X (1..h.buckets[k].total)]
             T  == {{k} \X (1..h.buckets[k].total) : k \in K}
  <2>1. IsFiniteSet(K)
    <3>1. IsFiniteSet(1..Len(h.buckets))
      BY <1>1, FS_Interval
    <3>2. K \in SUBSET (1..Len(h.buckets))
      BY <1>1
    <3> QED
      BY <3>1, <3>2, FS_Subset
  <2>2. \A x \in T : IsFiniteSet(x)
    <3>1. SUFFICES ASSUME NEW k \in K PROVE IsFiniteSet({k} \X (1..h.buckets[k].total))
      OBVIOUS
    <3>2. h.buckets[k] \in Bucket
      BY <1>1
    <3>3. h.buckets[k].total \in Nat
      BY <3>2 DEF Bucket
    <3>4. IsFiniteSet(1..h.buckets[k].total)
      BY <3>3, FS_Interval
    <3>5. IsFiniteSet({k})
      BY FS_Singleton
    <3> QED
      BY <3>4, <3>5, FS_Product
  <2>3. of \in [K -> T] /\ \A x \in T : \E k \in K : of[k] = x
    OBVIOUS
  <2>4. Counted(h, s) = UNION T
    BY DEF Counted
  <2> HIDE DEF K, of, T
  <2>5. IsFiniteSet(T)
    <3>1. of \in Surjection(K, T)
      BY <2>3, Fun_IsSurj
    <3> QED
      BY <2>1, <3>1, FS_Surjection
  <2> QED
    BY <2>2, <2>4, <2>5, FS_UNION
<1> QED
  BY <1>2, <1>3

(* Dropping a prefix lists no more, and as much if what is dropped has other *)
(* stamps.                                                                   *)
LEMMA ListedOfSuffix ==
  ASSUME NEW h \in History, NEW g, NEW s,
         NEW m \in 1..Len(h.queries) + 1,
         g.queries = SubSeq(h.queries, m, Len(h.queries))
  PROVE  /\ Cardinality(Listed(g, s)) <= Cardinality(Listed(h, s))
         /\ (\A i \in 1..m - 1 : Truncate(h.queries[i].time) # s) =>
              Cardinality(Listed(g, s)) = Cardinality(Listed(h, s))
<1> DEFINE q == h.queries
           p == g.queries
           A == Listed(g, s)
           B == Listed(h, s)
           f == [k \in A |-> k + m - 1]
<1>1. q \in Seq(Query) /\ Len(q) \in Nat
  BY DEF History
<1>2. /\ p \in Seq(Query) /\ DOMAIN p = 1..Len(p) /\ Len(p) = Len(q) - m + 1
      /\ \A i \in 1..Len(p) : p[i] = q[m + i - 1]
  <2>1. \A i \in m..Len(q) : q[i] \in Query
    BY <1>1
  <2> QED
    BY <1>1, <2>1, SubSeqProperties
<1>3. A = {k \in 1..Len(p) : Truncate(q[m + k - 1].time) = s}
  BY <1>2 DEF Listed
<1>4. B = {k \in 1..Len(q) : Truncate(q[k].time) = s}
  BY <1>1 DEF Listed
<1>5. \A k \in A : k \in Int /\ f[k] = k + m - 1 /\ f[k] \in B
  BY <1>1, <1>2, <1>3, <1>4
<1>6. IsFiniteSet(B)
  BY ChartFinite
<1>7. ASSUME \A i \in 1..m - 1 : Truncate(h.queries[i].time) # s
      PROVE  \A j \in B : \E k \in A : f[k] = j
  <2> SUFFICES ASSUME NEW j \in B PROVE j - m + 1 \in A /\ f[j - m + 1] = j
    OBVIOUS
  <2>1. j \in m..Len(q) /\ Truncate(q[j].time) = s
    BY <1>1, <1>4, <1>7
  <2>2. j - m + 1 \in 1..Len(p) /\ m + (j - m + 1) - 1 = j
    BY <1>1, <1>2, <2>1
  <2>3. j - m + 1 \in A
    BY <1>3, <2>1, <2>2
  <2> QED
    BY <1>5, <2>1, <2>3
<1>8. f \in [A -> B]
  BY <1>5
<1> HIDE DEF A, B, f
<1>9. f \in Injection(A, B)
  BY <1>5, <1>8, Fun_IsInj
<1>10. /\ Cardinality(A) <= Cardinality(B)
       /\ Cardinality(A) = Cardinality(B) <=> f \in Surjection(A, B)
  BY <1>6, <1>9, FS_Injection
<1>11. (\A i \in 1..m - 1 : Truncate(h.queries[i].time) # s) => f \in Surjection(A, B)
  BY <1>7, <1>8, Fun_IsSurj
<1> QED
  BY <1>10, <1>11 DEF A, B

(* Dropping buckets of other stamps leaves what the rest has counted.        *)
LEMMA CountedOfSuffix ==
  ASSUME NEW h \in History, NEW g, NEW s,
         NEW m \in 1..Len(h.buckets) + 1,
         g.buckets = SubSeq(h.buckets, m, Len(h.buckets)),
         \A i \in 1..m - 1 : h.buckets[i].time # s
  PROVE  Cardinality(Counted(g, s)) = Cardinality(Counted(h, s))
<1> DEFINE q == h.buckets
           p == g.buckets
           A == Counted(g, s)
           B == Counted(h, s)
           f == [x \in A |-> <<x[1] + m - 1, x[2]>>]
<1>1. q \in Seq(Bucket) /\ Len(q) \in Nat
  BY DEF History
<1>2. /\ p \in Seq(Bucket) /\ DOMAIN p = 1..Len(p) /\ Len(p) = Len(q) - m + 1
      /\ \A i \in 1..Len(p) : p[i] = q[m + i - 1]
  <2>1. \A i \in m..Len(q) : q[i] \in Bucket
    BY <1>1
  <2> QED
    BY <1>1, <2>1, SubSeqProperties
<1>3. \A x : x \in A <=> \E k \in 1..Len(p) : \E n \in 1..p[k].total : p[k].time = s /\ x = <<k, n>>
  <2>1. g.buckets \in Seq(Bucket)
    BY <1>2
  <2> QED
    BY <2>1, CountedMember
<1>4. \A x : x \in B <=> \E k \in 1..Len(q) : \E n \in 1..q[k].total : q[k].time = s /\ x = <<k, n>>
  BY <1>1, CountedMember
<1>5. \A x \in A : f[x] = <<x[1] + m - 1, x[2]>>
  OBVIOUS
<1>6. \A x \in A : f[x] \in B /\ x = <<x[1], x[2]>> /\ x[1] \in Int
  <2> SUFFICES ASSUME NEW x \in A
               PROVE f[x] \in B /\ x = <<x[1], x[2]>> /\ x[1] \in Int
    OBVIOUS
  <2>1. PICK k \in 1..Len(p) : \E n \in 1..p[k].total : p[k].time = s /\ x = <<k, n>>
    BY <1>3
  <2>0. PICK n \in 1..p[k].total : p[k].time = s /\ x = <<k, n>>
    BY <2>1
  <2>2. f[x] = <<k + m - 1, n>>
    BY <1>5, <2>0
  <2>3. k + m - 1 \in 1..Len(q) /\ p[k] = q[k + m - 1]
    BY <1>1, <1>2
  <2> HIDE DEF A, B, f, p, q
  <2>4. <<k + m - 1, n>> \in B
    BY <1>4, <2>0, <2>3
  <2> QED
    BY <2>0, <2>2, <2>4
<1>7. \A y \in B : \E x \in A : f[x] = y
  <2> SUFFICES ASSUME NEW y \in B PROVE \E x \in A : f[x] = y
    OBVIOUS
  <2>1. PICK k \in 1..Len(q) : \E n \in 1..q[k].total : q[k].time = s /\ y = <<k, n>>
    BY <1>4
  <2>0. PICK n \in 1..q[k].total : q[k].time = s /\ y = <<k, n>>
    BY <2>1
  <2>2. k \in m..Len(q)
    BY <1>1, <2>0
  <2> DEFINE j == k - m + 1
  <2>3. j \in 1..Len(p) /\ m + j - 1 = k /\ j + m - 1 = k
    BY <1>1, <1>2, <2>2
  <2>4. p[j] = q[k]
    BY <1>2, <2>3
  <2> HIDE DEF A, B, f, p, q, j
  <2>5. <<j, n>> \in A
    BY <1>3, <2>0, <2>3, <2>4
  <2>6. f[<<j, n>>] = y
    BY <1>5, <2>0, <2>3, <2>5
  <2> QED
    BY <2>5, <2>6
<1>8. f \in [A -> B]
  BY <1>6
<1> HIDE DEF A, B, f
<1>9. \A x, y \in A : f[x] = f[y] => x = y
  <2> SUFFICES ASSUME NEW x \in A, NEW y \in A, f[x] = f[y] PROVE x = y
    OBVIOUS
  <2>1. x[1] + m - 1 = y[1] + m - 1 /\ x[2] = y[2]
    BY <1>5
  <2>2. x[1] = y[1]
    BY <1>1, <1>6, <2>1
  <2>3. <<x[1], x[2]>> = <<y[1], y[2]>>
    BY <2>1, <2>2
  <2> QED
    BY <1>6, <2>3, Zenon
<1>10. f \in Injection(A, B) /\ f \in Surjection(A, B)
  BY <1>7, <1>8, <1>9, Fun_IsInj, Fun_IsSurj
<1>11. IsFiniteSet(B)
  BY ChartFinite DEF B
<1> QED
  BY <1>10, <1>11, FS_Injection DEF A, B

-----------------------------------------------------------------------------
(* For every stamp in the window that ends at t, what h lists and what its   *)
(* buckets have counted; e: the limit has pushed queries out.                *)
Charts(h, t, e) ==
  \A s \in Nat : s > t - Window =>
    /\ Cardinality(Listed(h, s)) <= Cardinality(Counted(h, s))
    /\ e \/ Cardinality(Listed(h, s)) = Cardinality(Counted(h, s))

(* The stamps in the window lose neither queries nor buckets when a history  *)
(* within the limit is pruned at an earlier time.                            *)
LEMMA PruneCharts ==
  ASSUME NEW h \in History, NEW t \in Nat, NEW u \in Nat, u <= t, NEW e,
         Len(h.queries) <= MaxQueries, Charts(h, t, e)
  PROVE  Charts(pruneLocked(h, u), t, e)
<1> DEFINE c == u - Window
           g == pruneLocked(h, u)
           q == DropOld(h.queries, c)
<1>1. h.queries \in Seq(Query) /\ h.buckets \in Seq(Bucket) /\ Len(h.queries) \in Nat
  BY DEF History
<1>2. PICK m \in 1..Len(h.queries) + 1 :
        /\ q = SubSeq(h.queries, m, Len(h.queries))
        /\ \A i \in 1..m - 1 : ~(h.queries[i].time >= c)
  BY <1>1, DropOldIsSuffix
<1>3. PICK n \in 1..Len(h.buckets) + 1 :
        /\ DropOld(h.buckets, c) = SubSeq(h.buckets, n, Len(h.buckets))
        /\ \A i \in 1..n - 1 : ~(h.buckets[i].time >= c)
  BY <1>1, DropOldIsSuffix
<1>4. g.queries = q
  <2>1. \A i \in m..Len(h.queries) : h.queries[i] \in Query
    BY <1>1
  <2>2. Len(SubSeq(h.queries, m, Len(h.queries))) <= MaxQueries
    BY <1>1, <2>1, SubSeqProperties, HistoryAssumption
  <2>3. ~(Len(q) > MaxQueries)
    BY <1>1, <1>2, <2>1, <2>2, SubSeqProperties, HistoryAssumption
  <2> QED
    BY <2>3 DEF pruneLocked, Newest
<1>5. g.buckets = DropOld(h.buckets, c)
  BY DEF pruneLocked
<1>6. c \in Int /\ c <= t - Window
  BY HistoryAssumption
<1> HIDE DEF g, q, c
<1>7. ASSUME NEW s \in Nat, s > t - Window
      PROVE  /\ Cardinality(Listed(g, s)) = Cardinality(Listed(h, s))
             /\ Cardinality(Counted(g, s)) = Cardinality(Counted(h, s))
  <2>1. \A i \in 1..m - 1 : Truncate(h.queries[i].time) # s
    <3> SUFFICES ASSUME NEW i \in 1..m - 1 PROVE Truncate(h.queries[i].time) # s
      OBVIOUS
    <3>1. h.queries[i] \in Query
      BY <1>1
    <3>2. h.queries[i].time \in Nat
      BY <3>1 DEF Query
    <3> DEFINE x == h.queries[i].time
    <3>3. Truncate(x) \in Nat /\ Truncate(x) <= x
      BY <3>2, TruncateBounds
    <3>4. ~(x >= c)
      BY <1>2
    <3> HIDE DEF x
    <3>5. Truncate(x) # s
      BY <1>6, <1>7, <3>2, <3>3, <3>4, HistoryAssumption DEF x
    <3> QED
      BY <3>5 DEF x
  <2>2. \A i \in 1..n - 1 : h.buckets[i].time # s
    <3> SUFFICES ASSUME NEW i \in 1..n - 1 PROVE h.buckets[i].time # s
      OBVIOUS
    <3>1. h.buckets[i] \in Bucket
      BY <1>1
    <3>2. h.buckets[i].time \in Nat
      BY <3>1 DEF Bucket
    <3>3. ~(h.buckets[i].time >= c)
      BY <1>3
    <3> QED
      BY <1>6, <1>7, <3>2, <3>3, HistoryAssumption, SMTT(20)
  <2>3. Cardinality(Listed(g, s)) = Cardinality(Listed(h, s))
    BY <1>2, <1>4, <2>1, ListedOfSuffix
  <2>4. Cardinality(Counted(g, s)) = Cardinality(Counted(h, s))
    BY <1>3, <1>5, <2>2, CountedOfSuffix
  <2> QED
    BY <2>3, <2>4
<1>8. Charts(g, t, e)
  BY <1>7 DEF Charts
<1> QED
  BY <1>8 DEF g

(* A bucket opened for the period of a query charts as before, and is the    *)
(* last one: pruning never drops it, since no period is longer than the      *)
(* window.                                                                   *)
LEMMA OpenedCharts ==
  ASSUME NEW h \in History, NEW t \in Nat, NEW u \in Nat, u <= t, NEW e,
         Len(h.queries) <= MaxQueries, Charts(h, t, e)
  PROVE  /\ Opened(h, u) \in History
         /\ Charts(Opened(h, u), t, e)
         /\ Len(Opened(h, u).buckets) > 0
         /\ Opened(h, u).buckets[Len(Opened(h, u).buckets)].time = Truncate(u)
<1>1. h.queries \in Seq(Query) /\ h.buckets \in Seq(Bucket) /\ Len(h.buckets) \in Nat
  BY DEF History
<1>2. CASE h.buckets # << >> /\ h.buckets[Len(h.buckets)].time = Truncate(u)
  BY <1>1, <1>2 DEF Opened
<1>3. CASE ~(h.buckets # << >> /\ h.buckets[Len(h.buckets)].time = Truncate(u))
  <2> DEFINE bucket == [time |-> Truncate(u), total |-> 0]
             b == Append(h.buckets, bucket)
             w == [queries |-> h.queries, buckets |-> b]
             g == pruneLocked(w, u)
  <2>1. bucket \in Bucket
    BY TruncateType DEF Bucket
  <2>2. /\ b \in Seq(Bucket) /\ Len(b) = Len(h.buckets) + 1
        /\ \A i \in 1..Len(h.buckets) : b[i] = h.buckets[i]
        /\ b[Len(b)] = bucket
    <3> HIDE DEF bucket
    <3> QED
      BY <1>1, <2>1, AppendProperties
  <2>3. w \in History
    BY <1>1, <2>2 DEF History
  <2>4. Opened(h, u) = g
    BY <1>3 DEF Opened
  <2>5. \A s \in Nat : Listed(w, s) = Listed(h, s) /\ Counted(w, s) = Counted(h, s)
    <3> SUFFICES ASSUME NEW s \in Nat
                 PROVE  Listed(w, s) = Listed(h, s) /\ Counted(w, s) = Counted(h, s)
      OBVIOUS
    <3>1. Listed(w, s) = Listed(h, s)
      BY DEF Listed
    <3>2. w.buckets = b
      OBVIOUS
    <3>3. b[Len(b)].total = 0
      BY <2>2
    <3> HIDE DEF w, b
    <3>4. \A p : p \in Counted(w, s) <=>
            \E k \in 1..Len(b) : \E n \in 1..b[k].total : b[k].time = s /\ p = <<k, n>>
      <4>1. w.buckets \in Seq(Bucket)
        BY <2>2, <3>2
      <4> QED
        BY <3>2, <4>1, CountedMember
    <3>5. \A p : p \in Counted(h, s) <=>
            \E k \in 1..Len(h.buckets) : \E n \in 1..h.buckets[k].total :
              h.buckets[k].time = s /\ p = <<k, n>>
      <4>1. h.buckets \in Seq(Bucket)
        BY <1>1
      <4> QED
        BY <4>1, CountedMember
    <3>6. \A k \in 1..Len(b) : k \in 1..Len(h.buckets) \/ k = Len(b)
      BY <1>1, <2>2
    <3>7. 1..Len(h.buckets) \subseteq 1..Len(b)
      BY <1>1, <2>2
    <3>8. 1..b[Len(b)].total = {}
      BY <3>3
    <3>9. ASSUME NEW p, p \in Counted(w, s) PROVE p \in Counted(h, s)
      <4>1. PICK k \in 1..Len(b) : \E n \in 1..b[k].total : b[k].time = s /\ p = <<k, n>>
        BY <3>4, <3>9
      <4>2. k \in 1..Len(h.buckets) /\ b[k] = h.buckets[k]
        BY <2>2, <3>6, <3>8, <4>1
      <4> QED
        BY <3>5, <4>1, <4>2
    <3>10. ASSUME NEW p, p \in Counted(h, s) PROVE p \in Counted(w, s)
      <4>1. PICK k \in 1..Len(h.buckets) : \E n \in 1..h.buckets[k].total :
              h.buckets[k].time = s /\ p = <<k, n>>
        BY <3>5, <3>10
      <4>2. k \in 1..Len(b) /\ b[k] = h.buckets[k]
        BY <2>2, <3>7
      <4> QED
        BY <3>4, <4>1, <4>2
    <3> QED
      BY <3>1, <3>9, <3>10
  <2>6. Charts(w, t, e)
    <3> HIDE DEF w
    <3> QED
      BY <2>5 DEF Charts
  <2>7. Len(w.queries) <= MaxQueries
    OBVIOUS
  <2>8. Charts(g, t, e) /\ g \in History
    <3> HIDE DEF w
    <3> QED
      BY <2>3, <2>6, <2>7, PruneCharts, PruneType
  <2>9. PICK m \in 1..Len(b) + 1 :
          /\ DropOld(b, u - Window) = SubSeq(b, m, Len(b))
          /\ \A i \in 1..m - 1 : ~(b[i].time >= u - Window)
    <3> HIDE DEF b
    <3> QED
      BY <2>2, DropOldIsSuffix
  <2>10. g.buckets = SubSeq(b, m, Len(b))
    BY <2>9 DEF pruneLocked
  <2>11. b[Len(b)].time = Truncate(u)
    BY <2>2
  <2> HIDE DEF b, g
  <2>12. m <= Len(b)
    <3>1. Truncate(u) \in Nat /\ u < Truncate(u) + BucketSpan
      BY TruncateBounds
    <3>2. b[Len(b)].time >= u - Window
      BY <2>11, <3>1, HistoryAssumption
    <3> QED
      BY <1>1, <2>2, <2>9, <3>2
  <2>13. /\ Len(g.buckets) = Len(b) - m + 1
         /\ g.buckets[Len(b) - m + 1] = b[Len(b)]
    <3>1. Len(b) \in Nat /\ \A i \in m..Len(b) : b[i] \in Bucket
      BY <2>2
    <3>2. /\ Len(SubSeq(b, m, Len(b))) = Len(b) - m + 1
          /\ \A i \in 1..Len(b) - m + 1 : SubSeq(b, m, Len(b))[i] = b[m + i - 1]
      BY <2>12, <3>1, SubSeqProperties
    <3>3. Len(b) - m + 1 \in 1..Len(b) - m + 1 /\ m + (Len(b) - m + 1) - 1 = Len(b)
      BY <2>12, <3>1
    <3> QED
      BY <2>10, <3>2, <3>3
  <2> QED
    BY <1>1, <2>2, <2>4, <2>8, <2>11, <2>12, <2>13
<1> QED
  BY <1>2, <1>3

(* One query more in the list is one more in the last bucket.                *)
LEMMA RecordedCharts ==
  ASSUME NEW h \in History, NEW t, NEW u \in Nat, NEW e \in BOOLEAN,
         Len(h.queries) <= MaxQueries, Charts(h, t, e),
         Len(h.buckets) > 0, h.buckets[Len(h.buckets)].time = Truncate(u)
  PROVE  Charts(Recorded(h, u), t, e \/ Len(h.queries) >= MaxQueries)
<1> DEFINE q    == h.queries
           b    == h.buckets
           full == Len(q) >= MaxQueries
           r    == IF full THEN SubSeq(q, 2, MaxQueries) ELSE q
           y    == [time |-> u, before |-> FALSE]
           l    == Append(r, y)
           g    == [queries |-> r, buckets |-> b]
           n    == Len(b)
           c    == [b EXCEPT ![n].total = @ + 1]
           z    == Recorded(h, u)
<1>1. q \in Seq(Query) /\ b \in Seq(Bucket) /\ Len(q) \in Nat /\ n \in Nat /\ n \in 1..n
  BY DEF History
<1>2. z.queries = l /\ z.buckets = c
  BY DEF Recorded
<1>3. \E m \in 1..Len(q) + 1 : r = SubSeq(q, m, Len(q)) /\ (m = 1 \/ full)
  <2>1. CASE full
    <3>1. Len(q) = MaxQueries /\ 2 \in 1..Len(q) + 1
      BY <1>1, <2>1, HistoryAssumption
    <3>2. r = SubSeq(q, 2, Len(q))
      BY <2>1, <3>1
    <3> HIDE DEF r, full
    <3> QED
      BY <2>1, <3>1, <3>2
  <2>2. CASE ~full
    <3>1. SubSeq(q, 1, Len(q)) = q /\ 1 \in 1..Len(q) + 1
      BY <1>1
    <3>2. r = q
      BY <2>2
    <3> HIDE DEF r, full
    <3> QED
      BY <3>1, <3>2
  <2> QED
    BY <2>1, <2>2
<1> HIDE DEF r
<1>4. PICK m \in 1..Len(q) + 1 : r = SubSeq(q, m, Len(q)) /\ (m = 1 \/ full)
  BY <1>3
<1>5. r \in Seq(Query) /\ Len(r) \in Nat
  <2>1. \A i \in m..Len(q) : q[i] \in Query
    BY <1>1
  <2>2. SubSeq(q, m, Len(q)) \in Seq(Query)
    BY <1>1, <2>1, SubSeqProperties
  <2> QED
    BY <1>4, <2>2
<1>6. \A s : /\ Cardinality(Listed(g, s)) <= Cardinality(Listed(h, s))
             /\ ~full => Cardinality(Listed(g, s)) = Cardinality(Listed(h, s))
  <2>1. g.queries = SubSeq(h.queries, m, Len(h.queries))
    BY <1>4
  <2>2. ~full => \A i \in 1..m - 1 : FALSE
    BY <1>4
  <2> HIDE DEF g
  <2> QED
    BY <2>1, <2>2, ListedOfSuffix
<1>7. g \in History
  BY <1>1, <1>5 DEF History
<1>8. y \in Query
  BY DEF Query
<1> HIDE DEF y
<1>9. /\ l \in Seq(Query) /\ Len(l) = Len(r) + 1
      /\ \A i \in 1..Len(r) : l[i] = r[i]
      /\ l[Len(r) + 1] = y
  BY <1>5, <1>8, AppendProperties
<1>10. DOMAIN l = 1..Len(r) + 1 /\ DOMAIN r = 1..Len(r) /\ y.time = u
  BY <1>5, <1>9 DEF y
<1>11. \A s : Listed(z, s) = IF s = Truncate(u) THEN Listed(g, s) \cup {Len(r) + 1}
                             ELSE Listed(g, s)
  <2> SUFFICES ASSUME NEW s
               PROVE  Listed(z, s) = IF s = Truncate(u) THEN Listed(g, s) \cup {Len(r) + 1}
                                     ELSE Listed(g, s)
    OBVIOUS
  <2>1. Listed(z, s) = {k \in 1..Len(r) + 1 : Truncate(l[k].time) = s}
    BY <1>2, <1>10 DEF Listed
  <2>2. Listed(g, s) = {k \in 1..Len(r) : Truncate(r[k].time) = s}
    BY <1>10 DEF Listed
  <2>3. \A k \in 1..Len(r) + 1 : k \in 1..Len(r) \/ k = Len(r) + 1
    BY <1>5
  <2>4. 1..Len(r) \subseteq 1..Len(r) + 1 /\ Len(r) + 1 \in 1..Len(r) + 1
    BY <1>5
  <2>5. \A k \in 1..Len(r) : Truncate(l[k].time) = Truncate(r[k].time)
    BY <1>9
  <2>6. Truncate(l[Len(r) + 1].time) = Truncate(u)
    BY <1>9, <1>10
  <2> HIDE DEF l, z, g
  <2>7. \A k : k \in Listed(z, s) <=>
                 k \in Listed(g, s) \/ (k = Len(r) + 1 /\ s = Truncate(u))
    BY <2>1, <2>2, <2>3, <2>4, <2>5, <2>6
  <2> QED
    BY <2>7
<1>12. \A s : Len(r) + 1 \notin Listed(g, s)
  BY <1>5, <1>10 DEF Listed
<1>13. /\ c \in Seq(Bucket) /\ Len(c) = n
       /\ \A i \in 1..n : c[i].time = b[i].time
       /\ \A i \in 1..n : c[i].total = IF i = n THEN b[i].total + 1 ELSE b[i].total
  <2>1. \A i \in 1..n : b[i] \in Bucket
    BY <1>1
  <2>2. b \in [1..n -> Bucket]
    BY <1>1
  <2> HIDE DEF b, n
  <2>3. \A i \in 1..n : c[i] = IF i = n THEN [b[i] EXCEPT !.total = @ + 1] ELSE b[i]
    BY <1>1, <2>2
  <2>4. \A x \in Bucket : /\ [x EXCEPT !.total = @ + 1] \in Bucket
                          /\ [x EXCEPT !.total = @ + 1].time = x.time
                          /\ [x EXCEPT !.total = @ + 1].total = x.total + 1
    BY DEF Bucket
  <2>5. \A i \in 1..n : c[i] \in Bucket
    BY <2>1, <2>3, <2>4
  <2>6. c \in [1..n -> Bucket]
    BY <2>2, <2>5
  <2>7. c \in Seq(Bucket) /\ Len(c) = n
    <3> HIDE DEF c
    <3> QED
      BY <1>1, <2>6
  <2> HIDE DEF c
  <2>8. \A i \in 1..n : c[i].time = b[i].time
    BY <2>1, <2>3, <2>4
  <2>9. \A i \in 1..n : c[i].total = IF i = n THEN b[i].total + 1 ELSE b[i].total
    BY <2>1, <2>3, <2>4
  <2> QED
    BY <2>7, <2>8, <2>9
<1> DEFINE new == <<n, b[n].total + 1>>
<1>14. b[n].total \in Nat
  <2>1. b[n] \in Bucket
    BY <1>1
  <2> QED
    BY <2>1 DEF Bucket
<1>15. \A s, p : p \in Counted(h, s) <=>
         \E k \in 1..n : \E i \in 1..b[k].total : b[k].time = s /\ p = <<k, i>>
  BY <1>1, CountedMember
<1>16. \A s, p : p \in Counted(z, s) <=>
         \E k \in 1..n : \E i \in 1..c[k].total : c[k].time = s /\ p = <<k, i>>
  <2> HIDE DEF b, c, n, z
  <2>1. z.buckets \in Seq(Bucket) /\ Len(z.buckets) = n /\ z.buckets = c
    BY <1>2, <1>13
  <2>2. ASSUME NEW s
        PROVE  \A p : p \in Counted(z, s) <=>
                 \E k \in 1..Len(z.buckets) : \E i \in 1..z.buckets[k].total :
                   z.buckets[k].time = s /\ p = <<k, i>>
    BY <2>1, CountedMember
  <2> QED
    BY <2>1, <2>2
<1>17. b[n].time = Truncate(u)
  OBVIOUS
<1> HIDE DEF b, c, n, z, g, l
<1>18. \A s : /\ s = Truncate(u) => Counted(z, s) = Counted(h, s) \cup {new}
              /\ s # Truncate(u) => Counted(z, s) = Counted(h, s)
  <2> SUFFICES ASSUME NEW s
               PROVE  /\ s = Truncate(u) => Counted(z, s) = Counted(h, s) \cup {new}
                      /\ s # Truncate(u) => Counted(z, s) = Counted(h, s)
    OBVIOUS
  <2>1. ASSUME NEW p, p \in Counted(h, s) PROVE p \in Counted(z, s)
    <3>1. PICK k \in 1..n : \E i \in 1..b[k].total : b[k].time = s /\ p = <<k, i>>
      BY <1>15, <2>1
    <3>2. 1..b[k].total \subseteq 1..c[k].total
      BY <1>13, <1>14
    <3> QED
      BY <1>13, <1>16, <3>1, <3>2
  <2>2. ASSUME NEW p, p \in Counted(z, s), p \notin Counted(h, s)
        PROVE  p = new /\ s = Truncate(u)
    <3>1. PICK k \in 1..n : \E i \in 1..c[k].total : c[k].time = s /\ p = <<k, i>>
      BY <1>16, <2>2
    <3>2. PICK i \in 1..c[k].total : c[k].time = s /\ p = <<k, i>>
      BY <3>1
    <3>3. b[k].time = s
      BY <1>13, <3>2
    <3>4. i \notin 1..b[k].total
      BY <1>15, <2>2, <3>2, <3>3
    <3>5. k = n
      BY <1>13, <3>4
    <3>6. i = b[n].total + 1
      BY <1>1, <1>13, <1>14, <3>4, <3>5, SMTT(20)
    <3> QED
      BY <1>17, <3>2, <3>3, <3>5, <3>6
  <2>3. s = Truncate(u) => new \in Counted(z, s)
    <3>1. n \in 1..n /\ b[n].total + 1 \in 1..c[n].total
      BY <1>1, <1>13, <1>14
    <3> QED
      BY <1>1, <1>13, <1>16, <1>17, <3>1
  <2> HIDE DEF new
  <2> QED
    BY <2>1, <2>2, <2>3
<1>19. \A s : new \notin Counted(h, s)
  <2> SUFFICES ASSUME NEW s, new \in Counted(h, s) PROVE FALSE
    OBVIOUS
  <2>1. PICK k \in 1..n : \E i \in 1..b[k].total : b[k].time = s /\ new = <<k, i>>
    BY <1>15
  <2>2. PICK i \in 1..b[k].total : new = <<k, i>>
    BY <2>1
  <2>3. k = n /\ i = b[n].total + 1
    BY <2>2
  <2> QED
    BY <1>14, <2>3
<1> HIDE DEF new
<1>20. ASSUME NEW s \in Nat, s > t - Window
       PROVE  /\ Cardinality(Listed(z, s)) <= Cardinality(Counted(z, s))
              /\ (e \/ full) \/ Cardinality(Listed(z, s)) = Cardinality(Counted(z, s))
  <2>1. /\ IsFiniteSet(Listed(g, s)) /\ IsFiniteSet(Listed(h, s))
        /\ IsFiniteSet(Counted(h, s))
    BY <1>7, ChartFinite
  <2>2. /\ Cardinality(Listed(g, s)) \in Nat /\ Cardinality(Listed(h, s)) \in Nat
        /\ Cardinality(Counted(h, s)) \in Nat
    BY <2>1, FS_CardinalityType
  <2>3. /\ Cardinality(Listed(h, s)) <= Cardinality(Counted(h, s))
        /\ e \/ Cardinality(Listed(h, s)) = Cardinality(Counted(h, s))
    BY <1>20 DEF Charts
  <2>4. CASE s = Truncate(u)
    <3>1. Cardinality(Listed(z, s)) = Cardinality(Listed(g, s)) + 1
      <4>1. Listed(z, s) = Listed(g, s) \cup {Len(r) + 1}
        BY <1>11, <2>4
      <4> QED
        BY <1>12, <2>1, <4>1, FS_AddElement
    <3>2. Cardinality(Counted(z, s)) = Cardinality(Counted(h, s)) + 1
      <4>1. Counted(z, s) = Counted(h, s) \cup {new}
        BY <1>18, <2>4
      <4> QED
        BY <1>19, <2>1, <4>1, FS_AddElement
    <3> QED
      BY <1>6, <2>2, <2>3, <3>1, <3>2
  <2>5. CASE s # Truncate(u)
    <3>1. Listed(z, s) = Listed(g, s) /\ Counted(z, s) = Counted(h, s)
      BY <1>11, <1>18, <2>5
    <3> QED
      BY <1>6, <2>2, <2>3, <3>1
  <2> QED
    BY <2>4, <2>5
<1>21. Charts(z, t, e \/ full)
  BY <1>20 DEF Charts
<1> QED
  BY <1>21 DEF z

(* The inductive invariant of the chart: it holds of memory, and of the file *)
(* that the next start loads.                                                *)
ChartInv == Charts(history, now, evicted) /\ Charts(historyFile, now, evicted)

(* The empty history charts.                                                 *)
LEMMA EmptyCharts ==
  ASSUME NEW t, NEW e
  PROVE  Charts(NoHistory, t, e)
<1>1. \A s : Listed(NoHistory, s) = {} /\ Counted(NoHistory, s) = {}
  BY DEF Listed, Counted, NoHistory
<1> QED
  BY <1>1, FS_EmptySet DEF Charts

(* What charts goes on to when the window moves on or more is excused.       *)
LEMMA LooserCharts ==
  ASSUME NEW h \in History, NEW t \in Int, NEW u \in Int, t <= u,
         NEW d \in BOOLEAN, NEW e \in BOOLEAN, d => e, Charts(h, t, d)
  PROVE  Charts(h, u, e)
<1>1. \A s \in Nat : s > u - Window => s > t - Window
  BY HistoryAssumption
<1> QED
  BY <1>1 DEF Charts

(* The mark of the model changes no stamp.                                   *)
LEMMA MarkCharts ==
  ASSUME NEW h \in History, NEW t, NEW e, Charts(h, t, e)
  PROVE  Charts(Marked(h), t, e)
<1> DEFINE m == Marked(h).queries
<1>1. DOMAIN m = DOMAIN h.queries /\ Marked(h).buckets = h.buckets
  BY DEF Marked
<1>2. \A k \in DOMAIN h.queries : m[k].time = h.queries[k].time
  <2>1. \A k \in DOMAIN h.queries : h.queries[k] \in Query
    BY DEF History
  <2>2. \A x \in Query : [x EXCEPT !.before = TRUE].time = x.time
    BY DEF Query
  <2>3. \A k \in DOMAIN h.queries : m[k] = [h.queries[k] EXCEPT !.before = TRUE]
    BY DEF Marked
  <2> QED
    BY <2>1, <2>2, <2>3
<1>3. \A s : Listed(Marked(h), s) = Listed(h, s)
  BY <1>1, <1>2 DEF Listed
<1>4. \A s : Counted(Marked(h), s) = Counted(h, s)
  BY <1>1 DEF Counted
<1> QED
  BY <1>3, <1>4 DEF Charts

(* Every step keeps it. *)
LEMMA StepCharts ==
  ASSUME RetentionInv, HistoriesOK, FlagsOK, ChartInv, [Next]_vars
  PROVE  ChartInv'
<1>1. /\ now \in Nat /\ evicted \in BOOLEAN
      /\ history \in History /\ historyFile \in History
      /\ Len(history.queries) <= MaxQueries /\ Len(historyFile.queries) <= MaxQueries
      /\ Charts(history, now, evicted) /\ Charts(historyFile, now, evicted)
  BY DEF RetentionInv, HistoriesOK, FlagsOK, ChartInv
<1>2. /\ NoHistory \in History /\ Len(NoHistory.queries) <= MaxQueries
      /\ \A e : Charts(NoHistory, now, e)
  BY EmptyCharts, HistoryAssumption DEF NoHistory, History
<1>3. CASE Tick
  <2>1. now' = now + 1 /\ UNCHANGED <<history, historyFile, evicted>>
    BY <1>3 DEF Tick, ghosts
  <2>2. Charts(history, now + 1, evicted) /\ Charts(historyFile, now + 1, evicted)
    BY <1>1, LooserCharts
  <2> QED
    BY <2>1, <2>2 DEF ChartInv
<1>4. CASE Boot \/ Flush
  <2>1. /\ \/ history' = pruneLocked(history, now)
           \/ history' = pruneLocked(historyFile, now)
           \/ history' = pruneLocked(NoHistory, now)
        /\ historyFile' \in {historyFile, history'}
        /\ UNCHANGED <<now, evicted>>
    BY <1>4 DEF Boot, Flush, ghosts
  <2>2. Charts(history', now, evicted)
    BY <1>1, <1>2, <2>1, PruneCharts
  <2> QED
    BY <1>1, <2>1, <2>2 DEF ChartInv
<1>5. ASSUME NEW h \in Handler, Record(h) PROVE ChartInv'
  <2>1. UNCHANGED <<now, historyFile>>
    BY <1>5 DEF Record
  <2>2. CASE logging
    <3> DEFINE o == Opened(history, pending[h])
    <3>1. pending[h] \in Nat /\ pending[h] <= now
      BY <1>5 DEF Record, RetentionInv
    <3>2. /\ history' = Recorded(o, pending[h])
          /\ evicted' = (evicted \/ Len(o.queries) >= MaxQueries)
      BY <1>5, <2>2 DEF Record
    <3>3. /\ o \in History /\ Charts(o, now, evicted) /\ Len(o.buckets) > 0
          /\ o.buckets[Len(o.buckets)].time = Truncate(pending[h])
      BY <1>1, <3>1, OpenedCharts
    <3>4. Len(o.queries) <= MaxQueries
      <4>1. Fits(history.queries, now)
        BY DEF RetentionInv
      <4>2. Len(pruneLocked([queries |-> history.queries,
                             buckets |-> Append(history.buckets,
                               [time |-> Truncate(pending[h]), total |-> 0])],
                            pending[h]).queries) <= MaxQueries
        BY <1>1, <3>1, <4>1, PruneFits
      <4> QED
        BY <1>1, <4>2 DEF Opened
    <3> HIDE DEF o
    <3>5. Charts(history', now, evicted')
      BY <1>1, <3>1, <3>2, <3>3, <3>4, RecordedCharts
    <3>6. Charts(historyFile, now, evicted')
      <4>1. evicted' \in BOOLEAN /\ (evicted => evicted')
        BY <3>2
      <4> QED
        BY <1>1, <4>1, LooserCharts
    <3> QED
      BY <2>1, <3>5, <3>6 DEF ChartInv
  <2>3. CASE ~logging
    BY <1>1, <1>5, <2>1, <2>3 DEF Record, ChartInv
  <2> QED
    BY <2>2, <2>3
<1>6. ASSUME NEW c \in Client, OptOut(c) PROVE ChartInv'
  BY <1>1, <1>6, MarkCharts DEF OptOut, ChartInv, ghosts
<1>7. CASE clearHistory /\ now' = now
  BY <1>1, <1>2, <1>7 DEF clearHistory, ChartInv
<1>8. CASE Crash
  <2>1. /\ historyFile' \in {historyFile, Marked(historyFile), NoHistory}
        /\ history' = NoHistory /\ UNCHANGED <<now, evicted>>
    BY <1>8 DEF Crash
  <2> QED
    BY <1>1, <1>2, <2>1, MarkCharts DEF ChartInv
<1>9. CASE UNCHANGED <<now, history, historyFile, evicted>>
  BY <1>1, <1>9 DEF ChartInv
<1> QED
  BY <1>3, <1>4, <1>5, <1>6, <1>7, <1>8, <1>9
     DEF Next, vars, ghosts, Stamp, OptIn, FinishOptOut, DeleteHistory

(* In the window of the overview the buckets count what the list shows, for  *)
(* any order in which queries reach record(), any restarts and any limit:    *)
(* no bucket still in the window is ever dropped or missed.                  *)
THEOREM ChartCounts == Spec => []ChartCountsList
<1>1. Init => ChartInv
  <2>1. Init => history = NoHistory /\ historyFile = NoHistory
    BY DEF Init
  <2> QED
    BY <2>1, EmptyCharts DEF ChartInv
<1>2. Init => ClockOK /\ HistoriesOK /\ FlagsOK
  BY InitTypes
<1>3. ClockOK /\ HistoriesOK /\ FlagsOK /\ [Next]_vars => (ClockOK /\ HistoriesOK /\ FlagsOK)'
  BY ClockStep, HistoryStep, FlagsStep
<1>4. RetentionInv /\ HistoriesOK /\ FlagsOK /\ ChartInv /\ [Next]_vars => ChartInv'
  BY StepCharts
<1>5. HistoriesOK /\ ChartInv => ChartCountsList
  <2> SUFFICES ASSUME HistoriesOK, ChartInv PROVE ChartCountsList
    OBVIOUS
  <2>1. \A k \in DOMAIN history.queries : Truncate(history.queries[k].time) \in Nat
    <3>1. \A k \in DOMAIN history.queries : history.queries[k] \in Query
      BY DEF HistoriesOK, History
    <3>2. \A k \in DOMAIN history.queries : history.queries[k].time \in Nat
      BY <3>1 DEF Query
    <3> QED
      BY <3>2, TruncateType
  <2>2. \A k \in DOMAIN history.buckets : history.buckets[k].time \in Nat
    <3>1. \A k \in DOMAIN history.buckets : history.buckets[k] \in Bucket
      BY DEF HistoriesOK, History
    <3> QED
      BY <3>1 DEF Bucket
  <2> QED
    BY <2>1, <2>2 DEF ChartCountsList, ChartInv, Charts
<1> QED
  BY <1>1, <1>2, <1>3, <1>4, <1>5, AlwaysRetention, PTL DEF Spec
=============================================================================
