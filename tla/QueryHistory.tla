----------------------------- MODULE QueryHistory -----------------------------
(***************************************************************************)
(* The query history (store.go): resolver goroutines record the queries    *)
(* they have answered, a timer writes the history to history.json, the     *)
(* dashboard turns logging off and on and clears the history, and the      *)
(* process may die at any moment. A query takes its time stamp before it   *)
(* waits for the mutex (dns.go), so queries are recorded out of order.     *)
(*                                                                         *)
(* Every mutex section is one step; Crash also cuts the two of them that   *)
(* write a file before they assign. An orderly shutdown is Flush, then     *)
(* Crash.                                                                  *)
(***************************************************************************)
EXTENDS Integers, Sequences, FiniteSets, FiniteSetsExt

CONSTANTS
  Handler,     \* resolver goroutines, 128 slots in the code
  Client,      \* dashboard requests that turn logging off
  Window,      \* 24 hours
  BucketSpan,  \* 5 minutes
  MaxQueries,  \* 2000 in the code
  MaxLag,      \* bound: longest wait between a query's stamp and its record
  MaxTime,     \* bound: the clock of a run
  MaxTotal,    \* bound: queries counted in the buckets
  NoQuery      \* a goroutine has no answered query in hand

ASSUME HistoryAssumption ==
  /\ Window \in Nat /\ BucketSpan \in 1..Window /\ MaxQueries \in Nat \ {0}
  /\ MaxLag \in Nat /\ MaxTime \in Nat /\ MaxTotal \in Nat
  /\ NoQuery \notin Int

VARIABLES
  now,
  up,           \* the process runs
  logging,      \* s.settings.Logging
  loggingFile,  \* the same in settings.json
  history,      \* s.history
  historyFile,  \* history.json
  pending,      \* pending[h]: the stamp of the query h is about to record
  clearing,     \* requests between change() and clearHistory()
  acked,        \* history variable: logging was turned off and answered with ok
  refused,      \* history variable: the last clearHistory() reported an error
  evicted       \* history variable: the limit has pushed queries out

vars == <<now, up, logging, loggingFile, history, historyFile, pending, clearing,
          acked, refused, evicted>>
ghosts == <<acked, refused, evicted>>

(* before: a mark of the model, the query was recorded before an opt-out. *)
Query   == [time : Nat, before : BOOLEAN]
Bucket  == [time : Nat, total : Nat]
History == [queries : Seq(Query), buckets : Seq(Bucket)]
NoHistory == [queries |-> << >>, buckets |-> << >>]

(* Mutant: the stamp of the bucket before. *)
Truncate_Early(t) == t - BucketSpan

Truncate(t) == t - (t % BucketSpan)

(* The loops of pruneLocked stop at the first entry that is not too old. *)
DropOld(s, cutoff) ==
  LET kept == {i \in DOMAIN s : s[i].time >= cutoff}
  IN  IF kept = {} THEN << >>
      ELSE SubSeq(s, CHOOSE i \in kept : \A j \in kept : i <= j, Len(s))

Newest(s, n) == IF Len(s) > n THEN SubSeq(s, Len(s) - n + 1, Len(s)) ELSE s

(* Mutant: only the queries are pruned. *)
pruneLocked_Queries(h, t) ==
  [queries |-> Newest(DropOld(h.queries, t - Window), MaxQueries),
   buckets |-> h.buckets]

pruneLocked(h, t) ==
  [queries |-> Newest(DropOld(h.queries, t - Window), MaxQueries),
   buckets |-> DropOld(h.buckets, t - Window)]

BucketTotal(h) == MapThenSumSet(LAMBDA i : h.buckets[i].total, DOMAIN h.buckets)

(* The history as it is once everybody in it counts as before the opt-out. *)
Marked(h) ==
  [queries |-> [i \in DOMAIN h.queries |-> [h.queries[i] EXCEPT !.before = TRUE]],
   buckets |-> h.buckets]

-----------------------------------------------------------------------------
Init ==
  /\ now = 0 /\ up = FALSE
  /\ logging = TRUE /\ loggingFile = TRUE
  /\ history = NoHistory /\ historyFile = NoHistory
  /\ pending = [h \in Handler |-> NoQuery]
  /\ clearing = {}
  /\ acked = FALSE /\ refused = FALSE /\ evicted = FALSE

Tick ==
  /\ now < MaxTime
  /\ \A h \in Handler : pending[h] # NoQuery => now < pending[h] + MaxLag
  /\ now' = now + 1
  /\ UNCHANGED <<up, logging, loggingFile, history, historyFile, pending, clearing, ghosts>>

(* newStore. *)
Boot ==
  /\ ~up
  /\ up' = TRUE
  /\ logging' = loggingFile
  /\ history' = pruneLocked(IF loggingFile THEN historyFile ELSE NoHistory, now)
  /\ UNCHANGED <<now, loggingFile, historyFile, pending, clearing, ghosts>>

(* ServeDNS has answered and evaluates time.Now() for record(). *)
Stamp(h) ==
  /\ up /\ pending[h] = NoQuery
  /\ pending' = [pending EXCEPT ![h] = now]
  /\ UNCHANGED <<now, up, logging, loggingFile, history, historyFile, clearing, ghosts>>

(* Mutant: a bucket, once there, is never left. *)
Opened_Once(h, t) ==
  IF h.buckets # << >> THEN h
  ELSE pruneLocked([queries |-> h.queries,
                    buckets |-> << [time |-> Truncate(t), total |-> 0] >>], t)

(* A bucket is opened when the last one has another stamp, and only then old *)
(* entries go. At the limit the oldest query makes room.                     *)
Opened(h, t) ==
  IF h.buckets # << >> /\ h.buckets[Len(h.buckets)].time = Truncate(t) THEN h
  ELSE pruneLocked([queries |-> h.queries,
                    buckets |-> Append(h.buckets, [time |-> Truncate(t), total |-> 0])], t)

(* Mutant: the limit is checked one late. *)
Recorded_OneMore(h, t) ==
  [queries |-> Append(IF Len(h.queries) > MaxQueries THEN Tail(h.queries) ELSE h.queries,
                      [time |-> t, before |-> FALSE]),
   buckets |-> [h.buckets EXCEPT ![Len(h.buckets)].total = @ + 1]]

(* Mutant: at the limit the oldest entry is overwritten in place. *)
Recorded_InPlace(h, t) ==
  [queries |-> IF Len(h.queries) >= MaxQueries
               THEN [h.queries EXCEPT ![1] = [time |-> t, before |-> FALSE]]
               ELSE Append(h.queries, [time |-> t, before |-> FALSE]),
   buckets |-> [h.buckets EXCEPT ![Len(h.buckets)].total = @ + 1]]

Recorded(h, t) ==
  [queries |-> Append(IF Len(h.queries) >= MaxQueries
                      THEN SubSeq(h.queries, 2, MaxQueries) ELSE h.queries,
                      [time |-> t, before |-> FALSE]),
   buckets |-> [h.buckets EXCEPT ![Len(h.buckets)].total = @ + 1]]

Record(h) ==
  /\ up /\ pending[h] # NoQuery
  /\ pending' = [pending EXCEPT ![h] = NoQuery]
  /\ IF logging
     THEN LET open == Opened(history, pending[h])
          IN  /\ BucketTotal(history) < MaxTotal
              /\ history' = Recorded(open, pending[h])
              /\ evicted' = (evicted \/ Len(open.queries) >= MaxQueries)
     ELSE UNCHANGED <<history, evicted>>
  /\ UNCHANGED <<now, up, logging, loggingFile, historyFile, clearing, acked, refused>>

(* The timer of run(), and its end; the write may fail. *)
Flush ==
  /\ up
  /\ history' = pruneLocked(history, now)
  /\ historyFile' \in {historyFile, history'}
  /\ UNCHANGED <<now, up, logging, loggingFile, pending, clearing, ghosts>>

(* PUT /api/settings: the change, and for an opt-out clearHistory() as a     *)
(* second mutex section of the same request.                                 *)
OptIn ==
  /\ up
  /\ logging' = TRUE /\ loggingFile' = TRUE
  /\ acked' = FALSE
  /\ UNCHANGED <<now, up, history, historyFile, pending, clearing, refused, evicted>>

OptOut(c) ==
  /\ up /\ c \notin clearing
  /\ logging' = FALSE /\ loggingFile' = FALSE
  /\ clearing' = clearing \cup {c}
  /\ history' = Marked(history) /\ historyFile' = Marked(historyFile)
  /\ UNCHANGED <<now, up, pending, ghosts>>

(* Mutant: only memory is cleared. *)
clearHistory_Memory ==
  /\ history' = NoHistory /\ UNCHANGED historyFile
  /\ acked' = ~logging /\ refused' = FALSE /\ evicted' = FALSE

(* clearHistory() writes the empty file first. *)
clearHistory ==
  \/ /\ historyFile' = NoHistory /\ history' = NoHistory
     /\ acked' = ~logging /\ refused' = FALSE /\ evicted' = FALSE
  \/ /\ refused' = TRUE
     /\ UNCHANGED <<history, historyFile, acked, evicted>>

FinishOptOut(c) ==
  /\ up /\ c \in clearing
  /\ clearing' = clearing \ {c}
  /\ clearHistory
  /\ UNCHANGED <<now, up, logging, loggingFile, pending>>

(* DELETE /api/history. *)
DeleteHistory ==
  /\ up
  /\ clearHistory
  /\ UNCHANGED <<now, up, logging, loggingFile, pending, clearing>>

(* The process dies: between two mutex sections, or in change() or           *)
(* clearHistory() after the write and before the assignment.                 *)
Crash ==
  /\ up
  /\ up' = FALSE
  /\ logging' = TRUE /\ history' = NoHistory
  /\ pending' = [h \in Handler |-> NoQuery]
  /\ clearing' = {}
  /\ \/ UNCHANGED <<loggingFile, historyFile, acked>>
     \/ loggingFile' = TRUE /\ acked' = FALSE /\ UNCHANGED historyFile
     \/ loggingFile' = FALSE /\ historyFile' = Marked(historyFile) /\ UNCHANGED acked
     \/ historyFile' = NoHistory /\ UNCHANGED <<loggingFile, acked>>
  /\ UNCHANGED <<now, refused, evicted>>

Next ==
  \/ Tick \/ Boot \/ Flush \/ OptIn \/ DeleteHistory \/ Crash
  \/ \E h \in Handler : Stamp(h) \/ Record(h)
  \/ \E c \in Client : OptOut(c) \/ FinishOptOut(c)

Spec == Init /\ [][Next]_vars

-----------------------------------------------------------------------------
TypeOK ==
  /\ now \in 0..MaxTime
  /\ up \in BOOLEAN /\ logging \in BOOLEAN /\ loggingFile \in BOOLEAN
  /\ history \in History /\ historyFile \in History
  /\ pending \in [Handler -> 0..MaxTime \cup {NoQuery}]
  /\ clearing \subseteq Client
  /\ acked \in BOOLEAN /\ refused \in BOOLEAN /\ evicted \in BOOLEAN

(* The privacy limit of the history holds in memory and on disk, however     *)
(* recording, restarts and failed writes follow each other.                  *)
WithinLimit ==
  Len(history.queries) <= MaxQueries /\ Len(historyFile.queries) <= MaxQueries

(* Out of order by no more than the longest wait for the mutex: what record  *)
(* appends may be older than what it finds, but only so much. The prefix     *)
(* loops of pruneLocked rely on it.                                          *)
AlmostSorted ==
  \A h \in {history, historyFile} :
    \A i, j \in DOMAIN h.queries :
      i < j => h.queries[i].time <= h.queries[j].time + MaxLag

(* "Query retention is limited to ... 24 hours" (ARCHITECTURE.md): a write   *)
(* of history.json holds no query older than that and the wait for the mutex *)
(* together, and no bucket whose period ended longer ago than that, although *)
(* late records leave both lists out of order and pruning stops at the first *)
(* entry that is young enough (pruneLocked in flush).                        *)
RetentionLimited ==
  [][historyFile' # historyFile /\ up' /\ clearing' = clearing =>
       /\ \A i \in DOMAIN historyFile'.queries :
            historyFile'.queries[i].time + MaxLag >= now - Window
       /\ \A i \in DOMAIN historyFile'.buckets :
            historyFile'.buckets[i].time + BucketSpan + MaxLag > now - Window]_vars

(* The listed queries whose bucket has the stamp s, and what the buckets of  *)
(* that stamp have counted: <<k, n>> is the n-th query of bucket k.          *)
Listed(h, s) == {k \in DOMAIN h.queries : Truncate(h.queries[k].time) = s}

Counted(h, s) ==
  UNION {{k} \X (1..h.buckets[k].total) :
           k \in {j \in DOMAIN h.buckets : h.buckets[j].time = s}}

(* The chart of overview() against its list: the buckets of one stamp, of    *)
(* which late queries open several, count every listed query of that stamp,  *)
(* and no other until the limit has pushed queries out.                      *)
ChartCountsList ==
  LET stamps == {Truncate(history.queries[k].time) : k \in DOMAIN history.queries}
                  \cup {history.buckets[k].time : k \in DOMAIN history.buckets}
      listed(s)  == Cardinality(Listed(history, s))
      charted(s) == Cardinality(Counted(history, s))
  IN  up => \A s \in stamps :
        s > now - Window =>
          listed(s) <= charted(s) /\ (evicted \/ listed(s) = charted(s))

(* Once an opt-out was answered with ok, neither memory nor disk holds a     *)
(* query until logging is turned on again, whatever was in flight and        *)
(* however often the process dies (record under the mutex, clearHistory      *)
(* before the answer).                                                       *)
OptOutHolds ==
  acked => history = NoHistory /\ historyFile = NoHistory

(* "Logging opt-out stops both and clears existing data." (README.md): with  *)
(* no opt-out in progress and no error reported, no query recorded before an *)
(* opt-out is left in memory.                                                *)
OptOutForgets ==
  up /\ clearing = {} /\ ~refused =>
    \A i \in DOMAIN history.queries : ~history.queries[i].before
=============================================================================
