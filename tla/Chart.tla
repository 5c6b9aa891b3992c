--------------------------------- MODULE Chart ---------------------------------
(***************************************************************************)
(* The numbers of the overview page: overview (store.go) selects and adds  *)
(* the buckets of the last 24 hours by the server's clock, chartPoints     *)
(* (model.mjs) spreads them over 24 full hours by the browser's clock.     *)
(*                                                                         *)
(* buckets is s.history.Buckets, and a selection of them the set of their  *)
(* positions: their order is of no consequence to the sums.                *)
(***************************************************************************)
EXTENDS Integers, Sequences, FiniteSetsExt

CONSTANTS
  Hour,   \* 3,600,000 milliseconds
  Hours   \* 24

ASSUME ChartAssumption == Hour \in Nat \ {0} /\ Hours \in Nat \ {0}

Total(buckets, some)   == MapThenSumSet(LAMBDA i : buckets[i].total, some)
Blocked(buckets, some) == MapThenSumSet(LAMBDA i : buckets[i].blocked, some)

overview(buckets, now) ==
  LET recent == {i \in DOMAIN buckets : buckets[i].time > now - Hours * Hour}
  IN  [buckets |-> recent,
       total |-> Total(buckets, recent), blocked |-> Blocked(buckets, recent)]

(* Mutant: both ends of an hour belong to it. *)
chartPoints_Inclusive(buckets, shown, now) ==
  LET end == (now \div Hour) * Hour
  IN  [i \in 1..Hours |->
        LET start   == end - (Hours - i) * Hour
            samples == {k \in shown : /\ buckets[k].time >= start
                                      /\ buckets[k].time <= start + Hour}
        IN  [time |-> start,
             total |-> Total(buckets, samples), blocked |-> Blocked(buckets, samples)]]

(* shown: the buckets the overview has sent. The points count from 1.        *)
chartPoints(buckets, shown, now) ==
  LET end == (now \div Hour) * Hour
  IN  [i \in 1..Hours |->
        LET start   == end - (Hours - i) * Hour
            samples == {k \in shown : /\ buckets[k].time >= start
                                      /\ buckets[k].time < start + Hour}
        IN  [time |-> start,
             total |-> Total(buckets, samples), blocked |-> Blocked(buckets, samples)]]
=============================================================================
