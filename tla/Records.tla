------------------------------ MODULE Records -------------------------------
(***************************************************************************)
(* What the daemon records of a decision: the recent destinations of one   *)
(* process (recent.rs) and the counters of one dimension (stats.rs).       *)
(***************************************************************************)
EXTENDS BoundedMap

CONSTANTS PerKey,     \* destinations kept of a process
          StatsKeys   \* keys kept of a dimension

ASSUME RecordsAssumption == PerKey \in Nat \ {0} /\ StatsKeys \in Nat \ {0}

Label == {"allow", "deny", "prompt"}

(* RecentConnects::record, the queue of one process *)
Remembered(rows, dest, label) ==
  LET same == {i \in DOMAIN rows : rows[i].ipv4 = dest.ipv4 /\ rows[i].port = dest.port}
  IN IF same # {} THEN [rows EXCEPT ![CHOOSE i \in same : TRUE].verdict = label]
     ELSE Append(IF Len(rows) >= PerKey THEN Tail(rows) ELSE rows,
                 [ipv4 |-> dest.ipv4, port |-> dest.port, verdict |-> label])

NoHits == [hits |-> 0, allow |-> 0, deny |-> 0, prompt |-> 0]
Bump(c, verdict) == [c EXCEPT !.hits = @ + 1, ![verdict] = @ + 1]
(* Defect: an evicted key's counters come back with it. *)
BugCountersShared(t, key, verdict) ==
  Put(t, StatsKeys, key,
      Bump(IF t.order # <<>> THEN t.entries[t.order[Len(t.order)]] ELSE NoHits, verdict))
BumpKey(t, key, verdict) ==
  Put(t, StatsKeys, key, Bump(IF Holds(t, key) THEN t.entries[key] ELSE NoHits, verdict))

(* The hits a table counts in all. *)
Hits(t) ==
  LET sum[i \in 0 .. Len(t.order)] ==
        IF i = 0 THEN 0 ELSE sum[i - 1] + t.entries[t.order[i]].hits
  IN sum[Len(t.order)]
=============================================================================
