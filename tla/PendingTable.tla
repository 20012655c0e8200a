---------------------------- MODULE PendingTable ----------------------------
(***************************************************************************)
(* The bounded, TTL-expiring table of packet verdicts (pending.rs), keyed  *)
(* by destination: the observer thread inserts a decision, the NFQUEUE     *)
(* thread takes it.  insert() and take() are the two operations; each runs *)
(* under the `pending` mutex.                                              *)
(***************************************************************************)
EXTENDS BoundedMap

CONSTANTS Dest,      \* DestKey: (ipv4, port)
          Capacity,  \* pending_capacity
          Ttl,       \* pending_ttl
          MaxNow     \* bound: clock

ASSUME PendingAssumption ==
  Capacity \in Nat \ {0} /\ Ttl \in Nat /\ MaxNow \in Nat

VARIABLES now, entries, order

PacketVerdict == {"Accept", "Drop"}

PendingTypeOK ==
  /\ now \in Nat
  /\ IsMap(entries, Dest, [verdict : PacketVerdict, inserted_at : Nat])

PendingInit == now = 0 /\ entries = EmptyMap /\ order = <<>>

-----------------------------------------------------------------------------
(* expire() walks `order`: a key without an entry leaves it, a key whose   *)
(* entry is too old leaves it together with the entry.                     *)

TooOld(k) == now - entries[k].inserted_at > Ttl

ExpiredEntries ==
  MapRemove(entries, {k \in Range(order) \cap DOMAIN entries : TooOld(k)})

(* Defect: keys whose entry was taken stay in `order`. *)
BugTakenKeysKept ==
  Retain(order, {k \in Range(order) : k \in DOMAIN entries => ~TooOld(k)})
ExpiredOrder == Retain(order, {k \in DOMAIN entries : ~TooOld(k)})
Expired == [entries |-> ExpiredEntries, order |-> ExpiredOrder]

Fresh(v) == [verdict |-> v, inserted_at |-> now]

(* expire(), and then an insertion like that of the other bounded tables. *)
Insert(k, v) ==
  LET put == Put(Expired, Capacity, k, Fresh(v))
  IN entries' = put.entries /\ order' = put.order

(* Defects: the entry is read before expire(); it is read, not removed. *)
BugStaleRead(k) == IF k \in DOMAIN entries THEN entries[k].verdict ELSE "None"
BugEntryKept(k) == entries' = ExpiredEntries /\ order' = ExpiredOrder

(* What take() returns, and what it leaves. *)
Taken(k) == IF k \in DOMAIN ExpiredEntries THEN ExpiredEntries[k].verdict
                                           ELSE "None"
Take(k) ==
  /\ entries' = MapRemove(ExpiredEntries, {k})
  /\ order' = ExpiredOrder

Advance == now < MaxNow /\ now' = now + 1

PendingNext ==
  \/ \E k \in Dest, v \in PacketVerdict : Insert(k, v) /\ now' = now
  \/ \E k \in Dest : Take(k) /\ now' = now
  \/ Advance /\ UNCHANGED <<entries, order>>

PendingSpec == PendingInit /\ [][PendingNext]_<<now, entries, order>>

-----------------------------------------------------------------------------
(* insert()'s bound: never more than Capacity decisions are waiting. *)
EntriesBounded == Cardinality(DOMAIN entries) <= Capacity

(* Every waiting decision can be found by expire() and by eviction: its key is
   in `order`, once.  take() leaves the key of what it removed behind; were
   that key still there at the next insert() of the same destination, `order`
   would hold it twice and a later eviction would hit the newer entry. *)
OrderCoversEntries ==
  /\ DOMAIN entries \subseteq Range(order)
  /\ IsInjective(order)
  /\ Len(order) <= Capacity
=============================================================================
