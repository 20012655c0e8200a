----------------------------- MODULE BoundedMap -----------------------------
(***************************************************************************)
(* The bounded tables of the daemon that are a HashMap and a VecDeque of   *)
(* its keys in the order of their first insertion: the process cache, the  *)
(* recent destinations, the DNS names and the five statistics tables.      *)
(***************************************************************************)
EXTENDS Integers, FiniteSets, FiniteSetsExt, Sequences, Maps

EmptyTable == [entries |-> EmptyMap, order |-> <<>>]
Holds(t, k) == k \in DOMAIN t.entries

(* What is left after n keys were popped off the front of the order. *)
Popped(t, n) ==
  [entries |-> MapRemove(t.entries, Range(SubSeq(t.order, 1, n))),
   order |-> SubSeq(t.order, n + 1, Len(t.order))]

RoomAfter(t, cap) ==
  {n \in 0 .. Len(t.order) : Cardinality(DOMAIN Popped(t, n).entries) < cap}

(* `while len >= capacity`: pop the oldest, or clear when the order is empty. *)
MakeRoom(t, cap) ==
  IF RoomAfter(t, cap) = {} THEN EmptyTable ELSE Popped(t, Min(RoomAfter(t, cap)))

(* A key that is there keeps its place and takes the new value. *)
Put(t, cap, k, v) ==
  IF Holds(t, k) THEN [t EXCEPT !.entries = MapInsert(@, k, v)]
  ELSE LET room == MakeRoom(t, cap)
       IN [entries |-> MapInsert(room.entries, k, v), order |-> Append(room.order, k)]

(* Bounded, and the order holds each key once: an entry outside it could not *)
(* be evicted, and a key twice in it would evict a newer entry.             *)
WellKept(t, cap) ==
  /\ Cardinality(DOMAIN t.entries) <= cap
  /\ Range(t.order) = DOMAIN t.entries
  /\ IsInjective(t.order)
=============================================================================
