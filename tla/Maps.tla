-------------------------------- MODULE Maps --------------------------------
(***************************************************************************)
(* The partial functions that stand for the daemon's HashMaps: a map is a  *)
(* function whose domain is the set of keys it holds; and retain() on the  *)
(* VecDeques that keep the order of keys.                                  *)
(***************************************************************************)
EXTENDS Integers, Sequences, Functions

(* The map with no entry. *)
EmptyMap == [x \in {} |-> x]

(* HashMap::insert: a new key, or a new value for a key already there. *)
MapInsert(f, k, v) == [x \in DOMAIN f \cup {k} |-> IF x = k THEN v ELSE f[x]]

(* HashMap::remove of every key in S. *)
MapRemove(f, S) == Restrict(f, DOMAIN f \ S)

(* f maps some of the keys K to values in V. *)
IsMap(f, K, V) == DOMAIN f \subseteq K /\ f \in [DOMAIN f -> V]

(* VecDeque::retain of the elements in S: a recursive function and not     *)
(* SelectSeq, about which the provers know nothing.                        *)
Retain(s, S) ==
  LET kept[n \in 0 .. Len(s)] ==
        IF n = 0 THEN <<>>
        ELSE IF s[n] \in S THEN Append(kept[n - 1], s[n]) ELSE kept[n - 1]
  IN kept[Len(s)]
=============================================================================
