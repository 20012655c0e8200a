--------------------------- MODULE MCVerdictPath ---------------------------
(* Instances of VerdictPath for TLC. *)
EXTENDS VerdictPath, TLC

CONSTANTS c1, c2, c3, d1, d2

TwoConns   == {c1, c2}
ThreeConns == {c1, c2, c3}
Dests      == {d1, d2}

(* c1 and c2 share d1, c3 is alone on d2. *)
SharedDest == c1 :> d1 @@ c2 :> d1 @@ c3 :> d2
(* Both on d1. *)
SameDest   == c1 :> d1 @@ c2 :> d1
(* One destination each. *)
OwnDest    == c1 :> d1 @@ c2 :> d2
=============================================================================
