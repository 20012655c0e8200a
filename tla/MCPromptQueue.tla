--------------------------- MODULE MCPromptQueue ---------------------------
(* Instances of PromptQueue for TLC. *)
EXTENDS PromptQueue, TLC

CONSTANTS k1, k2, k3

TwoKeys   == {k1, k2}
ThreeKeys == {k1, k2, k3}

(* Keys are interchangeable: nothing orders or distinguishes them. *)
KeySymmetry == Permutations(ThreeKeys)
=============================================================================
