------------------------------ MODULE MCPolicy ------------------------------
(* Instances of Policy for TLC. *)
EXTENDS Policy, TLC

CONSTANTS k1, k2, app, p1

Keys == {k1, k2}
Absolute == {app}

(* The same application and port at two addresses: one rule covers both.   *)
ExeOf == [k \in Keys |-> app]
PortOf == [k \in Keys |-> p1]

(* No file, and a file written by hand: deny the application, but ask for  *)
(* its TCP.                                                                *)
ByHand == [IpcRule(0, app, "Any", "Prompt", "Permanent") EXCEPT !.direction = "Any"]
DenyRule == [ByHand EXCEPT !.id = 1, !.protocol = "Any", !.verdict = "Deny"]
Files == {{}, {ByHand, DenyRule}}

KeySymmetry == Permutations(Keys)
=============================================================================
