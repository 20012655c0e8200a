--------------------------- MODULE MCEnforcement ---------------------------
(* Instances of Enforcement for TLC. *)
EXTENDS Enforcement, TLC

CONSTANTS u1, u2, i1, i2

TwoUsers == {u1, u2}
TwoIpc   == {i1, i2}
EqualIpc == Permutations(TwoIpc)

Pause == [kind |-> "Pause"]
Resume == [kind |-> "Resume"]
Machine(pref) == [kind |-> "Machine", pref |-> pref]
User(pref) == [kind |-> "User", uid |-> u1, pref |-> pref]

(* One request or boot at a time and every preference; requests that meet  *)
(* the boot work; and requests that meet each other.                       *)
Alone == [ops |-> Op, busy |-> 1, faults |-> 1, starts |-> 3]
Booting == [ops |-> {Pause, Resume, Machine("Out"), User("In")},
            busy |-> 2, faults |-> 1, starts |-> 2]
Meeting == [ops |-> {Pause, Resume, Machine("All"), Machine("Open"), User("Out")},
            busy |-> 2, faults |-> 0, starts |-> 1]
SomeScenarios == {Alone, Booting, Meeting}
=============================================================================
