--------------------------- MODULE MCObservation ----------------------------
(* Instances of Observation, and of the rows shown of it, for TLC. *)
EXTENDS ObservedRows

(* A byte has four values.  The second address reads the same both ways. *)
Far == [octets |-> <<1, 0, 0, 2>>, port |-> 7]
Near == [octets |-> <<3, 0, 0, 3>>, port |-> 5]
Busy == [Near EXCEPT !.port = 6]
Dests == {Far, Near, Busy}

(* A path with every separator of the protocol, and one that looks escaped. *)
Odd == [exe |-> <<"/", "a", "|", ";">>, cmdline |-> <<"a", " ", "%", "7", "C">>, uid |-> 0]
Plain == [exe |-> <<"/", "b">>, cmdline |-> <<>>, uid |-> 1]
Programs == {Odd, Plain}

Hosts == {"Cdn", "cdn"}
Lower == [h \in Hosts |-> "cdn"]
(* Processes that exec, exit and have their pid taken over; names noted and *)
(* running out; and tables that overflow.                                  *)
Quiet == [births |-> 1, pids |-> {1}, ends |-> FALSE, programs |-> {Odd}, connects |-> 2,
          dests |-> {Near}, notes |-> 0, now |-> 0, labels |-> {"allow"}]
Reuse == [Quiet EXCEPT !.births = 2, !.ends = TRUE, !.programs = Programs]
Naming == [Quiet EXCEPT !.notes = 2, !.now = 2, !.dests = {Far, Near}]
Crowded == [Quiet EXCEPT !.births = 2, !.pids = {1, 2}, !.programs = Programs, !.connects = 3,
                         !.dests = Dests, !.labels = {"deny"}]
Asking == [Quiet EXCEPT !.connects = 3, !.labels = {"prompt", "allow"}]
Scenarios == {Reuse, Naming, Crowded, Asking}

Paddings == {<<3, 3, 3, 3>>}
=============================================================================
