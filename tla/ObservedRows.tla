---------------------------- MODULE ObservedRows ----------------------------
(***************************************************************************)
(* What operators are shown of the observer's tables: the rows that        *)
(* process-list and the stats requests make of them (ipc.rs), and their    *)
(* way through the line protocol.                                          *)
(***************************************************************************)
EXTENDS Observation, Wire

ProcessRows ==
  [i \in DOMAIN cache.order |->
     LET id == cache.entries[cache.order[i]]
         dests == IF Holds(recent, cache.order[i]) THEN recent.entries[cache.order[i]] ELSE <<>>
     IN [pid |-> id.pid, start |-> id.start, uid |-> id.uid, verdict |-> "prompt",
         ports |-> Join([j \in DOMAIN dests |->
                           <<dests[j].ipv4, ":", ToString(dests[j].port), "/", dests[j].verdict>>], "+"),
         executable |-> id.exe, cmdline |-> id.cmdline]]
StatsRows(d) ==
  LET t == stats.table[d]
  IN Reverse([i \in DOMAIN t.order |-> [key |-> t.order[i]] @@ t.entries[t.order[i]]])

(* What is listed arrives: no path, command line or key, whatever separators
   and escapes it holds, changes or hides a row on its way to a client. *)
RowsSurvive ==
  obs = Idle =>
    /\ ReadProcesses(ProcessesFrame(ProcessRows)) = [ok |-> TRUE, rows |-> ProcessRows]
    /\ \A d \in Dimension :
         ReadStats(StatsFrame(d, StatsRows(d)), d) = [ok |-> TRUE, rows |-> StatsRows(d)]
=============================================================================
