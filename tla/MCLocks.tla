------------------------------ MODULE MCLocks ------------------------------
(* The daemon's threads: the observer with two events, the NFQUEUE thread  *)
(* and the threads of two or three IPC connections.                        *)
EXTENDS Locks, DaemonLocks

AllButProcessList ==
  [t \in {"observer", "nfqueue", "ipc1", "ipc2"} |->
     CASE t = "observer" -> {HandleEvent \o HandleEvent}
       [] t = "nfqueue"  -> {LookupVerdict}
       [] OTHER          -> Requests]

WithProcessList ==
  [t \in {"observer", "ipc1"} |->
     CASE t = "observer" -> {HandleEvent}
       [] OTHER          -> Requests \cup {ProcessList}]

Threads == DOMAIN AllButProcessList
TwoThreads == DOMAIN WithProcessList
=============================================================================
