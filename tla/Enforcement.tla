---------------------------- MODULE Enforcement ----------------------------
(***************************************************************************)
(* Pause/resume and traffic block/unblock (shared.rs): three stored        *)
(* preferences, their copies in memory, and the nftables table that should *)
(* follow from them.  A request stores its preference, sets the copy,      *)
(* reads everything back, deletes the table and loads a new one; no lock   *)
(* spans these steps, each can fail, and the daemon can stop, die or boot  *)
(* again between any two.  At boot the NFQUEUE thread (nfqueue_live.rs)    *)
(* applies the stored preferences once the queue is bound.                 *)
(***************************************************************************)
EXTENDS Integers, Sequences, FiniteSets

CONSTANTS Uid,
          Ipc,        \* threads of IPC connections
          Scenarios,  \* bounds: the requests made, how many of them and of the
                      \* boot work are under way at once, failing file writes
                      \* and nft calls, starts of the daemon
          MaxTable    \* bound: scripts loaded without a delete in between

Pref == {"Open", "Out", "In", "All"}
WantsOut(p) == p \in {"Out", "All"}
WantsIn(p)  == p \in {"In", "All"}

(* What one script of compose_traffic_script says about new TCP. *)
Script == [out : BOOLEAN, outUsers : SUBSET Uid, queue : BOOLEAN,
           in : BOOLEAN, inUsers : SUBSET Uid]

Op == [kind : {"Pause", "Resume"}]
        \cup [kind : {"Machine"}, pref : Pref]
        \cup [kind : {"User"}, uid : Uid, pref : Pref]

ASSUME EnforcementAssumption ==
  /\ \A s \in Scenarios : s.ops \subseteq Op /\ {s.busy, s.faults, s.starts} \subseteq Nat
  /\ MaxTable \in Nat
  /\ "boot" \notin Ipc

VARIABLES
  limit,                            \* the scenario
  modeFile, machineFile, userFile,  \* enforcement.mode, traffic.machine, .user.*
  leftover,                         \* a user's block was written to a temporary
                                    \* file that was never renamed
  paused, machine, bind,            \* Shared
  table,                            \* the owned table: scripts loaded into it
  up, thread,                       \* the daemon and its threads
  faults, starts,
  raced                             \* ghost: what requests that overlapped wrote:
                                    \* "mode", "machine" (Shared), "table"

stored == <<modeFile, machineFile, userFile>>
files  == <<stored, leftover>>
memory == <<paused, machine, bind>>
enfVars == <<files, memory, table, up, thread, faults, starts, raced, limit>>

(* The copy in memory a request sets. *)
Touches(op) ==
  CASE op.kind \in {"Pause", "Resume"} -> {"mode"}
    [] op.kind = "Machine" -> {"machine"}
    [] OTHER -> {}

Threads == Ipc \cup {"boot"}
NoScript == [out |-> FALSE, outUsers |-> {}, queue |-> FALSE,
             in |-> FALSE, inUsers |-> {}]
NoOp == [kind |-> "None"]
AtRest == [stage |-> "Rest", op |-> NoOp, target |-> NoScript]
Thread == [stage : {"Rest", "Store", "Set", "Read", "Bind", "Load", "Delete", "Install"},
           op : Op \cup {NoOp}, target : Script]

EnfTypeOK ==
  /\ modeFile \in {"Paused", "Active"} /\ machineFile \in Pref
  /\ userFile \in [Uid -> Pref]
  /\ paused \in BOOLEAN /\ machine \in Pref
  /\ bind \in {"None", "Nfqueue", "Degraded"}
  /\ table \in Seq(Script)
  /\ up \in BOOLEAN /\ leftover \in BOOLEAN
  /\ raced \subseteq {"mode", "machine", "table"}
  /\ thread \in [Threads -> Thread]

EnfInit ==
  /\ limit \in Scenarios
  /\ modeFile = "Paused" /\ machineFile = "Open"
  /\ userFile = [u \in Uid |-> "Open"] /\ leftover = FALSE
  /\ paused = TRUE /\ machine = "Open" /\ bind = "None"
  /\ table = <<>>
  /\ up = FALSE
  /\ thread = [t \in Threads |-> AtRest]
  /\ faults = 0 /\ starts = 0 /\ raced = {}

-----------------------------------------------------------------------------
(* compose_traffic_script, with the cases of reapply_table and apply_modes *)
(* that lead to nft::install and nft::remove.                              *)

(* Defect: a machine block of one direction makes the users' blocks of the *)
(* other direction disappear.                                              *)
BugMachineOnly(m, users, active, bound) ==
  [out |-> WantsOut(m), outUsers |-> {}, queue |-> m = "Open" /\ active /\ bound,
   in |-> WantsIn(m), inUsers |-> {}]
Compose(m, users, active, bound) ==
  [out      |-> WantsOut(m),
   outUsers |-> IF WantsOut(m) THEN {} ELSE {u \in Uid : WantsOut(users[u])},
   queue    |-> ~WantsOut(m) /\ active /\ bound,
   in       |-> WantsIn(m),
   inUsers  |-> IF WantsIn(m) THEN {} ELSE {u \in Uid : WantsIn(users[u])}]

(* What happens to a new outbound or inbound connection of u: the first    *)
(* rule of the loaded scripts that matches decides.                        *)
OutVerdicts(s, u) ==
  (IF s.out \/ u \in s.outUsers THEN <<"Drop">> ELSE <<>>)
    \o (IF s.queue THEN <<"Queue">> ELSE <<>>)
InVerdicts(s, u) == IF s.in \/ u \in s.inUsers THEN <<"Drop">> ELSE <<>>

Outbound(tbl, u) ==
  LET hits == {i \in DOMAIN tbl : OutVerdicts(tbl[i], u) # <<>>}
      first == CHOOSE i \in hits : \A j \in hits : i <= j
  IN IF hits = {} THEN "Accept" ELSE Head(OutVerdicts(tbl[first], u))
Inbound(tbl, u) ==
  IF \E i \in DOMAIN tbl : InVerdicts(tbl[i], u) # <<>> THEN "Drop" ELSE "Accept"

-----------------------------------------------------------------------------
Busy == {t \in Threads : thread[t].stage # "Rest"}

Goto(t, stage) == thread' = [thread EXCEPT ![t].stage = stage]
(* Pong or an error: the request is over *)
Reply(t) == thread' = [thread EXCEPT ![t] = AtRest]

(* A system call that works, or fails within the bound. *)
Works == faults' = faults
Fails == faults < limit.faults /\ faults' = faults + 1

(* resume() is refused while the queue is not bound. *)
Begin(t, op) ==
  /\ up /\ t \in Ipc \ Busy
  /\ op \in limit.ops /\ Cardinality(Busy) < limit.busy
  /\ op.kind = "Resume" => bind = "Nfqueue"
  /\ thread' = [thread EXCEPT ![t] = [AtRest EXCEPT !.stage = "Store", !.op = op]]
  /\ raced' = IF Busy = {} THEN raced \ {"table"} ELSE raced \cup {"table"}
  /\ UNCHANGED <<files, memory, table, up, faults, starts, limit>>

(* The file traffic.user.tmp.N of a block that is being stored. *)
Writing(t) ==
  /\ thread[t].stage = "Store" /\ thread[t].op.kind = "User" /\ thread[t].op.pref # "Open"

(* What t stores and another request has stored and not yet set. *)
Unset(t) ==
  {p \in Touches(thread[t].op) :
     \E o \in Ipc \ {t} : thread[o].stage = "Set" /\ p \in Touches(thread[o].op)}

(* store: a temporary file is written and renamed; either may fail. *)
StoreFile(t) ==
  LET op == thread[t].op IN
  /\ thread[t].stage = "Store"
  /\ \/ /\ Works /\ Goto(t, "Set")
        /\ modeFile' = CASE op.kind = "Pause" -> "Paused"
                         [] op.kind = "Resume" -> "Active"
                         [] OTHER -> modeFile
        /\ machineFile' = IF op.kind = "Machine" THEN op.pref ELSE machineFile
        /\ userFile' = IF op.kind = "User" THEN [userFile EXCEPT ![op.uid] = op.pref]
                                           ELSE userFile
        /\ raced' = (raced \ Touches(op)) \cup Unset(t)
        /\ UNCHANGED leftover
     \/ Fails /\ Reply(t) /\ leftover' \in {leftover, leftover \/ Writing(t)}
        /\ UNCHANGED <<stored, raced>>
  /\ UNCHANGED <<memory, table, up, starts, limit>>

(* Defect: unblock and block forget the copy in memory. *)
BugNoCopy(op) == machine
MachineAfter(op) == IF op.kind = "Machine" THEN op.pref ELSE machine

SetMemory(t) ==
  LET op == thread[t].op IN
  /\ thread[t].stage = "Set"
  /\ paused' = CASE op.kind = "Pause" -> TRUE
                 [] op.kind = "Resume" -> FALSE
                 [] OTHER -> paused
  /\ machine' = MachineAfter(op)
  /\ Goto(t, "Read")
  /\ UNCHANGED <<files, bind, table, up, faults, starts, raced, limit>>

(* reapply_table: user preferences come from the files, the others from memory *)
ReadModes(t) ==
  /\ thread[t].stage = "Read"
  /\ thread' = [thread EXCEPT
       ![t].stage = "Delete",
       ![t].target = Compose(machine, userFile, ~paused, bind = "Nfqueue")]
  /\ UNCHANGED <<files, memory, table, up, faults, starts, raced, limit>>

(* nft delete: all there is to do when the target is empty; install() and  *)
(* install_composed() go on even if it fails.                              *)
DeleteTable(t) ==
  /\ thread[t].stage = "Delete"
  /\ \/ Works /\ table' = <<>>
     \/ Fails /\ UNCHANGED table
  /\ IF thread[t].target = NoScript THEN Reply(t) ELSE Goto(t, "Install")
  /\ UNCHANGED <<files, memory, up, starts, raced, limit>>

(* nft -f: rules are appended to the chains of a table that exists. *)
InstallTable(t) ==
  /\ thread[t].stage = "Install"
  /\ \/ /\ Works /\ Len(table) < MaxTable
        /\ table' = Append(table, thread[t].target)
        /\ Reply(t)
     \/ Fails /\ UNCHANGED table /\ Reply(t)
  /\ UNCHANGED <<files, memory, up, starts, raced, limit>>

-----------------------------------------------------------------------------
(* The daemon's life.                                                      *)

LoadMachine == machineFile

(* main: Shared::new loads the preferences; the NFQUEUE thread starts. *)
Start ==
  /\ ~up /\ starts < limit.starts
  /\ up' = TRUE /\ starts' = starts + 1 /\ raced' = {}
  /\ paused' = (modeFile = "Paused") /\ machine' = LoadMachine /\ bind' = "None"
  /\ thread' = [t \in Threads |->
                  IF t = "boot" THEN [AtRest EXCEPT !.stage = "Bind"]
                                ELSE AtRest]
  /\ UNCHANGED <<files, table, faults, limit>>

(* bind_and_serve binds the queue, or run_or_degrade gives up. *)
BindQueue ==
  /\ thread["boot"].stage = "Bind"
  /\ \/ Works /\ bind' = "Nfqueue" /\ Goto("boot", "Load")
     \/ Fails /\ bind' = "Degraded" /\ Reply("boot")
  /\ UNCHANGED <<files, paused, machine, table, up, starts, raced, limit>>

LoadModes ==
  /\ thread["boot"].stage = "Load"
  /\ thread' = [thread EXCEPT
       !["boot"].stage = "Delete",
       !["boot"].target = Compose(machineFile, userFile, modeFile = "Active", TRUE)]
  /\ UNCHANGED <<files, memory, table, up, faults, starts, raced, limit>>

(* recv or verdict fails: the serving loop ends, the table stays. *)
LoseQueue ==
  /\ up /\ bind = "Nfqueue" /\ thread["boot"].stage = "Rest"
  /\ Fails /\ bind' = "Degraded"
  /\ UNCHANGED <<files, paused, machine, table, up, thread, starts, raced, limit>>

(* The tables the stop script loads: everyone's traffic of a direction. *)
DropAll(out, in) == [NoScript EXCEPT !.out = out, !.in = in]

(* Defect: without a block the daemon's table is left alone. *)
BugStopKeeps == IF machineFile = "Open" THEN table ELSE <<DropAll(TRUE, TRUE)>>
(* interfire-nft-stop.sh: every file traffic.user.* is looked at. *)
StopTable ==
  CASE machineFile = "All" -> <<DropAll(TRUE, TRUE)>>
    [] machineFile = "In"  -> <<DropAll(FALSE, TRUE)>>
    [] machineFile = "Out" -> <<DropAll(TRUE, FALSE)>>
    [] OTHER -> IF leftover \/ \E u \in Uid : userFile[u] # "Open" THEN <<DropAll(TRUE, TRUE)>>
                                                                 ELSE <<>>

Down ==
  /\ up /\ up' = FALSE
  /\ leftover' \in {leftover, leftover \/ \E t \in Threads : Writing(t)}
  /\ thread' = [t \in Threads |-> AtRest]
  /\ UNCHANGED <<stored, memory, faults, starts, raced, limit>>

(* The script runs while the daemon still does. *)
Stop == Down /\ table' = StopTable
Crash == Down /\ table' = table
Reboot ==
  /\ ~up /\ table # <<>> /\ table' = <<>>
  /\ UNCHANGED <<files, memory, up, thread, faults, starts, raced, limit>>

-----------------------------------------------------------------------------
(* What the daemon reports: the status response from memory and files, the *)
(* network-status response from the table.                                 *)

Blocked(p) == p # "Open"
EnforcementLabel == IF paused THEN "Paused" ELSE bind
TrafficLabel ==
  IF Blocked(machine) \/ Blocked(machineFile) \/ \E u \in Uid : Blocked(userFile[u])
  THEN "Blocked" ELSE "Open"

(* effective: the machine wins. *)
Effective(u) ==
  CASE Blocked(machine) -> [owner |-> "Machine", pref |-> machine]
    [] ~Blocked(machine) /\ Blocked(userFile[u]) -> [owner |-> "User", pref |-> userFile[u]]
    [] OTHER -> [owner |-> "None", pref |-> "Open"]

(* Defect: a drop anywhere hides the queue rule. *)
BugDropFirst(tbl) ==
  CASE tbl = <<>> -> "Missing"
    [] \E i \in DOMAIN tbl : tbl[i].out \/ tbl[i].outUsers # {} -> "Drop"
    [] \E i \in DOMAIN tbl : tbl[i].queue -> "Queue"
    [] OTHER -> "Incomplete"
(* classify_list_output: only an output chain has a rule for oifname lo.   *)
(* A table that cannot be listed is reported as missing.                   *)
Classify(tbl) ==
  LET queue == \E i \in DOMAIN tbl : tbl[i].queue
      out == \E i \in DOMAIN tbl : tbl[i].out \/ tbl[i].outUsers # {}
  IN CASE tbl = <<>> -> "Missing"
       [] tbl # <<>> /\ queue -> "Queue"
       [] tbl # <<>> /\ ~queue /\ out -> "Drop"
       [] OTHER -> "Incomplete"

EnfNext ==
  \/ \E t \in Ipc, op \in Op : Begin(t, op)
  \/ \E t \in Threads : StoreFile(t) \/ SetMemory(t) \/ ReadModes(t)
                          \/ DeleteTable(t) \/ InstallTable(t)
  \/ Start \/ BindQueue \/ LoadModes \/ LoseQueue
  \/ Stop \/ Crash \/ Reboot

EnfSpec == EnfInit /\ [][EnfNext]_enfVars

-----------------------------------------------------------------------------
Quiet == up /\ Busy = {}
(* No call failed, and the last request had the table to itself. *)
Orderly == faults = 0 /\ raced = {}

(* What the stored preferences ask for. *)
StoredOut(u) ==
  CASE WantsOut(machineFile) \/ WantsOut(userFile[u]) -> "Drop"
    [] OTHER -> IF modeFile = "Active" /\ bind = "Nfqueue" THEN "Queue" ELSE "Accept"
StoredIn(u) == IF WantsIn(machineFile) \/ WantsIn(userFile[u]) THEN "Drop" ELSE "Accept"
TableFollowsFiles ==
  \A u \in Uid : Outbound(table, u) = StoredOut(u) /\ Inbound(table, u) = StoredIn(u)

(* When no request and no boot work is under way, no system call has       *)
(* failed and the last request overlapped no other, the table does to      *)
(* every user's new connections exactly what the stored preferences ask    *)
(* for, over restarts, crashes and reboots.                                *)
QuietTableEnforces == Quiet /\ Orderly => TableFollowsFiles

(* pause, resume, block and unblock leave the copies in memory, which      *)
(* status reports and the next reapply reads, equal to the files a restart *)
(* would load, also when a write or an nft call failed and whatever else   *)
(* ran at the same time.  The exception is two requests for the same       *)
(* preference of which one stored it before the other had set its copy.    *)
MemoryMatchesFiles ==
  Quiet => /\ "mode" \in raced \/ paused = (modeFile = "Paused")
           /\ "machine" \in raced \/ machine = machineFile

(* interfire-nft-stop.sh never lets through what a stored machine block    *)
(* forbids.                                                                *)
StopKeepsMachineBlock ==
  [][up /\ ~up' /\ table' # table => \A u \in Uid :
       /\ WantsOut(machineFile) => Outbound(table', u) = "Drop"
       /\ WantsIn(machineFile) => Inbound(table', u) = "Drop"]_enfVars

(* An orderly stop leaves no queue rule behind that nobody serves, and     *)
(* without a stored block, or a temporary file that looks like one, it     *)
(* lets every connection through.                                          *)
StopReleases ==
  [][Stop => \A u \in Uid :
       /\ Outbound(table', u) # "Queue"
       /\ TrafficLabel = "Open" /\ ~leftover =>
            Outbound(table', u) = "Accept" /\ Inbound(table', u) = "Accept"]_enfVars

(* The stop step takes away what needs the daemon and keeps what does not. *)
StopHonoured == StopKeepsMachineBlock /\ StopReleases

(* A request or boot whose own nft calls work puts the table right, no     *)
(* matter what failed before: a queue that could not be bound, a lost      *)
(* queue, a block that was stored and never installed, requests that       *)
(* overlapped.  Unless the queue was lost while it worked.                 *)
RequestHeals ==
  [][\A t \in Threads :
       LET target == thread[t].target
           loaded == InstallTable(t) /\ table = <<>> /\ table' # <<>>
           removed == DeleteTable(t) /\ target = NoScript /\ faults' = faults
       IN (loaded \/ removed) /\ raced = {} /\ (target.queue => bind = "Nfqueue") => TableFollowsFiles']_enfVars

(* status and network-status never contradict each other when nothing is   *)
(* under way and nothing failed: the queue rule is reported exactly when   *)
(* enforcement is, a missing table exactly when nothing is enforced.       *)
ReportsAgree ==
  Quiet /\ Orderly =>
    /\ Classify(table) = "Queue" <=> EnforcementLabel = "Nfqueue" /\ ~WantsOut(machine)
    /\ Classify(table) = "Missing" <=> EnforcementLabel # "Nfqueue" /\ TrafficLabel = "Open"

(* The traffic label a user is shown is enforced: its directions are       *)
(* dropped, and open means that nothing of theirs is.                      *)
LabelEnforced ==
  Quiet /\ Orderly =>
    \A u \in Uid :
      LET label == Effective(u)
      IN /\ WantsOut(label.pref) => Outbound(table, u) = "Drop"
         /\ WantsIn(label.pref) => Inbound(table, u) = "Drop"
         /\ label.owner = "None" => "Drop" \notin {Outbound(table, u), Inbound(table, u)}

(* What status, network-status and the traffic label report is what is    *)
(* in force.                                                               *)
ReportsTrue == ReportsAgree /\ LabelEnforced
=============================================================================
