------------------------- MODULE EnforcementProofs -------------------------
(***************************************************************************)
(* Proofs about Enforcement for every set of users, every number of IPC    *)
(* threads, every scenario and every number of failures.                   *)
(***************************************************************************)
EXTENDS Enforcement, TLAPS

(* What a request carries. *)
LEMMA OpFields ==
  ASSUME NEW op \in Op \cup {NoOp}
  PROVE  /\ op.kind \in {"Pause", "Resume", "Machine", "User", "None"}
         /\ op.kind = "Machine" => op.pref \in Pref
         /\ op.kind = "User" => op.uid \in Uid /\ op.pref \in Pref
<1>1. CASE op \in [kind : {"Pause", "Resume"}]
  BY <1>1
<1>2. CASE op \in [kind : {"Machine"}, pref : Pref]
  BY <1>2
<1>3. CASE op \in [kind : {"User"}, uid : Uid, pref : Pref]
  BY <1>3
<1>4. CASE op = NoOp
  BY <1>4 DEF NoOp
<1> QED
  BY <1>1, <1>2, <1>3, <1>4 DEF Op

(* A composed script is a script, and so is the empty one. *)
LEMMA ScriptTypes ==
  /\ NoScript \in Script
  /\ \A m, users, active, bound : bound \in BOOLEAN /\ active \in BOOLEAN =>
       Compose(m, users, active, bound) \in Script
  BY DEF NoScript, Script, Compose, WantsOut, WantsIn

(* An idle thread is a thread. *)
LEMMA RestTypes == AtRest \in Thread
  BY ScriptTypes DEF AtRest, Thread

(* What the EXCEPTs of Goto and Reply do to the threads. *)
LEMMA GotoTypes ==
  ASSUME thread \in [Threads -> Thread], NEW t \in Threads,
         NEW s \in {"Rest", "Store", "Set", "Read", "Bind", "Load", "Delete", "Install"},
         Goto(t, s)
  PROVE  thread' \in [Threads -> Thread]
  BY DEF Goto, Thread

(* Ending an operation leaves the threads well typed. *)
LEMMA ReplyTypes ==
  ASSUME thread \in [Threads -> Thread], NEW t \in Threads, Reply(t)
  PROVE  thread' \in [Threads -> Thread]
  BY RestTypes DEF Reply

(* Choosing the script to load leaves the threads well typed. *)
LEMMA TargetTypes ==
  ASSUME thread \in [Threads -> Thread], NEW t \in Threads, NEW s \in Script,
         thread' = [thread EXCEPT ![t].stage = "Delete", ![t].target = s]
  PROVE  thread' \in [Threads -> Thread]
<1>1. thread'[t] = [thread[t] EXCEPT !.stage = "Delete", !.target = s]
  OBVIOUS
<1>2. thread[t] \in Thread
  OBVIOUS
<1>3. thread'[t] \in Thread
  BY <1>1, <1>2 DEF Thread
<1> QED
  BY <1>3

(* The stop script loads at most one script, without a queue rule. *)
LEMMA DropAllFields ==
  ASSUME NEW o \in BOOLEAN, NEW i \in BOOLEAN
  PROVE  /\ DropAll(o, i) \in Script
         /\ DropAll(o, i).out = o /\ DropAll(o, i).in = i
         /\ DropAll(o, i).queue = FALSE
         /\ DropAll(o, i).outUsers = {} /\ DropAll(o, i).inUsers = {}
  BY DEF DropAll, NoScript, Script

(* What interfire-nft-stop.sh installs in each state of the preference files. *)
LEMMA StopCases ==
  ASSUME machineFile \in Pref
  PROVE  /\ machineFile = "All" => StopTable = <<DropAll(TRUE, TRUE)>>
         /\ machineFile = "In" => StopTable = <<DropAll(FALSE, TRUE)>>
         /\ machineFile = "Out" => StopTable = <<DropAll(TRUE, FALSE)>>
         /\ machineFile = "Open" /\ (leftover \/ \E u \in Uid : userFile[u] # "Open")
              => StopTable = <<DropAll(TRUE, TRUE)>>
         /\ machineFile = "Open" /\ ~(leftover \/ \E u \in Uid : userFile[u] # "Open")
              => StopTable = <<>>
  BY DEF StopTable, Pref

(* The stop script installs a list of scripts. *)
LEMMA StopTypes ==
  ASSUME machineFile \in Pref
  PROVE  StopTable \in Seq(Script)
<1>1. \A s \in Script : <<s>> \in Seq(Script)
  OBVIOUS
<1>2. <<>> \in Seq(Script)
  OBVIOUS
<1> QED
  BY <1>1, <1>2, StopCases, DropAllFields DEF Pref

(* The verdicts of a table of one script, and of none. *)
LEMMA OneScript ==
  ASSUME NEW s \in Script, NEW u \in Uid
  PROVE  /\ Outbound(<<s>>, u) = IF s.out \/ u \in s.outUsers THEN "Drop"
                                 ELSE IF s.queue THEN "Queue" ELSE "Accept"
         /\ Inbound(<<s>>, u) = IF s.in \/ u \in s.inUsers THEN "Drop" ELSE "Accept"
<1> DEFINE hits == {i \in DOMAIN <<s>> : OutVerdicts(<<s>>[i], u) # <<>>}
           first == CHOOSE i \in hits : \A j \in hits : i <= j
<1>1. DOMAIN <<s>> = {1} /\ <<s>>[1] = s
  OBVIOUS
<1>2. /\ s.out \/ u \in s.outUsers => OutVerdicts(s, u) # <<>> /\ Head(OutVerdicts(s, u)) = "Drop"
      /\ ~(s.out \/ u \in s.outUsers) /\ s.queue
           => OutVerdicts(s, u) # <<>> /\ Head(OutVerdicts(s, u)) = "Queue"
      /\ ~(s.out \/ u \in s.outUsers) /\ ~s.queue => OutVerdicts(s, u) = <<>>
  BY DEF OutVerdicts
<1>3. hits = IF OutVerdicts(s, u) # <<>> THEN {1} ELSE {}
  BY <1>1
<1>4. OutVerdicts(s, u) # <<>> => first = 1
  BY <1>3
<1>5. Outbound(<<s>>, u) = IF hits = {} THEN "Accept" ELSE Head(OutVerdicts(<<s>>[first], u))
  BY DEF Outbound
<1>6. Outbound(<<s>>, u) = IF OutVerdicts(s, u) = <<>> THEN "Accept" ELSE Head(OutVerdicts(s, u))
  BY <1>1, <1>3, <1>4, <1>5
<1>7. Inbound(<<s>>, u) = IF s.in \/ u \in s.inUsers THEN "Drop" ELSE "Accept"
  BY <1>1 DEF Inbound, InVerdicts
<1> QED
  BY <1>2, <1>6, <1>7

(* Without a table every packet is accepted. *)
LEMMA EmptyTable ==
  ASSUME NEW u \in Uid
  PROVE  Outbound(<<>>, u) = "Accept" /\ Inbound(<<>>, u) = "Accept"
  BY DEF Outbound, Inbound

-----------------------------------------------------------------------------
(* Type correctness.                                                       *)

(* The type invariant holds initially. *)
LEMMA TypesInit == EnfInit => EnfTypeOK
<1>1. <<>> \in Seq(Script)
  OBVIOUS
<1>2. [t \in Threads |-> AtRest] \in [Threads -> Thread]
  BY RestTypes
<1>3. [u \in Uid |-> "Open"] \in [Uid -> Pref]
  BY DEF Pref
<1> QED
  BY <1>1, <1>2, <1>3 DEF EnfInit, EnfTypeOK, Pref

(* Every step keeps the type invariant. *)
LEMMA TypesNext ==
  ASSUME EnfTypeOK, [EnfNext]_enfVars
  PROVE  EnfTypeOK'
<1> USE DEF EnfTypeOK
<1>1. ASSUME NEW t \in Ipc, NEW op \in Op, Begin(t, op)
      PROVE  EnfTypeOK'
  <2>1. [AtRest EXCEPT !.stage = "Store", !.op = op] \in Thread
    BY RestTypes DEF AtRest, Thread
  <2>2. thread' \in [Threads -> Thread]
    BY <1>1, <2>1 DEF Begin, Threads
  <2>3. raced' \subseteq {"mode", "machine", "table"}
    BY <1>1 DEF Begin
  <2> QED
    BY <1>1, <2>2, <2>3 DEF Begin, files, stored, memory
<1>2. ASSUME NEW t \in Threads, StoreFile(t)
      PROVE  EnfTypeOK'
  <2>0. thread[t].op \in Op \cup {NoOp}
    BY DEF Thread
  <2>1. thread' \in [Threads -> Thread]
    BY <1>2, GotoTypes, ReplyTypes DEF StoreFile
  <2>2. modeFile' \in {"Paused", "Active"} /\ machineFile' \in Pref /\ userFile' \in [Uid -> Pref]
    BY <1>2, <2>0, OpFields DEF StoreFile, stored
  <2>3. raced' \subseteq {"mode", "machine", "table"}
    BY <1>2, <2>0, OpFields DEF StoreFile, Unset, Touches
  <2>4. leftover' \in BOOLEAN
    BY <1>2 DEF StoreFile, Writing
  <2> QED
    BY <1>2, <2>1, <2>2, <2>3, <2>4 DEF StoreFile, memory
<1>3. ASSUME NEW t \in Threads, SetMemory(t)
      PROVE  EnfTypeOK'
  <2>0. thread[t].op \in Op \cup {NoOp}
    BY DEF Thread
  <2>1. thread' \in [Threads -> Thread]
    BY <1>3, GotoTypes DEF SetMemory
  <2>2. paused' \in BOOLEAN /\ machine' \in Pref
    BY <1>3, <2>0, OpFields DEF SetMemory, MachineAfter
  <2> QED
    BY <1>3, <2>1, <2>2 DEF SetMemory, files, stored
<1>4. ASSUME NEW t \in Threads, ReadModes(t)
      PROVE  EnfTypeOK'
  <2>1. Compose(machine, userFile, ~paused, bind = "Nfqueue") \in Script
    BY ScriptTypes
  <2>2. thread' \in [Threads -> Thread]
    BY <1>4, <2>1, TargetTypes DEF ReadModes
  <2> QED
    BY <1>4, <2>2 DEF ReadModes, files, stored, memory
<1>5. ASSUME NEW t \in Threads, DeleteTable(t)
      PROVE  EnfTypeOK'
  <2>1. thread' \in [Threads -> Thread]
    BY <1>5, GotoTypes, ReplyTypes DEF DeleteTable
  <2>2. table' \in Seq(Script)
    <3>1. table' = <<>> \/ table' = table
      BY <1>5 DEF DeleteTable
    <3>2. <<>> \in Seq(Script)
      OBVIOUS
    <3> QED
      BY <3>1, <3>2
  <2> QED
    BY <1>5, <2>1, <2>2 DEF DeleteTable, files, stored, memory
<1>6. ASSUME NEW t \in Threads, InstallTable(t)
      PROVE  EnfTypeOK'
  <2>1. thread' \in [Threads -> Thread]
    BY <1>6, ReplyTypes DEF InstallTable
  <2>2. thread[t].target \in Script
    BY DEF Thread
  <2>3. table' \in Seq(Script)
    BY <1>6, <2>2 DEF InstallTable
  <2> QED
    BY <1>6, <2>1, <2>3 DEF InstallTable, files, stored, memory
<1>7. ASSUME Start
      PROVE  EnfTypeOK'
  <2>1. [AtRest EXCEPT !.stage = "Bind"] \in Thread
    BY RestTypes DEF AtRest, Thread
  <2>2. thread' \in [Threads -> Thread]
    BY <1>7, <2>1, RestTypes DEF Start
  <2> QED
    BY <1>7, <2>2 DEF Start, LoadMachine, files, stored
<1>8. ASSUME BindQueue
      PROVE  EnfTypeOK'
  <2>1. "boot" \in Threads
    BY DEF Threads
  <2>2. thread' \in [Threads -> Thread]
    BY <1>8, <2>1, GotoTypes, ReplyTypes DEF BindQueue
  <2> QED
    BY <1>8, <2>2 DEF BindQueue, files, stored
<1>9. ASSUME LoadModes
      PROVE  EnfTypeOK'
  <2>1. Compose(machineFile, userFile, modeFile = "Active", TRUE) \in Script
    BY ScriptTypes
  <2>2. thread' \in [Threads -> Thread]
    BY <1>9, <2>1, TargetTypes DEF LoadModes, Threads
  <2> QED
    BY <1>9, <2>2 DEF LoadModes, files, stored, memory
<1>10. ASSUME LoseQueue
       PROVE  EnfTypeOK'
  BY <1>10 DEF LoseQueue, files, stored
<1>11. ASSUME Down, table' \in Seq(Script)
       PROVE  EnfTypeOK'
  <2>1. thread' \in [Threads -> Thread]
    BY <1>11, RestTypes DEF Down
  <2>2. leftover' \in BOOLEAN
    BY <1>11 DEF Down, Writing
  <2> QED
    BY <1>11, <2>1, <2>2 DEF Down, stored, memory
<1>12. ASSUME Stop
       PROVE  EnfTypeOK'
  BY <1>11, <1>12, StopTypes DEF Stop
<1>13. ASSUME Crash
       PROVE  EnfTypeOK'
  BY <1>11, <1>13 DEF Crash
<1>14. ASSUME Reboot
       PROVE  EnfTypeOK'
  BY <1>14 DEF Reboot, files, stored, memory
<1>15. ASSUME UNCHANGED enfVars
       PROVE  EnfTypeOK'
  BY <1>15 DEF enfVars, files, stored, memory
<1> QED
  BY <1>1, <1>2, <1>3, <1>4, <1>5, <1>6, <1>7, <1>8, <1>9, <1>10, <1>12, <1>13, <1>14, <1>15
     DEF EnfNext

-----------------------------------------------------------------------------
(* The inductive invariant.                                                *)

(* A request that has stored preference p and not yet set its copy. *)
AtSet(t, p) == thread[t].stage = "Set" /\ p \in Touches(thread[t].op)

(* The boot work and the requests go through stages of their own, and      *)
(* without "table" in raced at most one of them is under way.              *)
StageInv ==
  /\ thread["boot"].stage \notin {"Store", "Set", "Read"}
  /\ \A t \in Ipc : thread[t].stage \notin {"Bind", "Load"}
  /\ "table" \notin raced => \A s, t \in Busy : s = t

(* The copy of the mode: one request at a time is between storing and      *)
(* setting it, the file holds what that request will set, and without such *)
(* a request copy and file agree.                                          *)
ModeInv ==
  "mode" \notin raced =>
    /\ \A s, t \in Ipc : AtSet(s, "mode") /\ AtSet(t, "mode") => s = t
    /\ \A t \in Ipc : AtSet(t, "mode") => (thread[t].op.kind = "Pause") = (modeFile = "Paused")
    /\ (\A t \in Ipc : ~AtSet(t, "mode")) => paused = (modeFile = "Paused")

(* The same for the copy of the machine's preference. *)
MachineInv ==
  "machine" \notin raced =>
    /\ \A s, t \in Ipc : AtSet(s, "machine") /\ AtSet(t, "machine") => s = t
    /\ \A t \in Ipc : AtSet(t, "machine") => machineFile = thread[t].op.pref
    /\ (\A t \in Ipc : ~AtSet(t, "machine")) => machine = machineFile

(* What the stored preferences make of the table. *)
Wanted == Compose(machineFile, userFile, modeFile = "Active", bind = "Nfqueue")
WantedLoaded == table = IF Wanted = NoScript THEN <<>> ELSE <<Wanted>>

(* As long as no call failed: the boot work goes on only with the queue    *)
(* bound, and what a thread without company is about to load is wanted.    *)
TableInv ==
  faults = 0 =>
    /\ thread["boot"].stage \in {"Load", "Delete", "Install"} => bind = "Nfqueue"
    /\ raced = {} =>
         /\ Busy = {} => WantedLoaded
         /\ \A t \in Threads : thread[t].stage \in {"Delete", "Install"} => thread[t].target = Wanted
         /\ \A t \in Threads : thread[t].stage = "Install" => table = <<>> /\ thread[t].target # NoScript

(* Whatever failed: what a thread without company is about to load was     *)
(* wanted when it was composed, and only the loss of the queue has         *)
(* happened since.                                                         *)
TargetInv ==
  /\ thread["boot"].stage = "Load" => bind = "Nfqueue"
  /\ raced = {} =>
       \A t \in Threads : thread[t].stage \in {"Delete", "Install"} =>
         \/ thread[t].target = Wanted
         \/ thread[t].target = Compose(machineFile, userFile, modeFile = "Active", TRUE)

EnfInv ==
  /\ EnfTypeOK /\ faults \in Nat
  /\ up => StageInv /\ ModeInv /\ MachineInv /\ TableInv /\ TargetInv
  /\ ~up => \A t \in Threads : thread[t].stage = "Rest"

-----------------------------------------------------------------------------
(* What the steps do to the threads.                                       *)

(* Which preference each operation writes; no operation writes the table directly. *)
LEMMA TouchFacts ==
  ASSUME NEW op \in Op \cup {NoOp}
  PROVE  /\ "mode" \in Touches(op) <=> op.kind \in {"Pause", "Resume"}
         /\ "machine" \in Touches(op) <=> op.kind = "Machine"
         /\ "table" \notin Touches(op)
  BY OpFields DEF Touches

(* Goto moves one thread to a stage and changes nothing else of any thread. *)
LEMMA GotoEffect ==
  ASSUME thread \in [Threads -> Thread], NEW t \in Threads, NEW s, Goto(t, s)
  PROVE  /\ thread'[t].stage = s
         /\ thread'[t].op = thread[t].op
         /\ thread'[t].target = thread[t].target
         /\ \A o \in Threads \ {t} : thread'[o] = thread[o]
  BY DEF Goto, Thread

(* Reply puts one thread to rest and leaves the others. *)
LEMMA ReplyEffect ==
  ASSUME thread \in [Threads -> Thread], NEW t \in Threads, Reply(t)
  PROVE  /\ thread'[t].stage = "Rest"
         /\ \A o \in Threads \ {t} : thread'[o] = thread[o]
  BY DEF Reply, AtRest

(* Choosing the script to load moves one thread to the delete and leaves the others. *)
LEMMA TargetEffect ==
  ASSUME thread \in [Threads -> Thread], NEW t \in Threads, NEW s,
         thread' = [thread EXCEPT ![t].stage = "Delete", ![t].target = s]
  PROVE  /\ thread'[t].stage = "Delete"
         /\ thread'[t].target = s
         /\ \A o \in Threads \ {t} : thread'[o] = thread[o]
<1>1. thread'[t] = [thread[t] EXCEPT !.stage = "Delete", !.target = s]
  OBVIOUS
<1>2. thread[t] \in Thread
  OBVIOUS
<1>3. thread'[t].stage = "Delete" /\ thread'[t].target = s
  BY <1>1, <1>2 DEF Thread
<1> QED
  BY <1>3

(* A request takes an idle thread to the store and leaves the others. *)
LEMMA BeginEffect ==
  ASSUME thread \in [Threads -> Thread], NEW t \in Ipc, NEW op \in Op, Begin(t, op)
  PROVE  /\ thread[t].stage = "Rest"
         /\ thread'[t].stage = "Store"
         /\ \A o \in Threads \ {t} : thread'[o] = thread[o]
<1>1. thread'[t] = [AtRest EXCEPT !.stage = "Store", !.op = op]
  BY DEF Begin, Threads
<1>2. thread'[t].stage = "Store"
  BY <1>1 DEF AtRest
<1> QED
  BY <1>2 DEF Begin, Busy, Threads

(* The daemon starts with its boot thread at the queue and every request thread idle. *)
LEMMA StartEffect ==
  ASSUME Start
  PROVE  /\ thread'["boot"].stage = "Bind"
         /\ \A t \in Ipc : thread'[t].stage = "Rest"
<1>1. thread' = [t \in Threads |-> IF t = "boot" THEN [AtRest EXCEPT !.stage = "Bind"] ELSE AtRest]
  BY DEF Start
<1>2. thread'["boot"] = [AtRest EXCEPT !.stage = "Bind"]
  BY <1>1 DEF Threads
<1>3. \A t \in Ipc : thread'[t] = AtRest
  BY <1>1, EnforcementAssumption DEF Threads
<1> QED
  BY <1>2, <1>3 DEF AtRest

(* The steps after which the same requests are between storing and setting *)
(* as before.                                                              *)
SameSets ==
  \A o \in Ipc : /\ thread'[o].stage = "Set" <=> thread[o].stage = "Set"
                 /\ thread[o].stage = "Set" => thread'[o].op = thread[o].op

(* ModeInv survives a step that leaves the mode file, its copy and the threads about to set it. *)
LEMMA ModeKept ==
  ASSUME ModeInv, SameSets, modeFile' = modeFile, paused' = paused,
         "mode" \in raced' <=> "mode" \in raced
  PROVE  ModeInv'
<1>1. \A o \in Ipc : AtSet(o, "mode")' <=> AtSet(o, "mode")
  BY DEF AtSet, SameSets
<1> QED
  BY <1>1 DEF ModeInv, SameSets, AtSet

(* MachineInv survives a step that leaves the machine file, its copy and the threads about to set it. *)
LEMMA MachineKept ==
  ASSUME MachineInv, SameSets, machineFile' = machineFile, machine' = machine,
         "machine" \in raced' <=> "machine" \in raced
  PROVE  MachineInv'
<1>1. \A o \in Ipc : AtSet(o, "machine")' <=> AtSet(o, "machine")
  BY DEF AtSet, SameSets
<1> QED
  BY <1>1 DEF MachineInv, SameSets, AtSet

-----------------------------------------------------------------------------
(* The copies in memory.                                                   *)

(* The steps that leave the copies, their files and the requests between   *)
(* the two alone.                                                          *)
Aside ==
  /\ SameSets
  /\ modeFile' = modeFile /\ paused' = paused
  /\ machineFile' = machineFile /\ machine' = machine
  /\ \A p \in {"mode", "machine"} : p \in raced' <=> p \in raced

(* The steps that touch neither a preference file nor its copy in memory. *)
LEMMA AsideSteps ==
  ASSUME EnfTypeOK, up, StageInv
  PROVE  /\ \A t \in Ipc, op \in Op : Begin(t, op) => Aside
         /\ \A t \in Threads : ReadModes(t) \/ DeleteTable(t) \/ InstallTable(t) => Aside
         /\ BindQueue \/ LoadModes \/ LoseQueue \/ UNCHANGED enfVars => Aside
         /\ \A t \in Threads : StoreFile(t) /\ Reply(t) /\ faults' = faults + 1
                                 /\ UNCHANGED <<stored, raced>> => Aside
<1>0. Ipc \subseteq Threads /\ "boot" \in Threads /\ thread \in [Threads -> Thread]
  BY DEF Threads, EnfTypeOK
<1>1. ASSUME NEW t \in Ipc, NEW op \in Op, Begin(t, op)
      PROVE  Aside
  <2>1. SameSets
    BY <1>0, <1>1, BeginEffect DEF SameSets
  <2> QED
    BY <1>1, <2>1 DEF Aside, Begin, files, stored, memory
<1>2. ASSUME NEW t \in Threads, ReadModes(t)
      PROVE  Aside
  <2>1. SameSets
    BY <1>0, <1>2, TargetEffect DEF SameSets, ReadModes
  <2> QED
    BY <1>2, <2>1 DEF Aside, ReadModes, files, stored, memory
<1>3. ASSUME NEW t \in Threads, DeleteTable(t)
      PROVE  Aside
  <2>1. SameSets
    BY <1>0, <1>3, GotoEffect, ReplyEffect DEF SameSets, DeleteTable
  <2> QED
    BY <1>3, <2>1 DEF Aside, DeleteTable, files, stored, memory
<1>4. ASSUME NEW t \in Threads, InstallTable(t)
      PROVE  Aside
  <2>1. SameSets
    BY <1>0, <1>4, ReplyEffect DEF SameSets, InstallTable
  <2> QED
    BY <1>4, <2>1 DEF Aside, InstallTable, files, stored, memory
<1>5. ASSUME BindQueue
      PROVE  Aside
  <2>1. SameSets
    BY <1>0, <1>5, GotoEffect, ReplyEffect DEF SameSets, BindQueue
  <2> QED
    BY <1>5, <2>1 DEF Aside, BindQueue, files, stored
<1>6. ASSUME LoadModes
      PROVE  Aside
  <2>1. SameSets
    BY <1>0, <1>6, TargetEffect DEF SameSets, LoadModes
  <2> QED
    BY <1>6, <2>1 DEF Aside, LoadModes, files, stored, memory
<1>7. ASSUME LoseQueue
      PROVE  Aside
  BY <1>7 DEF Aside, SameSets, LoseQueue, files, stored
<1>8. ASSUME UNCHANGED enfVars
      PROVE  Aside
  BY <1>8 DEF Aside, SameSets, enfVars, files, stored, memory
<1>9. ASSUME NEW t \in Threads, StoreFile(t), Reply(t), UNCHANGED <<stored, raced>>
      PROVE  Aside
  <2>1. SameSets
    BY <1>0, <1>9, ReplyEffect DEF SameSets, StoreFile
  <2> QED
    BY <1>9, <2>1 DEF Aside, StoreFile, stored, memory
<1> QED
  BY <1>1, <1>2, <1>3, <1>4, <1>5, <1>6, <1>7, <1>8, <1>9

(* A write that works. *)
Stored(t) ==
  /\ StoreFile(t) /\ Works /\ Goto(t, "Set")
  /\ modeFile' = CASE thread[t].op.kind = "Pause" -> "Paused"
                   [] thread[t].op.kind = "Resume" -> "Active"
                   [] OTHER -> modeFile
  /\ machineFile' = IF thread[t].op.kind = "Machine" THEN thread[t].op.pref ELSE machineFile
  /\ raced' = (raced \ Touches(thread[t].op)) \cup Unset(t)

(* A store either writes its file or fails and replies. *)
LEMMA StoreSplit ==
  ASSUME NEW t \in Threads, StoreFile(t)
  PROVE  Stored(t) \/ (Reply(t) /\ faults' = faults + 1 /\ UNCHANGED <<stored, raced>>)
  BY DEF StoreFile, Stored, Fails

(* Writing a preference file keeps the relation between files and copies. *)
LEMMA StoreCopies ==
  ASSUME EnfTypeOK, StageInv, ModeInv, MachineInv, NEW t \in Threads, Stored(t)
  PROVE  ModeInv' /\ MachineInv'
<1> DEFINE op == thread[t].op
<1>0. thread \in [Threads -> Thread] /\ op \in Op \cup {NoOp} /\ thread[t].stage = "Store"
  BY DEF EnfTypeOK, Thread, Stored, StoreFile
<1>1. t \in Ipc /\ Ipc \subseteq Threads
  BY <1>0 DEF StageInv, Threads
<1>2. /\ thread'[t].stage = "Set" /\ thread'[t].op = op
      /\ \A o \in Ipc \ {t} : thread'[o] = thread[o]
  BY <1>0, <1>1, GotoEffect DEF Stored
<1>3. paused' = paused /\ machine' = machine
  BY DEF Stored, StoreFile, memory
<1>4. \A p : AtSet(t, p)' <=> p \in Touches(op)
  BY <1>2 DEF AtSet
<1>5. \A p : \A o \in Ipc \ {t} : AtSet(o, p)' <=> AtSet(o, p)
  BY <1>2 DEF AtSet
<1>6. \A p : ~AtSet(t, p)
  BY <1>0 DEF AtSet
<1>7. \A p : p \notin Touches(op) => (p \in raced' <=> p \in raced)
  BY DEF Stored, Unset
<1>8. \A p : p \in Touches(op) /\ p \notin raced' => \A o \in Ipc \ {t} : ~AtSet(o, p)
  BY DEF Stored, Unset, AtSet
<1>9. ModeInv'
  <2>1. CASE "mode" \in Touches(op)
    <3>1. op.kind \in {"Pause", "Resume"}
      BY <1>0, <2>1, TouchFacts
    <3>2. (op.kind = "Pause") = (modeFile' = "Paused")
      BY <3>1 DEF Stored
    <3> QED
      BY <1>1, <1>2, <1>4, <1>5, <1>8, <2>1, <3>2 DEF ModeInv
  <2>2. CASE "mode" \notin Touches(op)
    <3>1. op.kind \notin {"Pause", "Resume"}
      BY <1>0, <2>2, TouchFacts
    <3>2. modeFile' = modeFile
      BY <3>1 DEF Stored
    <3>3. \A o \in Ipc : AtSet(o, "mode")' <=> AtSet(o, "mode")
      BY <1>4, <1>5, <1>6, <2>2
    <3>4. \A o \in Ipc : AtSet(o, "mode") => thread'[o].op = thread[o].op
      BY <1>2, <1>6
    <3> QED
      BY <1>3, <1>7, <2>2, <3>2, <3>3, <3>4 DEF ModeInv
  <2> QED
    BY <2>1, <2>2
<1>10. MachineInv'
  <2>1. CASE "machine" \in Touches(op)
    <3>1. op.kind = "Machine"
      BY <1>0, <2>1, TouchFacts
    <3>2. machineFile' = op.pref
      BY <3>1 DEF Stored
    <3> QED
      BY <1>1, <1>2, <1>4, <1>5, <1>8, <2>1, <3>2 DEF MachineInv
  <2>2. CASE "machine" \notin Touches(op)
    <3>1. op.kind # "Machine"
      BY <1>0, <2>2, TouchFacts
    <3>2. machineFile' = machineFile
      BY <3>1 DEF Stored
    <3>3. \A o \in Ipc : AtSet(o, "machine")' <=> AtSet(o, "machine")
      BY <1>4, <1>5, <1>6, <2>2
    <3>4. \A o \in Ipc : AtSet(o, "machine") => thread'[o].op = thread[o].op
      BY <1>2, <1>6
    <3> QED
      BY <1>3, <1>7, <2>2, <3>2, <3>3, <3>4 DEF MachineInv
  <2> QED
    BY <2>1, <2>2
<1> QED
  BY <1>9, <1>10

(* Updating the copy after the file was written keeps the relation between files and copies. *)
LEMMA SetCopies ==
  ASSUME EnfTypeOK, StageInv, ModeInv, MachineInv, NEW t \in Threads, SetMemory(t)
  PROVE  ModeInv' /\ MachineInv'
<1> DEFINE op == thread[t].op
<1>0. thread \in [Threads -> Thread] /\ op \in Op \cup {NoOp} /\ thread[t].stage = "Set"
  BY DEF EnfTypeOK, Thread, SetMemory
<1>1. t \in Ipc /\ Ipc \subseteq Threads
  BY <1>0 DEF StageInv, Threads
<1>2. thread'[t].stage = "Read" /\ \A o \in Ipc \ {t} : thread'[o] = thread[o]
  BY <1>0, <1>1, GotoEffect DEF SetMemory
<1>3. modeFile' = modeFile /\ machineFile' = machineFile /\ raced' = raced
  BY DEF SetMemory, files, stored
<1>4. \A p : ~AtSet(t, p)' /\ (AtSet(t, p) <=> p \in Touches(op))
  BY <1>0, <1>2 DEF AtSet
<1>5. \A p : \A o \in Ipc \ {t} : AtSet(o, p)' <=> AtSet(o, p)
  BY <1>2 DEF AtSet
<1>6. ModeInv'
  <2>1. CASE "mode" \in Touches(op)
    <3>1. op.kind \in {"Pause", "Resume"}
      BY <1>0, <2>1, TouchFacts
    <3>2. paused' = (op.kind = "Pause")
      BY <3>1 DEF SetMemory
    <3> QED
      BY <1>1, <1>2, <1>3, <1>4, <1>5, <2>1, <3>2 DEF ModeInv
  <2>2. CASE "mode" \notin Touches(op)
    <3>1. op.kind \notin {"Pause", "Resume"}
      BY <1>0, <2>2, TouchFacts
    <3>2. paused' = paused
      BY <3>1 DEF SetMemory
    <3> QED
      BY <1>1, <1>2, <1>3, <1>4, <1>5, <2>2, <3>2 DEF ModeInv
  <2> QED
    BY <2>1, <2>2
<1>7. MachineInv'
  <2>1. CASE "machine" \in Touches(op)
    <3>1. op.kind = "Machine"
      BY <1>0, <2>1, TouchFacts
    <3>2. machine' = op.pref
      BY <3>1 DEF SetMemory, MachineAfter
    <3> QED
      BY <1>1, <1>2, <1>3, <1>4, <1>5, <2>1, <3>2 DEF MachineInv
  <2>2. CASE "machine" \notin Touches(op)
    <3>1. op.kind # "Machine"
      BY <1>0, <2>2, TouchFacts
    <3>2. machine' = machine
      BY <3>1 DEF SetMemory, MachineAfter
    <3> QED
      BY <1>1, <1>2, <1>3, <1>4, <1>5, <2>2, <3>2 DEF MachineInv
  <2> QED
    BY <2>1, <2>2
<1> QED
  BY <1>6, <1>7

(* A daemon that is down has no threads. *)
LEMMA DownNext ==
  ASSUME EnfInv, [EnfNext]_enfVars, ~up'
  PROVE  \A t \in Threads : thread'[t].stage = "Rest"
<1>0. Ipc \subseteq Threads /\ "boot" \in Threads
  BY DEF Threads
<1>1. CASE up
  <2>1. \A t \in Threads : StoreFile(t) \/ SetMemory(t) \/ ReadModes(t) \/ DeleteTable(t)
                             \/ InstallTable(t) => up' = up
    BY DEF StoreFile, SetMemory, ReadModes, DeleteTable, InstallTable
  <2>2. \A t \in Ipc, op \in Op : Begin(t, op) => up' = up
    BY DEF Begin
  <2>3. Start \/ BindQueue \/ LoadModes \/ LoseQueue \/ Reboot \/ UNCHANGED enfVars => up' = up \/ ~up
    BY DEF Start, BindQueue, LoadModes, LoseQueue, Reboot, enfVars
  <2>4. Down
    BY <1>1, <2>1, <2>2, <2>3 DEF EnfNext, Stop, Crash
  <2> QED
    BY <2>4 DEF Down, AtRest
<1>2. CASE ~up
  <2>1. \A t \in Threads : thread[t].stage = "Rest"
    BY <1>2 DEF EnfInv
  <2>2. \A t \in Threads : ~StoreFile(t) /\ ~SetMemory(t) /\ ~ReadModes(t) /\ ~DeleteTable(t)
                             /\ ~InstallTable(t)
    BY <2>1 DEF StoreFile, SetMemory, ReadModes, DeleteTable, InstallTable
  <2>3. ~BindQueue /\ ~LoadModes
    BY <1>0, <2>1 DEF BindQueue, LoadModes
  <2>4. ~LoseQueue /\ ~Stop /\ ~Crash /\ ~Start
    BY <1>2 DEF LoseQueue, Stop, Crash, Down, Start
  <2>5. \A t \in Ipc, op \in Op : ~Begin(t, op)
    BY <1>2 DEF Begin
  <2>6. thread' = thread
    BY <2>2, <2>3, <2>4, <2>5 DEF EnfNext, Reboot, enfVars
  <2> QED
    BY <2>1, <2>6
<1> QED
  BY <1>1, <1>2

(* Only Start brings the daemon up. *)
LEMMA OnlyStartRaises ==
  ASSUME [EnfNext]_enfVars, ~up, up'
  PROVE  Start
<1>1. ASSUME NEW t \in Threads
      PROVE  StoreFile(t) \/ SetMemory(t) \/ ReadModes(t) \/ DeleteTable(t) \/ InstallTable(t) => up' = up
  BY DEF StoreFile, SetMemory, ReadModes, DeleteTable, InstallTable
<1>2. \A t \in Ipc, op \in Op : Begin(t, op) => up' = up
  BY DEF Begin
<1>3. BindQueue \/ LoadModes \/ LoseQueue \/ Reboot \/ UNCHANGED enfVars => up' = up
  BY DEF BindQueue, LoadModes, LoseQueue, Reboot, enfVars
<1>4. Stop \/ Crash => ~up'
  BY DEF Stop, Crash, Down
<1> QED
  BY <1>1, <1>2, <1>3, <1>4 DEF EnfNext

(* Start reads the files. *)
LEMMA StartCopies ==
  ASSUME Start
  PROVE  ModeInv' /\ MachineInv'
<1>1. \A t \in Ipc : \A p : ~AtSet(t, p)'
  BY StartEffect DEF AtSet
<1>2. paused' = (modeFile' = "Paused") /\ machine' = machineFile'
  BY DEF Start, LoadMachine, files, stored
<1> QED
  BY <1>1, <1>2 DEF ModeInv, MachineInv

(* No step of a daemon that stays up, or comes up, breaks the copies. *)
LEMMA CopiesNext ==
  ASSUME EnfInv, [EnfNext]_enfVars, up'
  PROVE  ModeInv' /\ MachineInv'
<1>1. CASE Start
  BY <1>1, StartCopies
<1>2. CASE up /\ Aside
  <2>1. ModeInv /\ MachineInv
    BY <1>2 DEF EnfInv
  <2> QED
    BY <1>2, <2>1, ModeKept, MachineKept DEF Aside
<1>3. CASE up /\ \E t \in Threads : StoreFile(t)
  <2>1. PICK t \in Threads : StoreFile(t)
    BY <1>3
  <2>2. EnfTypeOK /\ StageInv /\ ModeInv /\ MachineInv
    BY <1>3 DEF EnfInv
  <2>3. CASE Stored(t)
    BY <2>2, <2>3, StoreCopies
  <2>4. CASE Reply(t) /\ faults' = faults + 1 /\ UNCHANGED <<stored, raced>>
    BY <1>2, <1>3, <2>1, <2>2, <2>4, AsideSteps
  <2> QED
    BY <2>1, <2>3, <2>4, StoreSplit
<1>4. CASE up /\ \E t \in Threads : SetMemory(t)
  BY <1>4, SetCopies DEF EnfInv
<1>5. CASE Stop \/ Crash \/ Reboot
  BY <1>5 DEF Stop, Crash, Reboot, Down
<1>6. CASE ~up
  BY <1>1, <1>6, OnlyStartRaises
<1>7. CASE up
  BY <1>1, <1>2, <1>3, <1>4, <1>5, <1>7, AsideSteps DEF EnfNext, EnfInv
<1> QED
  BY <1>6, <1>7

-----------------------------------------------------------------------------
(* The stages.                                                             *)

(* Every step of a running daemon keeps StageInv. *)
LEMMA StageNext ==
  ASSUME EnfInv, [EnfNext]_enfVars, up'
  PROVE  StageInv'
<1>0. /\ thread \in [Threads -> Thread] /\ Ipc \subseteq Threads /\ "boot" \in Threads
      /\ "boot" \notin Ipc /\ Threads = Ipc \cup {"boot"}
  BY EnforcementAssumption DEF EnfInv, EnfTypeOK, Threads
<1>1. CASE Start
  <2>1. Busy' = {"boot"}
    BY <1>0, <1>1, StartEffect DEF Busy
  <2> QED
    BY <1>1, <2>1, StartEffect DEF StageInv
<1>2. ASSUME up, NEW t \in Ipc, NEW op \in Op, Begin(t, op)
      PROVE  StageInv'
  <2>1. StageInv
    BY <1>2 DEF EnfInv
  <2>2. /\ thread'[t].stage = "Store"
        /\ \A o \in Threads \ {t} : thread'[o] = thread[o]
    BY <1>0, <1>2, BeginEffect
  <2>3. "table" \notin raced' => Busy = {}
    BY <1>2 DEF Begin
  <2>4. Busy' \subseteq Busy \cup {t}
    BY <2>2 DEF Busy
  <2> QED
    BY <1>0, <2>1, <2>2, <2>3, <2>4 DEF StageInv
<1>3. ASSUME up, NEW t \in Threads, thread[t].stage # "Rest", NEW s,
             thread'[t].stage = s, \A o \in Threads \ {t} : thread'[o] = thread[o],
             t = "boot" => s \notin {"Store", "Set", "Read"},
             t # "boot" => s \notin {"Bind", "Load"},
             "table" \notin raced' => "table" \notin raced
      PROVE  StageInv'
  <2>1. StageInv
    BY <1>3 DEF EnfInv
  <2>2. Busy' \subseteq Busy
    BY <1>3 DEF Busy
  <2> QED
    BY <1>0, <1>3, <2>1, <2>2 DEF StageInv
<1>4. ASSUME up, NEW t \in Threads, StoreFile(t)
      PROVE  StageInv'
  <2>1. thread[t].stage = "Store" /\ t # "boot"
    BY <1>4 DEF StoreFile, EnfInv, StageInv
  <2>2. CASE Stored(t)
    <3>1. "table" \notin raced' => "table" \notin raced
      <4>1. thread[t].op \in Op \cup {NoOp}
        BY <1>0 DEF Thread
      <4> QED
        BY <2>2, <4>1, TouchFacts DEF Stored
    <3> QED
      BY <1>0, <1>3, <1>4, <2>1, <2>2, <3>1, GotoEffect DEF Stored
  <2>3. CASE Reply(t) /\ UNCHANGED raced
    BY <1>0, <1>3, <1>4, <2>1, <2>3, ReplyEffect
  <2> QED
    BY <1>4, <2>2, <2>3, StoreSplit
<1>5. ASSUME up, NEW t \in Threads, SetMemory(t)
      PROVE  StageInv'
  <2>1. thread[t].stage = "Set" /\ t # "boot" /\ raced' = raced /\ Goto(t, "Read")
    BY <1>5 DEF SetMemory, EnfInv, StageInv
  <2> QED
    BY <1>0, <1>3, <1>5, <2>1, GotoEffect
<1>6. ASSUME up, NEW t \in Threads, ReadModes(t)
      PROVE  StageInv'
  BY <1>0, <1>3, <1>6, TargetEffect DEF ReadModes
<1>7. ASSUME up, NEW t \in Threads, DeleteTable(t)
      PROVE  StageInv'
  BY <1>0, <1>3, <1>7, GotoEffect, ReplyEffect DEF DeleteTable
<1>8. ASSUME up, NEW t \in Threads, InstallTable(t)
      PROVE  StageInv'
  BY <1>0, <1>3, <1>8, ReplyEffect DEF InstallTable
<1>9. ASSUME up, BindQueue
      PROVE  StageInv'
  BY <1>0, <1>3, <1>9, GotoEffect, ReplyEffect DEF BindQueue
<1>10. ASSUME up, LoadModes
       PROVE  StageInv'
  BY <1>0, <1>3, <1>10, TargetEffect DEF LoadModes
<1>11. ASSUME up, LoseQueue \/ UNCHANGED enfVars
       PROVE  StageInv'
  BY <1>11 DEF EnfInv, StageInv, Busy, LoseQueue, enfVars
<1>12. CASE Stop \/ Crash \/ Reboot
  BY <1>12 DEF Stop, Crash, Reboot, Down
<1>13. CASE ~up
  BY <1>1, <1>13, OnlyStartRaises
<1> QED
  BY <1>1, <1>2, <1>4, <1>5, <1>6, <1>7, <1>8, <1>9, <1>10, <1>11, <1>12, <1>13 DEF EnfNext

-----------------------------------------------------------------------------
(* The table.                                                              *)

(* compose_traffic_script against what the preferences mean. *)
LEMMA ComposedEnforces ==
  ASSUME NEW m \in Pref, NEW users \in [Uid -> Pref], NEW active \in BOOLEAN,
         NEW bound \in BOOLEAN, NEW u \in Uid
  PROVE  LET s == Compose(m, users, active, bound)
             out == IF WantsOut(m) \/ WantsOut(users[u]) THEN "Drop"
                    ELSE IF active /\ bound THEN "Queue" ELSE "Accept"
             in == IF WantsIn(m) \/ WantsIn(users[u]) THEN "Drop" ELSE "Accept"
         IN  /\ Outbound(<<s>>, u) = out /\ Inbound(<<s>>, u) = in
             /\ s = NoScript => Outbound(<<>>, u) = out /\ Inbound(<<>>, u) = in
<1> DEFINE s == Compose(m, users, active, bound)
<1>1. s \in Script
  BY ScriptTypes
<1>2. /\ s.out = WantsOut(m) /\ s.in = WantsIn(m)
      /\ s.queue = (~WantsOut(m) /\ active /\ bound)
      /\ u \in s.outUsers <=> ~WantsOut(m) /\ WantsOut(users[u])
      /\ u \in s.inUsers <=> ~WantsIn(m) /\ WantsIn(users[u])
  BY DEF Compose, WantsOut, WantsIn
<1>3. s = NoScript => ~s.out /\ ~s.in /\ ~s.queue /\ u \notin s.outUsers /\ u \notin s.inUsers
  BY DEF NoScript
<1>4. Outbound(<<s>>, u) = IF WantsOut(m) \/ WantsOut(users[u]) THEN "Drop"
                           ELSE IF active /\ bound THEN "Queue" ELSE "Accept"
  <2>1. Outbound(<<s>>, u) = IF s.out \/ u \in s.outUsers THEN "Drop"
                             ELSE IF s.queue THEN "Queue" ELSE "Accept"
    BY <1>1, OneScript
  <2> QED
    BY <1>2, <2>1
<1>5. Inbound(<<s>>, u) = IF WantsIn(m) \/ WantsIn(users[u]) THEN "Drop" ELSE "Accept"
  <2>1. Inbound(<<s>>, u) = IF s.in \/ u \in s.inUsers THEN "Drop" ELSE "Accept"
    BY <1>1, OneScript
  <2> QED
    BY <1>2, <2>1
<1>6. s = NoScript => Outbound(<<s>>, u) = "Accept" /\ Inbound(<<s>>, u) = "Accept"
  BY <1>1, <1>3, OneScript
<1> QED
  BY <1>4, <1>5, <1>6, EmptyTable

(* A table built from the stored preferences enforces them. *)
LEMMA WantedEnforces ==
  EnfTypeOK /\ (table = <<Wanted>> \/ WantedLoaded) => TableFollowsFiles
<1> SUFFICES ASSUME EnfTypeOK, table = <<Wanted>> \/ WantedLoaded, NEW u \in Uid
             PROVE  Outbound(table, u) = StoredOut(u) /\ Inbound(table, u) = StoredIn(u)
  BY DEF TableFollowsFiles
<1>1. machineFile \in Pref /\ userFile \in [Uid -> Pref]
  BY DEF EnfTypeOK
<1>2. /\ StoredOut(u) = IF WantsOut(machineFile) \/ WantsOut(userFile[u]) THEN "Drop"
                         ELSE IF modeFile = "Active" /\ bind = "Nfqueue" THEN "Queue" ELSE "Accept"
      /\ StoredIn(u) = IF WantsIn(machineFile) \/ WantsIn(userFile[u]) THEN "Drop" ELSE "Accept"
  BY DEF StoredOut, StoredIn, WantsOut, WantsIn
<1> DEFINE s == Compose(machineFile, userFile, modeFile = "Active", bind = "Nfqueue")
<1>3. Wanted = s /\ (modeFile = "Active") \in BOOLEAN /\ (bind = "Nfqueue") \in BOOLEAN
  BY DEF Wanted
<1>4. /\ Outbound(<<s>>, u) = StoredOut(u) /\ Inbound(<<s>>, u) = StoredIn(u)
      /\ s = NoScript => Outbound(<<>>, u) = StoredOut(u) /\ Inbound(<<>>, u) = StoredIn(u)
  <2> DEFINE active == modeFile = "Active"
             bound == bind = "Nfqueue"
  <2>1. active \in BOOLEAN /\ bound \in BOOLEAN
    OBVIOUS
  <2>2. s = Compose(machineFile, userFile, active, bound)
    OBVIOUS
  <2>3. /\ StoredOut(u) = IF WantsOut(machineFile) \/ WantsOut(userFile[u]) THEN "Drop"
                           ELSE IF active /\ bound THEN "Queue" ELSE "Accept"
        /\ StoredIn(u) = IF WantsIn(machineFile) \/ WantsIn(userFile[u]) THEN "Drop" ELSE "Accept"
    BY <1>2
  <2> HIDE DEF active, bound, s
  <2> QED
    BY <1>1, <2>1, <2>2, <2>3, ComposedEnforces
<1> QED
  BY <1>3, <1>4 DEF WantedLoaded

(* The same in the state after a step. *)
LEMMA WantedEnforcesNext ==
  EnfTypeOK' /\ (table = <<Wanted>> \/ WantedLoaded)' => TableFollowsFiles'
  BY WantedEnforces, PTL

(* A thread that is busy while raced is empty is the only one. *)
LEMMA OnlyBusy ==
  ASSUME StageInv, raced = {}, NEW t \in Threads, thread[t].stage # "Rest"
  PROVE  \A o \in Threads \ {t} : thread[o].stage = "Rest"
  BY DEF StageInv, Busy

(* What reapply_table composes from the copies is what the files want. *)
LEMMA ComposedIsWanted ==
  ASSUME EnfInv, StageInv, ModeInv, MachineInv, raced = {}, NEW t \in Ipc, Ipc \subseteq Threads,
         thread[t].stage = "Read",
         UNCHANGED <<machineFile, userFile, modeFile, bind>>
  PROVE  Compose(machine, userFile, ~paused, bind = "Nfqueue") = Wanted'
<1>1. \A o \in Ipc : ~AtSet(o, "mode") /\ ~AtSet(o, "machine")
  BY OnlyBusy DEF AtSet
<1>2. paused = (modeFile = "Paused") /\ machine = machineFile
  BY <1>1 DEF ModeInv, MachineInv
<1>3. modeFile \in {"Paused", "Active"} /\ paused \in BOOLEAN
  BY DEF EnfInv, EnfTypeOK
<1>4. ~paused = (modeFile = "Active")
  BY <1>2, <1>3
<1> QED
  BY <1>2, <1>4 DEF Wanted

(* Every step of a running daemon keeps TableInv. *)
LEMMA TableNext ==
  ASSUME EnfInv, EnfTypeOK', [EnfNext]_enfVars, up'
  PROVE  TableInv'
<1> SUFFICES ASSUME faults' = 0
             PROVE  TableInv'
  BY DEF TableInv
<1>0. /\ thread \in [Threads -> Thread] /\ Ipc \subseteq Threads /\ "boot" \in Threads
      /\ "boot" \notin Ipc /\ Threads = Ipc \cup {"boot"}
  BY EnforcementAssumption DEF EnfInv, EnfTypeOK, Threads
<1>1. ~Fails /\ faults \in Nat
  BY DEF Fails, EnfInv
<1>2. CASE Start
  BY <1>0, <1>2, StartEffect DEF TableInv, Busy
<1>3. CASE ~up
  BY <1>2, <1>3, OnlyStartRaises
<1>4. ASSUME up, NEW t \in Ipc, NEW op \in Op, Begin(t, op)
      PROVE  TableInv'
  <2>1. TableInv /\ faults = 0 /\ bind' = bind
    BY <1>4 DEF EnfInv, Begin, memory
  <2>2. /\ thread'[t].stage = "Store"
        /\ \A o \in Threads \ {t} : thread'[o] = thread[o]
    BY <1>0, <1>4, BeginEffect
  <2>3. raced' = {} => \A o \in Threads : thread[o].stage = "Rest"
    BY <1>4 DEF Begin, Busy
  <2> QED
    BY <1>0, <2>1, <2>2, <2>3 DEF TableInv, Busy
<1>5. ASSUME up, NEW t \in Ipc, thread[t].stage # "Rest", NEW s \in {"Set", "Read"},
             thread'[t].stage = s, \A o \in Threads \ {t} : thread'[o] = thread[o],
             "table" \notin raced' => "table" \notin raced, faults' = faults, bind' = bind
      PROVE  TableInv'
  <2>1. TableInv /\ StageInv
    BY <1>5 DEF EnfInv
  <2>2. raced' = {} => \A o \in Threads \ {t} : thread[o].stage = "Rest"
    BY <1>0, <1>5, <2>1 DEF StageInv, Busy
  <2> QED
    BY <1>0, <1>5, <2>1, <2>2 DEF TableInv, Busy
<1>6. ASSUME up, NEW t \in Threads, StoreFile(t)
      PROVE  TableInv'
  <2>1. Stored(t)
    BY <1>1, <1>6, StoreSplit
  <2>2. t \in Ipc /\ thread[t].stage = "Store"
    BY <1>0, <1>6 DEF StoreFile, EnfInv, StageInv
  <2>3. thread[t].op \in Op \cup {NoOp}
    BY <1>0 DEF Thread
  <2>4. "table" \notin raced' => "table" \notin raced
    BY <2>1, <2>3, TouchFacts DEF Stored
  <2>5. faults' = faults /\ bind' = bind
    BY <1>6, <2>1 DEF Stored, Works, StoreFile, memory
  <2> QED
    BY <1>0, <1>5, <1>6, <2>1, <2>2, <2>4, <2>5, GotoEffect DEF Stored
<1>7. ASSUME up, NEW t \in Threads, SetMemory(t)
      PROVE  TableInv'
  <2>1. t \in Ipc /\ thread[t].stage = "Set"
    BY <1>0, <1>7 DEF SetMemory, EnfInv, StageInv
  <2> QED
    BY <1>0, <1>5, <1>7, <2>1, GotoEffect DEF SetMemory
<1>8. ASSUME up, NEW t \in Threads, ReadModes(t)
      PROVE  TableInv'
  <2>1. TableInv /\ StageInv /\ ModeInv /\ MachineInv
    BY <1>8 DEF EnfInv
  <2>2. t \in Ipc /\ thread[t].stage = "Read"
    BY <1>0, <1>8, <2>1 DEF ReadModes, StageInv
  <2>3. /\ thread'[t].stage = "Delete"
        /\ thread'[t].target = Compose(machine, userFile, ~paused, bind = "Nfqueue")
        /\ \A o \in Threads \ {t} : thread'[o] = thread[o]
    BY <1>0, <1>8, TargetEffect DEF ReadModes
  <2>4. /\ faults' = faults /\ raced' = raced /\ bind' = bind /\ machineFile' = machineFile
        /\ userFile' = userFile /\ modeFile' = modeFile
    BY <1>8 DEF ReadModes, files, stored, memory
  <2>5. ASSUME raced = {}
        PROVE  Compose(machine, userFile, ~paused, bind = "Nfqueue") = Wanted'
    BY <1>0, <2>1, <2>2, <2>4, <2>5, ComposedIsWanted DEF EnfInv
  <2>6. raced = {} => \A o \in Threads \ {t} : thread[o].stage = "Rest"
    BY <1>0, <2>1, <2>2, OnlyBusy
  <2> QED
    BY <1>0, <2>1, <2>2, <2>3, <2>4, <2>5, <2>6 DEF TableInv, Busy
<1>9. ASSUME up, NEW t \in Threads, DeleteTable(t)
      PROVE  TableInv'
  <2>1. TableInv /\ StageInv /\ thread[t].stage = "Delete"
    BY <1>9 DEF EnfInv, DeleteTable
  <2>2. /\ faults' = faults /\ raced' = raced /\ bind' = bind /\ table' = <<>>
        /\ machineFile' = machineFile /\ userFile' = userFile /\ modeFile' = modeFile
    BY <1>1, <1>9 DEF DeleteTable, Works, files, stored, memory
  <2>3. Wanted' = Wanted
    BY <2>2 DEF Wanted
  <2>4. raced = {} => \A o \in Threads \ {t} : thread[o].stage = "Rest"
    BY <2>1, OnlyBusy
  <2>5. CASE thread[t].target = NoScript
    <3>1. thread'[t].stage = "Rest" /\ \A o \in Threads \ {t} : thread'[o] = thread[o]
      BY <1>0, <1>9, <2>5, ReplyEffect DEF DeleteTable
    <3>2. raced = {} => Wanted' = NoScript
      BY <2>1, <2>2, <2>3, <2>5 DEF TableInv
    <3>3. raced = {} => WantedLoaded'
      BY <2>2, <3>2 DEF WantedLoaded
    <3> QED
      BY <1>0, <2>1, <2>2, <2>4, <3>1, <3>3 DEF TableInv
  <2>6. CASE thread[t].target # NoScript
    <3>1. /\ thread'[t].stage = "Install" /\ thread'[t].target = thread[t].target
          /\ \A o \in Threads \ {t} : thread'[o] = thread[o]
      BY <1>0, <1>9, <2>6, GotoEffect DEF DeleteTable
    <3>2. raced = {} => thread[t].target = Wanted
      BY <2>1, <2>2 DEF TableInv
    <3>3. Busy' # {}
      BY <3>1 DEF Busy
    <3> QED
      BY <1>0, <2>1, <2>2, <2>3, <2>4, <2>6, <3>1, <3>2, <3>3 DEF TableInv
  <2> QED
    BY <2>5, <2>6
<1>10. ASSUME up, NEW t \in Threads, InstallTable(t)
       PROVE  TableInv'
  <2>1. TableInv /\ StageInv /\ thread[t].stage = "Install"
    BY <1>10 DEF EnfInv, InstallTable
  <2>2. /\ faults' = faults /\ raced' = raced /\ bind' = bind
        /\ table' = Append(table, thread[t].target) /\ Reply(t)
        /\ machineFile' = machineFile /\ userFile' = userFile /\ modeFile' = modeFile
    BY <1>1, <1>10 DEF InstallTable, Works, files, stored, memory
  <2>3. Wanted' = Wanted
    BY <2>2 DEF Wanted
  <2>4. raced = {} => \A o \in Threads \ {t} : thread[o].stage = "Rest"
    BY <2>1, OnlyBusy
  <2>5. thread'[t].stage = "Rest" /\ \A o \in Threads \ {t} : thread'[o] = thread[o]
    BY <1>0, <2>2, ReplyEffect
  <2>6. raced = {} => table' = <<Wanted'>> /\ Wanted' # NoScript
    <3>1. raced = {} => table = <<>> /\ thread[t].target = Wanted /\ Wanted # NoScript
      BY <2>1, <2>2 DEF TableInv
    <3>2. \A x : Append(<<>>, x) = <<x>>
      OBVIOUS
    <3> QED
      BY <2>2, <2>3, <3>1, <3>2
  <2>7. raced = {} => WantedLoaded'
    BY <2>6 DEF WantedLoaded
  <2> QED
    BY <1>0, <2>1, <2>2, <2>4, <2>5, <2>7 DEF TableInv
<1>11. ASSUME up, BindQueue
       PROVE  TableInv'
  <2>1. TableInv /\ StageInv /\ thread["boot"].stage = "Bind"
    BY <1>11 DEF EnfInv, BindQueue
  <2>2. faults' = faults /\ raced' = raced /\ bind' = "Nfqueue" /\ Goto("boot", "Load")
    BY <1>1, <1>11 DEF BindQueue, Works
  <2>3. /\ thread'["boot"].stage = "Load"
        /\ \A o \in Threads \ {"boot"} : thread'[o] = thread[o]
    BY <1>0, <2>2, GotoEffect
  <2>4. raced = {} => \A o \in Threads \ {"boot"} : thread[o].stage = "Rest"
    BY <1>0, <2>1, OnlyBusy
  <2> QED
    BY <1>0, <2>2, <2>3, <2>4 DEF TableInv, Busy
<1>12. ASSUME up, LoadModes
       PROVE  TableInv'
  <2>1. TableInv /\ StageInv /\ thread["boot"].stage = "Load"
    BY <1>12 DEF EnfInv, LoadModes
  <2>2. /\ faults' = faults /\ raced' = raced /\ bind' = bind
        /\ machineFile' = machineFile /\ userFile' = userFile /\ modeFile' = modeFile
    BY <1>12 DEF LoadModes, files, stored, memory
  <2>3. /\ thread'["boot"].stage = "Delete"
        /\ thread'["boot"].target = Compose(machineFile, userFile, modeFile = "Active", TRUE)
        /\ \A o \in Threads \ {"boot"} : thread'[o] = thread[o]
    BY <1>0, <1>12, TargetEffect DEF LoadModes
  <2>4. bind = "Nfqueue"
    BY <2>1, <2>2 DEF TableInv
  <2>5. (bind' = "Nfqueue") = TRUE
    BY <2>2, <2>4
  <2>6. thread'["boot"].target = Wanted'
    BY <2>2, <2>3, <2>5 DEF Wanted
  <2>7. raced = {} => \A o \in Threads \ {"boot"} : thread[o].stage = "Rest"
    BY <1>0, <2>1, OnlyBusy
  <2> QED
    BY <1>0, <2>2, <2>3, <2>4, <2>6, <2>7 DEF TableInv, Busy
<1>13. ASSUME up, UNCHANGED enfVars
       PROVE  TableInv'
  BY <1>13 DEF EnfInv, TableInv, Busy, Wanted, WantedLoaded, enfVars, files, stored, memory
<1>14. CASE Stop \/ Crash \/ Reboot \/ LoseQueue
  BY <1>1, <1>3, <1>14 DEF Stop, Crash, Reboot, Down, LoseQueue
<1> QED
  BY <1>2, <1>3, <1>4, <1>6, <1>7, <1>8, <1>9, <1>10, <1>11, <1>12, <1>13, <1>14 DEF EnfNext

(* What a thread is about to load stays what is wanted, whatever fails. *)
LEMMA TargetNext ==
  ASSUME EnfInv, [EnfNext]_enfVars, up'
  PROVE  TargetInv'
<1>0. /\ thread \in [Threads -> Thread] /\ Ipc \subseteq Threads /\ "boot" \in Threads
      /\ "boot" \notin Ipc /\ Threads = Ipc \cup {"boot"}
  BY EnforcementAssumption DEF EnfInv, EnfTypeOK, Threads
<1> DEFINE Bound == Compose(machineFile, userFile, modeFile = "Active", TRUE)
<1>1. CASE Start
  BY <1>0, <1>1, StartEffect DEF TargetInv
<1>2. CASE ~up
  BY <1>1, <1>2, OnlyStartRaises
(* One thread moves on to a stage before Delete, or to Rest. *)
<1>3. ASSUME up, NEW t \in Threads, "table" \notin raced' => "table" \notin raced,
             "table" \notin raced' => \A o \in Threads \ {t} : thread[o].stage = "Rest",
             thread'[t].stage \notin {"Delete", "Install"},
             \A o \in Threads \ {t} : thread'[o] = thread[o],
             thread'["boot"].stage = "Load" => bind' = "Nfqueue"
      PROVE  TargetInv'
  BY <1>3 DEF TargetInv
<1>4. ASSUME up, NEW t \in Threads, thread[t].stage # "Rest", "table" \notin raced
      PROVE  \A o \in Threads \ {t} : thread[o].stage = "Rest"
  BY <1>4 DEF EnfInv, StageInv, Busy
<1>5. ASSUME up, NEW t \in Ipc, NEW op \in Op, Begin(t, op)
      PROVE  TargetInv'
  <2>1. thread'[t].stage = "Store" /\ \A o \in Threads \ {t} : thread'[o] = thread[o]
    BY <1>0, <1>5, BeginEffect
  <2>2. "table" \notin raced' => \A o \in Threads : thread[o].stage = "Rest"
    BY <1>5 DEF Begin, Busy
  <2>3. bind' = bind /\ TargetInv
    BY <1>5 DEF Begin, memory, EnfInv
  <2> QED
    BY <1>0, <2>1, <2>2, <2>3 DEF TargetInv
<1>6. ASSUME up, NEW t \in Threads, StoreFile(t)
      PROVE  TargetInv'
  <2>1. t \in Ipc /\ thread[t].stage = "Store" /\ bind' = bind /\ TargetInv
    BY <1>0, <1>6 DEF StoreFile, EnfInv, StageInv, memory
  <2>2. "table" \notin raced' => "table" \notin raced
    <3>1. thread[t].op \in Op \cup {NoOp}
      BY <1>0 DEF Thread
    <3> QED
      BY <1>6, <3>1, StoreSplit, TouchFacts DEF Stored
  <2>3. thread'[t].stage \in {"Set", "Rest"} /\ \A o \in Threads \ {t} : thread'[o] = thread[o]
    BY <1>0, <1>6, StoreSplit, GotoEffect, ReplyEffect DEF Stored
  <2> QED
    BY <1>0, <1>3, <1>4, <1>6, <2>1, <2>2, <2>3, ZenonT(40) DEF TargetInv
<1>7. ASSUME up, NEW t \in Threads, SetMemory(t)
      PROVE  TargetInv'
  <2>1. t \in Ipc /\ thread[t].stage = "Set" /\ bind' = bind /\ TargetInv /\ raced' = raced
    BY <1>0, <1>7 DEF SetMemory, EnfInv, StageInv
  <2>2. thread'[t].stage = "Read" /\ \A o \in Threads \ {t} : thread'[o] = thread[o]
    BY <1>0, <1>7, GotoEffect DEF SetMemory
  <2>3. thread'["boot"].stage = "Load" => bind' = "Nfqueue"
    BY <1>0, <2>1, <2>2 DEF TargetInv
  <2>4. "table" \notin raced' => \A o \in Threads \ {t} : thread[o].stage = "Rest"
    BY <1>4, <1>7, <2>1
  <2> QED
    BY <1>3, <1>7, <2>1, <2>2, <2>3, <2>4
<1>8. ASSUME up, NEW t \in Threads, ReadModes(t)
      PROVE  TargetInv'
  <2>1. /\ t \in Ipc /\ thread[t].stage = "Read" /\ TargetInv /\ StageInv /\ ModeInv /\ MachineInv
        /\ raced' = raced /\ bind' = bind /\ machineFile' = machineFile
        /\ userFile' = userFile /\ modeFile' = modeFile
    BY <1>0, <1>8 DEF ReadModes, EnfInv, StageInv, files, stored, memory
  <2>2. /\ thread'[t].stage = "Delete"
        /\ thread'[t].target = Compose(machine, userFile, ~paused, bind = "Nfqueue")
        /\ \A o \in Threads \ {t} : thread'[o] = thread[o]
    BY <1>0, <1>8, TargetEffect DEF ReadModes
  <2>3. ASSUME raced = {}
        PROVE  Compose(machine, userFile, ~paused, bind = "Nfqueue") = Wanted'
    BY <1>0, <2>1, <2>3, ComposedIsWanted
  <2>4. raced = {} => \A o \in Threads \ {t} : thread[o].stage = "Rest"
    BY <1>4, <1>8, <2>1
  <2> QED
    BY <1>0, <2>1, <2>2, <2>3, <2>4 DEF TargetInv
<1>9. ASSUME up, NEW t \in Threads, DeleteTable(t)
      PROVE  TargetInv'
  <2>1. /\ thread[t].stage = "Delete" /\ TargetInv /\ raced' = raced /\ bind' = bind
        /\ machineFile' = machineFile /\ userFile' = userFile /\ modeFile' = modeFile
    BY <1>9 DEF DeleteTable, EnfInv, files, stored, memory
  <2>2. /\ \A o \in Threads \ {t} : thread'[o] = thread[o]
        /\ \/ thread'[t].stage = "Rest"
           \/ thread'[t].stage = "Install" /\ thread'[t].target = thread[t].target
    BY <1>0, <1>9, GotoEffect, ReplyEffect DEF DeleteTable
  <2>3. Wanted' = Wanted /\ Bound' = Bound
    BY <2>1 DEF Wanted
  <2>4. \A o \in Threads : thread'[o].stage \in {"Delete", "Install"} =>
          thread[o].stage \in {"Delete", "Install"} /\ thread'[o].target = thread[o].target
    BY <2>1, <2>2
  <2>5. thread'["boot"].stage = "Load" => bind' = "Nfqueue"
    BY <1>0, <2>1, <2>2 DEF TargetInv
  <2>6. ASSUME raced' = {}, NEW o \in Threads, thread'[o].stage \in {"Delete", "Install"}
        PROVE  thread'[o].target = Wanted' \/ thread'[o].target = Bound'
    BY <2>1, <2>3, <2>4, <2>6 DEF TargetInv
  <2> QED
    BY <2>5, <2>6 DEF TargetInv
<1>10. ASSUME up, NEW t \in Threads, InstallTable(t)
       PROVE  TargetInv'
  <2>1. /\ thread[t].stage = "Install" /\ TargetInv /\ raced' = raced /\ bind' = bind
        /\ machineFile' = machineFile /\ userFile' = userFile /\ modeFile' = modeFile
    BY <1>10 DEF InstallTable, EnfInv, files, stored, memory
  <2>2. thread'[t].stage = "Rest" /\ \A o \in Threads \ {t} : thread'[o] = thread[o]
    BY <1>0, <1>10, ReplyEffect DEF InstallTable
  <2>3. Wanted' = Wanted /\ Bound' = Bound
    BY <2>1 DEF Wanted
  <2> QED
    BY <1>0, <2>1, <2>2, <2>3, ZenonT(40) DEF TargetInv
<1>11. ASSUME up, BindQueue
       PROVE  TargetInv'
  <2>1. thread["boot"].stage = "Bind" /\ raced' = raced
    BY <1>11 DEF BindQueue
  <2>2. /\ \A o \in Threads \ {"boot"} : thread'[o] = thread[o]
        /\ \/ thread'["boot"].stage = "Rest"
           \/ thread'["boot"].stage = "Load" /\ bind' = "Nfqueue"
    BY <1>0, <1>11, GotoEffect, ReplyEffect DEF BindQueue
  <2> QED
    BY <1>0, <1>3, <1>4, <1>11, <2>1, <2>2
<1>12. ASSUME up, LoadModes
       PROVE  TargetInv'
  <2>1. /\ thread["boot"].stage = "Load" /\ raced' = raced /\ bind' = bind
        /\ machineFile' = machineFile /\ userFile' = userFile /\ modeFile' = modeFile
    BY <1>12 DEF LoadModes, files, stored, memory
  <2>2. /\ thread'["boot"].stage = "Delete" /\ thread'["boot"].target = Bound
        /\ \A o \in Threads \ {"boot"} : thread'[o] = thread[o]
    BY <1>0, <1>12, TargetEffect DEF LoadModes
  <2>3. raced = {} => \A o \in Threads \ {"boot"} : thread[o].stage = "Rest"
    BY <1>0, <1>4, <1>12, <2>1
  <2>4. Bound' = Bound
    BY <2>1
  <2> QED
    BY <1>0, <2>1, <2>2, <2>3, <2>4 DEF TargetInv
<1>13. ASSUME up, LoseQueue
       PROVE  TargetInv'
  <2>1. /\ bind = "Nfqueue" /\ thread["boot"].stage = "Rest" /\ TargetInv
        /\ thread' = thread /\ raced' = raced
        /\ machineFile' = machineFile /\ userFile' = userFile /\ modeFile' = modeFile
    BY <1>13 DEF LoseQueue, EnfInv, files, stored
  <2>2. Bound' = Bound /\ (bind = "Nfqueue") = TRUE
    BY <2>1
  <2>3. Wanted = Bound
    BY <2>2 DEF Wanted
  <2> QED
    BY <2>1, <2>2, <2>3 DEF TargetInv
<1>14. ASSUME up, UNCHANGED enfVars
       PROVE  TargetInv'
  BY <1>14 DEF EnfInv, TargetInv, Wanted, enfVars, files, stored, memory
<1>15. CASE Stop \/ Crash \/ Reboot
  BY <1>2, <1>15 DEF Stop, Crash, Reboot, Down
<1> QED
  BY <1>1, <1>2, <1>5, <1>6, <1>7, <1>8, <1>9, <1>10, <1>11, <1>12, <1>13, <1>14, <1>15
     DEF EnfNext

-----------------------------------------------------------------------------
(* The invariant of Enforcement holds for every set of users and of IPC    *)
(* threads, however requests, boot work, failures, stops, crashes and      *)
(* restarts of the daemon are interleaved.                                 *)
THEOREM EnfInvHolds == EnfSpec => []EnfInv
<1>1. EnfInit => EnfInv
  BY TypesInit DEF EnfInv, EnfInit, AtRest
<1>2. EnfInv /\ [EnfNext]_enfVars => EnfInv'
  <2> SUFFICES ASSUME EnfInv, [EnfNext]_enfVars
               PROVE  EnfInv'
    OBVIOUS
  <2>1. EnfTypeOK'
    BY TypesNext DEF EnfInv
  <2>2. faults' \in Nat
    <3>1. Works \/ Fails => faults' \in Nat
      BY DEF EnfInv, Works, Fails
    <3>2. \A t \in Threads : StoreFile(t) \/ SetMemory(t) \/ ReadModes(t) \/ DeleteTable(t)
                               \/ InstallTable(t) => Works \/ Fails
      BY DEF StoreFile, SetMemory, ReadModes, DeleteTable, InstallTable, Works
    <3>3. \A t \in Ipc, op \in Op : Begin(t, op) => Works
      BY DEF Begin, Works
    <3>4. Start \/ BindQueue \/ LoadModes \/ LoseQueue => Works \/ Fails
      BY DEF Start, BindQueue, LoadModes, LoseQueue, Works
    <3>5. Stop \/ Crash \/ Reboot \/ UNCHANGED enfVars => Works
      BY DEF Stop, Crash, Down, Reboot, Works, enfVars
    <3> QED
      BY <3>1, <3>2, <3>3, <3>4, <3>5 DEF EnfNext
  <2>3. up' => StageInv' /\ ModeInv' /\ MachineInv' /\ TableInv' /\ TargetInv'
    BY <2>1, StageNext, CopiesNext, TableNext, TargetNext
  <2>4. ~up' => \A t \in Threads : thread'[t].stage = "Rest"
    BY DownNext
  <2> QED
    BY <2>1, <2>2, <2>3, <2>4 DEF EnfInv
<1> QED
  BY <1>1, <1>2, PTL DEF EnfSpec

(* Type correctness of the preferences, the table and the threads. *)
THEOREM EnforcementTypes == EnfSpec => []EnfTypeOK
<1>1. EnfInv => EnfTypeOK
  BY DEF EnfInv
<1> QED
  BY <1>1, EnfInvHolds, PTL

(* The copies in Shared equal the files a restart would load whenever no   *)
(* request is under way, for any number of concurrent requests that store  *)
(* and set different preferences and whatever calls fail.                  *)
THEOREM CopiesFollowFiles == EnfSpec => []MemoryMatchesFiles
<1>1. EnfInv => MemoryMatchesFiles
  <2> SUFFICES ASSUME EnfInv, up, Busy = {}
               PROVE  /\ "mode" \in raced \/ paused = (modeFile = "Paused")
                      /\ "machine" \in raced \/ machine = machineFile
    BY DEF MemoryMatchesFiles, Quiet
  <2>1. \A t \in Ipc : \A p : ~AtSet(t, p)
    BY DEF Busy, Threads, AtSet
  <2> QED
    BY <2>1 DEF EnfInv, ModeInv, MachineInv
<1> QED
  BY <1>1, EnfInvHolds, PTL

(* compose_traffic_script, reapply_table and the boot work put into the    *)
(* table what the stored preferences ask for every user's connections.     *)
THEOREM TableEnforcesStored == EnfSpec => []QuietTableEnforces
<1>1. EnfInv => QuietTableEnforces
  BY WantedEnforces DEF EnfInv, QuietTableEnforces, Quiet, Orderly, TableInv
<1> QED
  BY <1>1, EnfInvHolds, PTL

(* effective in traffic_mode.rs: a label shown to a user is enforced by    *)
(* the table, because the copy it is made of equals the file.              *)
THEOREM LabelsEnforced == EnfSpec => []LabelEnforced
<1>1. MemoryMatchesFiles /\ QuietTableEnforces /\ EnfTypeOK => LabelEnforced
  <2> SUFFICES ASSUME MemoryMatchesFiles, QuietTableEnforces, EnfTypeOK, Quiet, Orderly, NEW u \in Uid
               PROVE  /\ WantsOut(Effective(u).pref) => Outbound(table, u) = "Drop"
                      /\ WantsIn(Effective(u).pref) => Inbound(table, u) = "Drop"
                      /\ Effective(u).owner = "None" => "Drop" \notin {Outbound(table, u), Inbound(table, u)}
    BY DEF LabelEnforced
  <2>1. machine = machineFile
    BY DEF MemoryMatchesFiles, Orderly
  <2>2. Outbound(table, u) = StoredOut(u) /\ Inbound(table, u) = StoredIn(u)
    BY DEF QuietTableEnforces, TableFollowsFiles
  <2>3. CASE Blocked(machine)
    <3>1. Effective(u) = [owner |-> "Machine", pref |-> machine]
      BY <2>3 DEF Effective
    <3> QED
      BY <2>1, <2>2, <3>1 DEF StoredOut, StoredIn
  <2>4. CASE ~Blocked(machine) /\ Blocked(userFile[u])
    <3>1. Effective(u) = [owner |-> "User", pref |-> userFile[u]]
      BY <2>4 DEF Effective
    <3> QED
      BY <2>1, <2>2, <3>1 DEF StoredOut, StoredIn
  <2>5. CASE ~Blocked(machine) /\ ~Blocked(userFile[u])
    <3>1. Effective(u) = [owner |-> "None", pref |-> "Open"]
      BY <2>5 DEF Effective
    <3> QED
      BY <2>1, <2>2, <2>5, <3>1 DEF StoredOut, StoredIn, Blocked, WantsOut, WantsIn
  <2> QED
    BY <2>3, <2>4, <2>5
<1> QED
  BY <1>1, CopiesFollowFiles, TableEnforcesStored, EnforcementTypes, PTL

(* interfire-nft-stop.sh loads a table that drops what a stored machine    *)
(* block forbids, whoever's connection it is.                              *)
THEOREM MachineBlockKept == EnfSpec => StopKeepsMachineBlock
<1>1. ASSUME EnfTypeOK, [EnfNext]_enfVars, up, ~up', table' # table, NEW u \in Uid
      PROVE  /\ WantsOut(machineFile) => Outbound(table', u) = "Drop"
             /\ WantsIn(machineFile) => Inbound(table', u) = "Drop"
  <2>1. Stop
    <3>1. \A t \in Threads : StoreFile(t) \/ SetMemory(t) \/ ReadModes(t) \/ DeleteTable(t)
                               \/ InstallTable(t) => up' = up
      BY DEF StoreFile, SetMemory, ReadModes, DeleteTable, InstallTable
    <3>2. \A t \in Ipc, op \in Op : Begin(t, op) => up' = up
      BY DEF Begin
    <3>3. Start \/ BindQueue \/ LoadModes \/ LoseQueue \/ Reboot \/ Crash \/ UNCHANGED enfVars
            => up' \/ table' = table \/ ~up
      BY <1>1 DEF Start, BindQueue, LoadModes, LoseQueue, Reboot, Crash, enfVars
    <3> QED
      BY <1>1, <3>1, <3>2, <3>3 DEF EnfNext
  <2>2. table' = StopTable /\ machineFile \in Pref
    BY <1>1, <2>1 DEF Stop, EnfTypeOK
  <2>3. \A o, i \in BOOLEAN : /\ o => Outbound(<<DropAll(o, i)>>, u) = "Drop"
                              /\ i => Inbound(<<DropAll(o, i)>>, u) = "Drop"
    <3> SUFFICES ASSUME NEW o \in BOOLEAN, NEW i \in BOOLEAN
                 PROVE  /\ o => Outbound(<<DropAll(o, i)>>, u) = "Drop"
                        /\ i => Inbound(<<DropAll(o, i)>>, u) = "Drop"
      OBVIOUS
    <3>1. DropAll(o, i) \in Script /\ DropAll(o, i).out = o /\ DropAll(o, i).in = i
      BY DropAllFields
    <3> QED
      BY <1>1, <3>1, OneScript
  <2> QED
    BY <2>2, <2>3, StopCases DEF WantsOut, WantsIn, Pref
<1>2. EnfTypeOK /\ [EnfNext]_enfVars =>
        [up /\ ~up' /\ table' # table => \A u \in Uid :
           /\ WantsOut(machineFile) => Outbound(table', u) = "Drop"
           /\ WantsIn(machineFile) => Inbound(table', u) = "Drop"]_enfVars
  BY <1>1
<1> QED
  BY <1>2, EnforcementTypes, PTL DEF EnfSpec, StopKeepsMachineBlock

(* interfire-nft-stop.sh leaves no queue rule, and drops nothing when      *)
(* nothing is stored.                                                      *)
THEOREM StopReleasesTable == EnfSpec => StopReleases
<1>1. ASSUME EnfTypeOK, Stop, NEW u \in Uid
      PROVE  /\ Outbound(table', u) # "Queue"
             /\ TrafficLabel = "Open" /\ ~leftover =>
                  Outbound(table', u) = "Accept" /\ Inbound(table', u) = "Accept"
  <2>1. table' = StopTable /\ machineFile \in Pref
    BY <1>1 DEF Stop, EnfTypeOK
  <2>2. \A o, i \in BOOLEAN : Outbound(<<DropAll(o, i)>>, u) # "Queue"
    BY <1>1, DropAllFields, OneScript
  <2>3. Outbound(<<>>, u) = "Accept" /\ Inbound(<<>>, u) = "Accept"
    BY EmptyTable
  <2>4. TrafficLabel = "Open" => machineFile = "Open" /\ ~\E v \in Uid : userFile[v] # "Open"
    BY DEF TrafficLabel, Blocked
  <2>5. TrafficLabel = "Open" /\ ~leftover => StopTable = <<>>
    BY <2>1, <2>4, StopCases
  <2>6. Outbound(StopTable, u) # "Queue"
    BY <2>1, <2>2, <2>3, StopCases DEF Pref
  <2> QED
    BY <2>1, <2>3, <2>5, <2>6
<1>2. EnfTypeOK /\ [EnfNext]_enfVars =>
        [Stop => \A u \in Uid :
           /\ Outbound(table', u) # "Queue"
           /\ TrafficLabel = "Open" /\ ~leftover =>
                Outbound(table', u) = "Accept" /\ Inbound(table', u) = "Accept"]_enfVars
  BY <1>1
<1> QED
  BY <1>2, EnforcementTypes, PTL DEF EnfSpec, StopReleases

(* interfire-nft-stop.sh takes away the queue rule and keeps the machine   *)
(* block.                                                                  *)
THEOREM StopIsHonoured == EnfSpec => StopHonoured
  BY MachineBlockKept, StopReleasesTable DEF StopHonoured

(* A table of one script, as the network-status response shows it. *)
LEMMA ClassifyOne ==
  ASSUME NEW s \in Script
  PROVE  /\ Classify(<<s>>) = "Queue" <=> s.queue
         /\ Classify(<<s>>) # "Missing"
         /\ Classify(<<>>) = "Missing"
<1>1. DOMAIN <<s>> = {1} /\ <<s>>[1] = s /\ <<s>> # <<>>
  OBVIOUS
<1>2. (\E i \in DOMAIN <<s>> : <<s>>[i].queue) <=> s.queue
  BY <1>1
<1> QED
  BY <1>1, <1>2 DEF Classify

(* With nothing under way and nothing failed, status and network-status    *)
(* (shared.rs, nft.rs classify_list_output) report the same enforcement.   *)
THEOREM ReportsStayTrue == EnfSpec => []ReportsTrue
<1>1. EnfInv /\ MemoryMatchesFiles => ReportsAgree
  <2> SUFFICES ASSUME EnfInv, MemoryMatchesFiles, Quiet, Orderly
               PROVE  /\ Classify(table) = "Queue" <=> EnforcementLabel = "Nfqueue" /\ ~WantsOut(machine)
                      /\ Classify(table) = "Missing" <=> EnforcementLabel # "Nfqueue" /\ TrafficLabel = "Open"
    BY DEF ReportsAgree
  <2>1. machine = machineFile /\ paused = (modeFile = "Paused") /\ WantedLoaded
    BY DEF MemoryMatchesFiles, Orderly, EnfInv, TableInv, Quiet
  <2>2. /\ machineFile \in Pref /\ userFile \in [Uid -> Pref] /\ paused \in BOOLEAN
        /\ modeFile \in {"Paused", "Active"}
    BY DEF EnfInv, EnfTypeOK
  <2>3. EnforcementLabel = "Nfqueue" <=> modeFile = "Active" /\ bind = "Nfqueue"
    BY <2>1, <2>2 DEF EnforcementLabel
  <2>4. Wanted \in Script
    BY ScriptTypes DEF Wanted
  <2>5. Wanted.queue <=> EnforcementLabel = "Nfqueue" /\ ~WantsOut(machine)
    BY <2>1, <2>3 DEF Wanted, Compose
  <2>6. Wanted = NoScript <=> EnforcementLabel # "Nfqueue" /\ TrafficLabel = "Open"
    <3>1. TrafficLabel = "Open" <=> machineFile = "Open" /\ \A u \in Uid : userFile[u] = "Open"
      BY <2>1 DEF TrafficLabel, Blocked
    <3>2. \A p \in Pref : p = "Open" <=> ~WantsOut(p) /\ ~WantsIn(p)
      BY DEF Pref, WantsOut, WantsIn
    <3>3. Wanted = NoScript <=> /\ ~Wanted.out /\ ~Wanted.in /\ ~Wanted.queue
                                /\ Wanted.outUsers = {} /\ Wanted.inUsers = {}
      BY <2>4 DEF Script, NoScript
    <3>4. /\ Wanted.out = WantsOut(machineFile) /\ Wanted.in = WantsIn(machineFile)
          /\ ~WantsOut(machineFile) => Wanted.outUsers = {u \in Uid : WantsOut(userFile[u])}
          /\ ~WantsIn(machineFile) => Wanted.inUsers = {u \in Uid : WantsIn(userFile[u])}
      BY DEF Wanted, Compose
    <3>5. CASE machineFile = "Open"
      <4>1. ~WantsOut(machineFile) /\ ~WantsIn(machineFile)
        BY <3>5 DEF WantsOut, WantsIn
      <4>2. Wanted.outUsers = {} /\ Wanted.inUsers = {} <=> \A u \in Uid : userFile[u] = "Open"
        BY <2>2, <3>2, <3>4, <4>1
      <4> QED
        BY <2>1, <2>5, <3>1, <3>3, <3>4, <3>5, <4>1, <4>2
    <3>6. CASE machineFile # "Open"
      BY <2>2, <3>1, <3>2, <3>3, <3>4, <3>6
    <3> QED
      BY <3>5, <3>6
  <2>7. CASE Wanted = NoScript
    <3>1. table = <<>> /\ ~Wanted.queue
      BY <2>1, <2>7 DEF WantedLoaded, NoScript
    <3>2. Classify(table) = "Missing"
      BY <2>4, <3>1, ClassifyOne
    <3> QED
      BY <2>5, <2>6, <2>7, <3>1, <3>2
  <2>8. CASE Wanted # NoScript
    <3>1. table = <<Wanted>>
      BY <2>1, <2>8 DEF WantedLoaded
    <3> QED
      BY <2>4, <2>5, <2>6, <2>8, <3>1, ClassifyOne
  <2> QED
    BY <2>7, <2>8
<1> QED
  BY <1>1, EnfInvHolds, CopiesFollowFiles, LabelsEnforced, PTL DEF ReportsTrue

(* A request or boot whose own nft calls work (shared.rs reapply_table,    *)
(* nfqueue_live.rs) leaves the table as the stored preferences ask,        *)
(* whatever failed before.                                                 *)
THEOREM RequestsHeal == EnfSpec => RequestHeals
<1> DEFINE loaded(t) == InstallTable(t) /\ table = <<>> /\ table' # <<>>
           removed(t) == DeleteTable(t) /\ thread[t].target = NoScript /\ faults' = faults
<1>1. ASSUME EnfInv, EnfTypeOK', NEW t \in Threads, loaded(t) \/ removed(t), raced = {},
             thread[t].target.queue => bind = "Nfqueue"
      PROVE  TableFollowsFiles'
  <2>1. /\ thread[t].stage \in {"Delete", "Install"} /\ bind' = bind
        /\ machineFile' = machineFile /\ userFile' = userFile /\ modeFile' = modeFile
    BY <1>1 DEF InstallTable, DeleteTable, files, stored, memory
  <2>2. up /\ TargetInv /\ thread \in [Threads -> Thread]
    BY <1>1, <2>1 DEF EnfInv, EnfTypeOK
  <2>3. thread[t].target = Wanted
    <3>1. CASE thread[t].target = Wanted
      BY <3>1
    <3>2. CASE thread[t].target = Compose(machineFile, userFile, modeFile = "Active", TRUE)
      <4>1. CASE bind = "Nfqueue"
        <5>1. (bind = "Nfqueue") = TRUE
          BY <4>1
        <5> QED
          BY <3>2, <5>1 DEF Wanted
      <4>2. CASE bind # "Nfqueue"
        <5>1. (bind = "Nfqueue") = FALSE /\ ~thread[t].target.queue
          BY <1>1, <4>2
        <5>2. ~(~WantsOut(machineFile) /\ modeFile = "Active" /\ TRUE)
          <6>1. thread[t].target.queue = (~WantsOut(machineFile) /\ modeFile = "Active" /\ TRUE)
            BY <3>2 DEF Compose
          <6> QED
            BY <5>1, <6>1
        <5>3. (~WantsOut(machineFile) /\ modeFile = "Active" /\ TRUE)
                = (~WantsOut(machineFile) /\ modeFile = "Active" /\ FALSE)
          BY <5>2
        <5>4. Compose(machineFile, userFile, modeFile = "Active", TRUE)
                = Compose(machineFile, userFile, modeFile = "Active", FALSE)
          BY <5>3 DEF Compose
        <5> QED
          BY <3>2, <5>1, <5>4 DEF Wanted
      <4> QED
        BY <4>1, <4>2
    <3> QED
      BY <1>1, <2>1, <2>2, <3>1, <3>2 DEF TargetInv
  <2>4. Wanted' = Wanted
    BY <2>1 DEF Wanted
  <2>5. table' = <<Wanted'>> \/ WantedLoaded'
    <3>1. CASE removed(t)
      <4>1. table' = <<>>
        <5>1. faults \in Nat
          BY <1>1 DEF EnfInv
        <5> QED
          BY <3>1, <5>1 DEF DeleteTable, Works, Fails
      <4> QED
        BY <2>3, <2>4, <3>1, <4>1 DEF WantedLoaded
    <3>2. CASE loaded(t)
      <4>1. table' = Append(<<>>, thread[t].target)
        BY <3>2 DEF InstallTable
      <4>2. \A x : Append(<<>>, x) = <<x>>
        OBVIOUS
      <4> QED
        BY <2>3, <2>4, <4>1, <4>2
    <3> QED
      BY <1>1, <3>1, <3>2
  <2> QED
    BY <1>1, <2>5, WantedEnforcesNext
<1>2. EnfInv /\ EnfInv' =>
        [\A t \in Threads :
           LET target == thread[t].target
               load == InstallTable(t) /\ table = <<>> /\ table' # <<>>
               remove == DeleteTable(t) /\ target = NoScript /\ faults' = faults
           IN (load \/ remove) /\ raced = {} /\ (target.queue => bind = "Nfqueue")
                => TableFollowsFiles']_enfVars
  BY <1>1 DEF EnfInv
<1> QED
  BY <1>2, EnfInvHolds, PTL DEF RequestHeals
=============================================================================
