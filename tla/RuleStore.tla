----------------------------- MODULE RuleStore -----------------------------
(***************************************************************************)
(* The rules in memory and on disk (ipc.rs mutate and                      *)
(* persist_answered_rule, RulesStore::save and ::load, main.rs startup).   *)
(* A handler keeps the `rules` mutex from its change in memory to its      *)
(* reply, so one save is under way at most and nobody sees the memory in   *)
(* between; but every file-system call of save() can fail, and the daemon  *)
(* can die between any two of them.                                        *)
(***************************************************************************)
EXTENDS RulesEngine

CONSTANTS Exe, Port,  \* what callers ask for
          Pid,        \* process ids the daemon may get; ids come back
          Idle

VARIABLES rules,   \* the RuleSet in memory
          disk,    \* the rules file; empty while it does not exist
          tmp,     \* pids whose .rules-<pid>.tmp exists
          pid,     \* the running daemon, or Idle when it is down
          job,     \* the handler between its change in memory and its reply
          acked,   \* history: rules reported stored, not removed since
          gone,    \* history: ids reported deleted, not used since
          unsaved, undeleted  \* history: changes answered persistence_failed

storeVars == <<rules, disk, tmp, pid, job, acked, gone, unsaved, undeleted>>

Rule == [id : RuleId, executable : Exe, protocol : {"Tcp"},
         direction : {"Outbound"}, address : {"Any"}, hostname : {"Any"},
         port : Port, verdict : EngineVerdict, scope : {"Session", "Permanent"}]

Stage == {"Open", "Write", "Rename", "Chmod"}
Job == [op : {"Add"}, rule : Rule, stage : Stage]
         \cup [op : {"Delete"}, id : RuleId, stage : Stage]

ASSUME StoreAssumption == AbsolutePath \subseteq Exe /\ Idle \notin Pid \cup Job

StoreTypeOK ==
  /\ rules \in SUBSET Rule /\ disk \in SUBSET Rule
  /\ tmp \in SUBSET Pid /\ pid \in Pid \cup {Idle}
  /\ job = Idle \/ job \in Job
  /\ acked \in SUBSET Rule /\ unsaved \in SUBSET Rule
  /\ gone \in SUBSET RuleId /\ undeleted \in SUBSET RuleId

StoreInit ==
  /\ rules = {} /\ disk = {} /\ tmp = {}
  /\ pid \in Pid /\ job = Idle
  /\ acked = {} /\ gone = {} /\ unsaved = {} /\ undeleted = {}

-----------------------------------------------------------------------------
(* The handlers up to save().                                              *)

Free == pid # Idle /\ job = Idle

(* A refused insert (invalid_rule) changes nothing. *)
InsertRule(rule, save) ==
  /\ Free
  /\ Insertable(rules, rule)
  /\ rules' = rules \cup {rule}
  /\ job' = IF save THEN [op |-> "Add", rule |-> rule, stage |-> "Open"] ELSE Idle
  /\ gone' = gone \ {rule.id}
  /\ UNCHANGED <<disk, tmp, pid, acked, unsaved, undeleted>>

RuleAdd(id, executable, port, verdict) ==
  InsertRule(IpcRule(id, executable, port, verdict, "Permanent"), TRUE)

(* Defect: the wrong scope is saved. *)
BugSaveSession(scope) == scope = "Session"
Saved(scope) == scope = "Permanent"

PersistAnswered(executable, port, verdict, scope) ==
  InsertRule(IpcRule(NextRuleId(rules), executable, port, verdict, scope),
             Saved(scope))

RuleDelete(id) ==
  /\ Free
  /\ id \in Ids(rules)
  /\ rules' = Without(rules, id)
  /\ job' = [op |-> "Delete", id |-> id, stage |-> "Open"]
  /\ acked' = Without(acked, id)
  /\ unsaved' = Without(unsaved, id)
  /\ UNCHANGED <<disk, tmp, pid, gone, undeleted>>

-----------------------------------------------------------------------------
(* save(), one file-system call at a time, and the reply it leads to.      *)

At(stage) == pid # Idle /\ job # Idle /\ job.stage = stage
GoTo(stage) ==
  /\ job' = [job EXCEPT !.stage = stage]
  /\ UNCHANGED <<acked, gone, unsaved, undeleted>>

Pong ==
  /\ job' = Idle
  /\ acked' = IF job.op = "Add" THEN acked \cup {job.rule} ELSE acked
  /\ gone' = IF job.op = "Delete" THEN gone \cup {job.id} ELSE gone
  /\ UNCHANGED <<unsaved, undeleted>>

PersistenceFailed ==
  /\ job' = Idle
  /\ unsaved' = IF job.op = "Add" THEN unsaved \cup {job.rule} ELSE unsaved
  /\ undeleted' = IF job.op = "Delete" THEN undeleted \cup {job.id} ELSE undeleted
  /\ UNCHANGED <<acked, gone>>

(* create_new fails, besides I/O faults, when the file is already there. *)
SaveOpen ==
  /\ At("Open")
  /\ \/ pid \notin tmp /\ GoTo("Write") /\ tmp' = tmp \cup {pid}
     \/ PersistenceFailed /\ tmp' = tmp
  /\ UNCHANGED <<rules, disk, pid>>

(* write_all and sync_all; a failure leaves the temporary file behind. *)
SaveWrite ==
  /\ At("Write")
  /\ GoTo("Rename") \/ PersistenceFailed
  /\ UNCHANGED <<rules, disk, tmp, pid>>

(* Defect: the RuleSet is serialised before the change is made. *)
BugSavedBefore == IF job.op = "Add" THEN rules \ {job.rule} ELSE rules
Document == rules

SaveRename ==
  /\ At("Rename")
  /\ \/ GoTo("Chmod") /\ disk' = Document /\ tmp' = tmp \ {pid}
     \/ PersistenceFailed /\ UNCHANGED <<disk, tmp>>
  /\ UNCHANGED <<rules, pid>>

(* A failed chmod is reported although the file has been replaced. *)
SaveChmod ==
  /\ At("Chmod")
  /\ Pong \/ PersistenceFailed
  /\ UNCHANGED <<rules, disk, tmp, pid>>

-----------------------------------------------------------------------------
(* The daemon dies, at any point; starting again load()s the file.         *)

Crash ==
  /\ pid # Idle
  /\ pid' = Idle /\ job' = Idle /\ rules' = {}
  /\ UNCHANGED <<disk, tmp, acked, gone, unsaved, undeleted>>

(* load() refuses a file with a duplicate id or a relative path. *)
Loadable(document) ==
  UniqueIds(document) /\ \A r \in document : r.executable \in AbsolutePath

Restart ==
  /\ pid = Idle
  /\ Loadable(disk)
  /\ pid' \in Pid
  /\ rules' = disk
  /\ unsaved' = {} /\ undeleted' = {}
  /\ UNCHANGED <<disk, tmp, job, acked, gone>>

StoreNext ==
  \/ \E id \in RuleId, e \in Exe, p \in Port, v \in EngineVerdict :
       RuleAdd(id, e, p, v)
  \/ \E e \in Exe, p \in Port, v \in {"Allow", "Deny"},
        s \in {"Session", "Permanent"} : PersistAnswered(e, p, v, s)
  \/ \E id \in RuleId : RuleDelete(id)
  \/ SaveOpen \/ SaveWrite \/ SaveRename \/ SaveChmod
  \/ Crash
  \/ Restart

StoreSpec == StoreInit /\ [][StoreNext]_storeVars

-----------------------------------------------------------------------------
(* Properties. *)

(* Whatever fails and whenever the daemon dies, the file is one load()
   accepts: startup, which gives up on a refused file, always succeeds. *)
DiskLoadable == Loadable(disk)

(* Memory is well formed and the file can be read back at every moment. *)
StoreConsistent == StoreTypeOK /\ DiskLoadable

(* A rule whose rule-add or permanent answer was answered Pong is in the file
   until it is deleted, and one whose deletion was answered Pong does not come
   back, through any failing save and any crash after it. *)
AckedSurvives == acked \subseteq disk /\ gone \cap Ids(disk) = {}

(* While no handler is at work, memory and file differ only in session rules
   and in changes whose caller was told persistence_failed: a change that is
   kept in memory although its save failed is never a silent one. *)
DriftIsReported ==
  Free =>
    /\ \A r \in rules \ disk : r.scope = "Session" \/ r \in unsaved
    /\ \A r \in disk \ rules : r.id \in undeleted
=============================================================================
