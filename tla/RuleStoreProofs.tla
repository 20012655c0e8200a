-------------------------- MODULE RuleStoreProofs --------------------------
(***************************************************************************)
(* The rules in memory and on disk for any set of programs and ports, any  *)
(* range of ids and any sequence of failing calls, crashes and restarts.   *)
(***************************************************************************)
EXTENDS RuleStore, DataProofs

(* What a handler at work has done, and what a save may write: the memory  *)
(* can be loaded, it holds all that was reported stored and nothing that   *)
(* was reported deleted, and after the rename the file is the memory.      *)
MemoryCommits ==
  /\ pid = Idle => job = Idle /\ rules = {}
  /\ Loadable(rules)
  /\ pid # Idle => acked \subseteq rules /\ gone \cap Ids(rules) = {}
  /\ job # Idle =>
       /\ job.op = "Add" => job.rule \in rules
       /\ job.op = "Delete" => job.id \notin Ids(rules)
       /\ job.stage = "Chmod" => disk = rules

Adding(r) == job # Idle /\ job.op = "Add" /\ job.rule = r
Deleting(id) == job # Idle /\ job.op = "Delete" /\ job.id = id

(* DriftIsReported with the change that is still being saved. *)
DriftExplained ==
  pid # Idle =>
    /\ \A r \in rules \ disk : r.scope = "Session" \/ r \in unsaved \/ Adding(r)
    /\ \A r \in disk \ rules : r.id \in undeleted \/ Deleting(r.id)

StoreInv ==
  StoreTypeOK /\ DiskLoadable /\ AckedSurvives /\ MemoryCommits /\ DriftExplained

-----------------------------------------------------------------------------
(* Typing                                                                  *)

(* Max of a set of rule ids is one of them, so the id of an answered rule  *)
(* is an id.                                                               *)
LEMMA NextRuleIdType ==
  ASSUME NEW R \in SUBSET Rule
  PROVE  NextRuleId(R) \in RuleId
<1>1. MaxRuleId \in Nat \ {0}
  BY RuleIdAssumption
<1>2. Ids(R) \subseteq RuleId
  BY DEF Ids, Rule
<1>3. CASE R = {}
  BY <1>1, <1>3 DEF NextRuleId, RuleId
<1>4. CASE R # {}
  <2>1. Ids(R) # {}
    BY <1>4 DEF Ids
  <2>2. \E m \in Ids(R) : \A x \in Ids(R) : m >= x
    <3>1. \A x \in Ids(R) : x \in Nat /\ x <= MaxRuleId
      BY <1>1, <1>2 DEF RuleId
    <3> QED
      BY <1>1, <2>1, <3>1, GreatestNatural
  <2>3. Max(Ids(R)) \in Ids(R)
    BY <2>2 DEF Max
  <2>4. Max(Ids(R)) \in 0 .. MaxRuleId
    BY <1>2, <2>3 DEF RuleId
  <2> QED
    BY <1>1, <1>4, <2>4 DEF NextRuleId, RuleId
<1> QED
  BY <1>3, <1>4

(* The rule the daemon builds from a request is a rule with the requested parts. *)
LEMMA IpcRuleType ==
  ASSUME NEW id \in RuleId, NEW e \in Exe, NEW p \in Port, NEW v \in EngineVerdict,
         NEW s \in {"Session", "Permanent"}
  PROVE  /\ IpcRule(id, e, p, v, s) \in Rule
         /\ IpcRule(id, e, p, v, s).id = id
         /\ IpcRule(id, e, p, v, s).executable = e
         /\ IpcRule(id, e, p, v, s).scope = s
  BY DEF IpcRule, Rule

(* What a job holds, and that it is a job at every stage. *)
LEMMA JobFields ==
  ASSUME NEW j \in Job
  PROVE  /\ j.op \in {"Add", "Delete"} /\ j.stage \in Stage /\ j # Idle
         /\ j.op = "Add" => j.rule \in Rule
         /\ j.op = "Delete" => j.id \in RuleId
         /\ \A s \in Stage : LET k == [j EXCEPT !.stage = s] IN
              /\ k \in Job /\ k.op = j.op /\ k.stage = s
              /\ j.op = "Add" => k.rule = j.rule
              /\ j.op = "Delete" => k.id = j.id
<1>1. j # Idle
  BY StoreAssumption
<1>2. CASE j \in [op : {"Add"}, rule : Rule, stage : Stage]
  BY <1>1, <1>2 DEF Job
<1>3. CASE j \in [op : {"Delete"}, id : RuleId, stage : Stage]
  BY <1>1, <1>3 DEF Job
<1> QED
  BY <1>2, <1>3 DEF Job

-----------------------------------------------------------------------------
(* The steps                                                               *)

(* Inserting a rule, and saving when it is permanent, keeps the inductive invariant. *)
LEMMA InsertRuleKeeps ==
  ASSUME StoreInv, NEW rule \in Rule, NEW save \in BOOLEAN,
         save \/ rule.scope = "Session", InsertRule(rule, save)
  PROVE  StoreInv'
<1> DEFINE j == [op |-> "Add", rule |-> rule, stage |-> "Open"]
<1>1. /\ pid # Idle /\ job = Idle /\ rules' = rules \cup {rule}
      /\ job' = (IF save THEN j ELSE Idle) /\ gone' = gone \ {rule.id}
      /\ rule.executable \in AbsolutePath /\ rule.id \notin Ids(rules)
      /\ UNCHANGED <<disk, tmp, pid, acked, unsaved, undeleted>>
  BY DEF InsertRule, Free, Insertable
<1>2. j \in Job /\ j # Idle /\ j.op = "Add" /\ j.rule = rule /\ j.stage = "Open"
  <2>1. j \in Job
    BY DEF Job, Stage
  <2> QED
    BY <2>1, StoreAssumption
<1> HIDE DEF j
<1>3. StoreTypeOK'
  BY <1>1, <1>2 DEF StoreInv, StoreTypeOK
<1>4. DiskLoadable' /\ AckedSurvives'
  BY <1>1 DEF StoreInv, DiskLoadable, AckedSurvives, Loadable, UniqueIds, Ids
<1>5. Loadable(rules')
  BY <1>1 DEF StoreInv, MemoryCommits, Loadable, UniqueIds, Ids
<1>6. acked' \subseteq rules' /\ gone' \cap Ids(rules') = {}
  BY <1>1 DEF StoreInv, MemoryCommits, Ids
<1>7. MemoryCommits'
  BY <1>1, <1>2, <1>5, <1>6 DEF MemoryCommits
<1>8. DriftExplained'
  BY <1>1, <1>2 DEF StoreInv, DriftExplained, Adding, Deleting
<1> QED
  BY <1>3, <1>4, <1>7, <1>8 DEF StoreInv

(* Deleting a rule keeps the inductive invariant. *)
LEMMA RuleDeleteKeeps ==
  ASSUME StoreInv, NEW id \in RuleId, RuleDelete(id)
  PROVE  StoreInv'
<1> DEFINE j == [op |-> "Delete", id |-> id, stage |-> "Open"]
<1>1. /\ pid # Idle /\ job = Idle /\ rules' = Without(rules, id) /\ job' = j
      /\ acked' = Without(acked, id) /\ unsaved' = Without(unsaved, id)
      /\ UNCHANGED <<disk, tmp, pid, gone, undeleted>>
  BY DEF RuleDelete, Free
<1>2. j \in Job /\ j # Idle /\ j.op = "Delete" /\ j.id = id /\ j.stage = "Open"
  <2>1. j \in Job
    BY DEF Job, Stage
  <2> QED
    BY <2>1, StoreAssumption
<1> HIDE DEF j
<1>3. StoreTypeOK'
  BY <1>1, <1>2 DEF StoreInv, StoreTypeOK, Without
<1>4. DiskLoadable' /\ AckedSurvives'
  BY <1>1 DEF StoreInv, DiskLoadable, AckedSurvives, Loadable, UniqueIds, Ids, Without
<1>5. Loadable(rules') /\ id \notin Ids(rules')
  BY <1>1 DEF StoreInv, MemoryCommits, Loadable, UniqueIds, Ids, Without
<1>6. acked' \subseteq rules' /\ gone' \cap Ids(rules') = {}
  BY <1>1 DEF StoreInv, MemoryCommits, Ids, Without
<1>7. MemoryCommits'
  BY <1>1, <1>2, <1>5, <1>6 DEF MemoryCommits
<1>8. DriftExplained'
  BY <1>1, <1>2 DEF StoreInv, DriftExplained, Adding, Deleting, Without
<1> QED
  BY <1>3, <1>4, <1>7, <1>8 DEF StoreInv

(* A call of save() succeeds and leaves the file alone. *)
LEMMA GoToKeeps ==
  ASSUME StoreInv, job # Idle, NEW s \in Stage, s # "Chmod", GoTo(s), tmp' \subseteq Pid,
         UNCHANGED <<rules, disk, pid>>
  PROVE  StoreInv'
<1>1. job \in Job /\ job' = [job EXCEPT !.stage = s] /\ UNCHANGED <<acked, gone, unsaved, undeleted>>
  BY DEF StoreInv, StoreTypeOK, GoTo
<1>2. /\ job' \in Job /\ job' # Idle /\ job'.op = job.op /\ job'.stage = s
      /\ job.op = "Add" => job'.rule = job.rule
      /\ job.op = "Delete" => job'.id = job.id
  BY <1>1, JobFields
<1>3. StoreTypeOK'
  BY <1>1, <1>2 DEF StoreInv, StoreTypeOK
<1>4. DiskLoadable' /\ AckedSurvives'
  BY <1>1 DEF StoreInv, DiskLoadable, AckedSurvives, Loadable, UniqueIds, Ids
<1>5. MemoryCommits'
  BY <1>1, <1>2 DEF StoreInv, MemoryCommits, Loadable, UniqueIds, Ids
<1>6. DriftExplained'
  BY <1>1, <1>2 DEF StoreInv, DriftExplained, Adding, Deleting
<1> QED
  BY <1>3, <1>4, <1>5, <1>6 DEF StoreInv

(* A call of save() fails: the change stays in memory, and the caller is   *)
(* told so.                                                                *)
LEMMA PersistenceFailedKeeps ==
  ASSUME StoreInv, job # Idle, PersistenceFailed, UNCHANGED <<rules, disk, tmp, pid>>
  PROVE  StoreInv'
<1>1. /\ job \in Job /\ job' = Idle /\ UNCHANGED <<acked, gone>>
      /\ unsaved' = (IF job.op = "Add" THEN unsaved \cup {job.rule} ELSE unsaved)
      /\ undeleted' = (IF job.op = "Delete" THEN undeleted \cup {job.id} ELSE undeleted)
  BY DEF StoreInv, StoreTypeOK, PersistenceFailed
<1>2. /\ job.op \in {"Add", "Delete"} /\ job.op = "Add" => job.rule \in Rule
      /\ job.op = "Delete" => job.id \in RuleId
  BY <1>1, JobFields
<1>3. StoreTypeOK'
  BY <1>1, <1>2 DEF StoreInv, StoreTypeOK
<1>4. DiskLoadable' /\ AckedSurvives'
  BY <1>1 DEF StoreInv, DiskLoadable, AckedSurvives, Loadable, UniqueIds, Ids
<1>5. MemoryCommits'
  BY <1>1 DEF StoreInv, MemoryCommits, Loadable, UniqueIds, Ids
<1>6. DriftExplained'
  BY <1>1, <1>2 DEF StoreInv, DriftExplained, Adding, Deleting
<1> QED
  BY <1>3, <1>4, <1>5, <1>6 DEF StoreInv

(* rename: the file becomes the memory. *)
LEMMA RenameKeeps ==
  ASSUME StoreInv, At("Rename"), GoTo("Chmod"), disk' = rules, tmp' \subseteq Pid,
         UNCHANGED <<rules, pid>>
  PROVE  StoreInv'
<1>1. /\ pid # Idle /\ job \in Job /\ job' = [job EXCEPT !.stage = "Chmod"]
      /\ UNCHANGED <<acked, gone, unsaved, undeleted>>
  BY DEF StoreInv, StoreTypeOK, At, GoTo
<1>2. /\ job # Idle /\ job' \in Job /\ job' # Idle /\ job'.op = job.op
      /\ job.op = "Add" => job'.rule = job.rule
      /\ job.op = "Delete" => job'.id = job.id
  BY <1>1, JobFields DEF Stage
<1>3. StoreTypeOK'
  BY <1>1, <1>2 DEF StoreInv, StoreTypeOK
<1>4. Loadable(rules) /\ acked \subseteq rules /\ gone \cap Ids(rules) = {}
  BY <1>1 DEF StoreInv, MemoryCommits
<1>5. DiskLoadable' /\ AckedSurvives'
  BY <1>1, <1>4 DEF DiskLoadable, AckedSurvives
<1>6. MemoryCommits'
  BY <1>1, <1>2, <1>4 DEF StoreInv, MemoryCommits
<1>7. DriftExplained'
  BY DEF DriftExplained
<1> QED
  BY <1>3, <1>5, <1>6, <1>7 DEF StoreInv

(* The reply Pong comes when the file is the memory. *)
LEMMA PongKeeps ==
  ASSUME StoreInv, At("Chmod"), Pong, UNCHANGED <<rules, disk, tmp, pid>>
  PROVE  StoreInv'
<1>1. /\ pid # Idle /\ job \in Job /\ job # Idle /\ job' = Idle /\ disk = rules
      /\ acked' = (IF job.op = "Add" THEN acked \cup {job.rule} ELSE acked)
      /\ gone' = (IF job.op = "Delete" THEN gone \cup {job.id} ELSE gone)
      /\ UNCHANGED <<unsaved, undeleted>>
  BY DEF StoreInv, StoreTypeOK, MemoryCommits, At, Pong
<1>2. /\ job.op = "Add" => job.rule \in Rule
      /\ job.op = "Delete" => job.id \in RuleId
  BY <1>1, JobFields
<1>3. StoreTypeOK'
  BY <1>1, <1>2 DEF StoreInv, StoreTypeOK
<1>4. /\ Loadable(rules) /\ acked \subseteq rules /\ gone \cap Ids(rules) = {}
      /\ job.op = "Add" => job.rule \in rules
      /\ job.op = "Delete" => job.id \notin Ids(rules)
  BY <1>1 DEF StoreInv, MemoryCommits
<1>5. acked' \subseteq rules /\ gone' \cap Ids(rules) = {}
  BY <1>1, <1>4
<1>6. DiskLoadable' /\ AckedSurvives'
  BY <1>1, <1>4, <1>5 DEF DiskLoadable, AckedSurvives
<1>7. MemoryCommits'
  BY <1>1, <1>4, <1>5 DEF MemoryCommits
<1>8. DriftExplained'
  BY <1>1 DEF DriftExplained
<1> QED
  BY <1>3, <1>6, <1>7, <1>8 DEF StoreInv

(* A crash at any point of a save keeps the inductive invariant. *)
LEMMA CrashKeeps ==
  ASSUME StoreInv, Crash
  PROVE  StoreInv'
<1>1. /\ pid' = Idle /\ job' = Idle /\ rules' = {}
      /\ UNCHANGED <<disk, tmp, acked, gone, unsaved, undeleted>>
  BY DEF Crash
<1>2. StoreTypeOK' /\ MemoryCommits' /\ DriftExplained'
  BY <1>1 DEF StoreInv, StoreTypeOK, MemoryCommits, DriftExplained, Loadable, UniqueIds
<1>3. DiskLoadable' /\ AckedSurvives'
  BY <1>1 DEF StoreInv, DiskLoadable, AckedSurvives, Loadable, UniqueIds, Ids
<1> QED
  BY <1>2, <1>3 DEF StoreInv

(* Loading the rules at start keeps the inductive invariant. *)
LEMMA RestartKeeps ==
  ASSUME StoreInv, Restart
  PROVE  StoreInv'
<1>1. /\ pid = Idle /\ job = Idle /\ pid' \in Pid /\ rules' = disk
      /\ unsaved' = {} /\ undeleted' = {} /\ UNCHANGED <<disk, tmp, job, acked, gone>>
  BY DEF Restart, StoreInv, MemoryCommits
<1>2. StoreTypeOK'
  BY <1>1 DEF StoreInv, StoreTypeOK
<1>3. DiskLoadable' /\ AckedSurvives'
  BY <1>1 DEF StoreInv, DiskLoadable, AckedSurvives, Loadable, UniqueIds, Ids
<1>4. pid' # Idle
  BY <1>1, StoreAssumption
<1>5. MemoryCommits'
  BY <1>1, <1>4 DEF StoreInv, MemoryCommits, DiskLoadable, AckedSurvives
<1>6. DriftExplained'
  BY <1>1 DEF DriftExplained
<1> QED
  BY <1>2, <1>3, <1>5, <1>6 DEF StoreInv

-----------------------------------------------------------------------------
(* The inductive invariant                                                 *)

(* Every step keeps the inductive invariant. *)
LEMMA StoreInvStep ==
  ASSUME StoreInv, [StoreNext]_storeVars
  PROVE  StoreInv'
<1>0. rules \in SUBSET Rule /\ tmp \subseteq Pid /\ pid \in Pid \cup {Idle}
  BY DEF StoreInv, StoreTypeOK
<1>1. ASSUME NEW id \in RuleId, NEW e \in Exe, NEW p \in Port, NEW v \in EngineVerdict,
             RuleAdd(id, e, p, v)
      PROVE  StoreInv'
  BY <1>1, IpcRuleType, InsertRuleKeeps DEF RuleAdd
<1>2. ASSUME NEW e \in Exe, NEW p \in Port, NEW v \in {"Allow", "Deny"},
             NEW s \in {"Session", "Permanent"}, PersistAnswered(e, p, v, s)
      PROVE  StoreInv'
  <2> DEFINE rule == IpcRule(NextRuleId(rules), e, p, v, s)
  <2>1. NextRuleId(rules) \in RuleId /\ v \in EngineVerdict
    BY <1>0, NextRuleIdType DEF EngineVerdict
  <2>2. rule \in Rule /\ rule.scope = s
    BY <2>1, IpcRuleType
  <2>3. InsertRule(rule, s = "Permanent")
    BY <1>2 DEF PersistAnswered, Saved
  <2>4. (s = "Permanent") \in BOOLEAN /\ ((s = "Permanent") \/ rule.scope = "Session")
    BY <2>2
  <2> HIDE DEF rule
  <2> QED
    BY <2>2, <2>3, <2>4, InsertRuleKeeps
<1>3. ASSUME NEW id \in RuleId, RuleDelete(id) PROVE StoreInv'
  BY <1>3, RuleDeleteKeeps
<1>4. CASE SaveOpen
  <2>1. CASE pid \notin tmp /\ GoTo("Write") /\ tmp' = tmp \cup {pid}
    BY <1>0, <1>4, <2>1, GoToKeeps DEF SaveOpen, At, Stage
  <2>2. CASE PersistenceFailed /\ tmp' = tmp
    BY <1>4, <2>2, PersistenceFailedKeeps DEF SaveOpen, At
  <2> QED
    BY <1>4, <2>1, <2>2 DEF SaveOpen
<1>5. CASE SaveWrite
  <2>1. CASE GoTo("Rename")
    BY <1>0, <1>5, <2>1, GoToKeeps DEF SaveWrite, At, Stage
  <2>2. CASE PersistenceFailed
    BY <1>5, <2>2, PersistenceFailedKeeps DEF SaveWrite, At
  <2> QED
    BY <1>5, <2>1, <2>2 DEF SaveWrite
<1>6. CASE SaveRename
  <2>1. CASE GoTo("Chmod") /\ disk' = Document /\ tmp' = tmp \ {pid}
    BY <1>0, <1>6, <2>1, RenameKeeps DEF SaveRename, Document
  <2>2. CASE PersistenceFailed /\ UNCHANGED <<disk, tmp>>
    BY <1>6, <2>2, PersistenceFailedKeeps DEF SaveRename, At
  <2> QED
    BY <1>6, <2>1, <2>2 DEF SaveRename
<1>7. CASE SaveChmod
  <2>1. CASE Pong
    BY <1>7, <2>1, PongKeeps DEF SaveChmod
  <2>2. CASE PersistenceFailed
    BY <1>7, <2>2, PersistenceFailedKeeps DEF SaveChmod, At
  <2> QED
    BY <1>7, <2>1, <2>2 DEF SaveChmod
<1>8. CASE Crash
  BY <1>8, CrashKeeps
<1>9. CASE Restart
  BY <1>9, RestartKeeps
<1>10. CASE UNCHANGED storeVars
  BY <1>10 DEF storeVars, StoreInv, StoreTypeOK, DiskLoadable, AckedSurvives, MemoryCommits,
               DriftExplained, Adding, Deleting, Loadable, UniqueIds, Ids
<1> QED
  BY <1>1, <1>2, <1>3, <1>4, <1>5, <1>6, <1>7, <1>8, <1>9, <1>10 DEF StoreNext

(* StoreInv is an invariant of the rule store. *)
THEOREM StoreInvariant == StoreSpec => []StoreInv
<1>1. StoreInit => StoreInv
  BY StoreAssumption
  DEF StoreInit, StoreInv, StoreTypeOK, DiskLoadable, AckedSurvives, MemoryCommits,
      DriftExplained, Loadable, UniqueIds, Ids
<1>2. StoreInv /\ [StoreNext]_storeVars => StoreInv'
  BY StoreInvStep
<1> QED
  BY <1>1, <1>2, PTL DEF StoreSpec

(* Every rules file RulesStore::save leaves behind, at whatever call it    *)
(* failed or died, is one RulesStore::load accepts.                        *)
THEOREM FileAlwaysLoads == StoreSpec => []StoreConsistent
<1>1. StoreInv => StoreConsistent
  BY DEF StoreInv, StoreConsistent
<1> QED
  BY <1>1, StoreInvariant, PTL

(* What rule-add, rule-delete and permanent answers (ipc.rs) reported as   *)
(* done stays done through failing saves, crashes and restarts.            *)
THEOREM AcknowledgedSurvives == StoreSpec => []AckedSurvives
<1>1. StoreInv => AckedSurvives
  BY DEF StoreInv
<1> QED
  BY <1>1, StoreInvariant, PTL

(* Between two requests memory and file differ only in session rules and   *)
(* in changes that were answered persistence_failed (ipc.rs mutate).       *)
THEOREM DriftAlwaysReported == StoreSpec => []DriftIsReported
<1>1. StoreInv => DriftIsReported
  BY DEF StoreInv, DriftExplained, DriftIsReported, Free, Adding, Deleting
<1> QED
  BY <1>1, StoreInvariant, PTL
=============================================================================
