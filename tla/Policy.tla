------------------------------- MODULE Policy -------------------------------
(***************************************************************************)
(* The daemon's policy: the prompt queue and the rules together, as the    *)
(* observer thread (policy.rs decide_attributed, under the `rules` and     *)
(* `prompts` locks) and several IPC threads (ipc.rs prompt_answer, mutate) *)
(* use them.  prompt_answer releases `prompts` before it takes `rules`: an *)
(* answer and the rule it makes are two steps.  RuleStore details the save *)
(* that is one step here, with its two outcomes.                           *)
(***************************************************************************)
EXTENDS PromptQueue, RuleVec

CONSTANTS exeOf, portOf,  \* of each key
          InitialFiles,   \* rules files, as sets, the daemon may find
          MaxEdits        \* bound: rule-add and rule-delete requests

ASSUME KeyAssumption ==
  /\ MaxEdits \in Nat
  /\ exeOf \in [Key -> AbsolutePath]
  /\ DOMAIN portOf = Key
  /\ \A file \in InitialFiles : UniqueIds(file) /\ Ids(file) \subseteq RuleId

VARIABLES rules,      \* the RuleSet in memory
          disk,       \* the rules file
          edits,      \* rule-add and rule-delete requests so far
          answering,  \* ids answered by a thread that has not stored a rule yet
          ruleOf,     \* history: prompt id -> rules made for it
          stored      \* history: ids whose rule was replied Pong

policyVars == <<vars, rules, disk, edits, answering, ruleOf, stored>>
ipcVars == <<answering, ruleOf, stored>>

ConnOf(k) ==
  [executable |-> exeOf[k], protocol |-> "Tcp", direction |-> "Outbound",
   address |-> k, hostname |-> "None", port |-> portOf[k]]

PolicyInit ==
  /\ Init
  /\ disk \in InitialFiles /\ rules = disk /\ edits = 0
  /\ answering = {} /\ stored = {}
  /\ ruleOf = [id \in 1 .. MaxId |-> {}]

-----------------------------------------------------------------------------
RuleVerdictOn(k) == VerdictFor(rules, ConnOf(k))

DecideConnect(k) ==
  /\ Decide(k, RuleVerdictOn(k))
  /\ UNCHANGED <<rules, disk, edits, ipcVars>>

List == ListPending /\ UNCHANGED <<rules, disk, edits, ipcVars>>

(* Defect: duplicate answers make a rule again. *)
BugStoreAgain(id, scope) == scope # "Once"
(* !answered.duplicate and a scope that lasts *)
Lasting(id, scope) == ExpiredPrompts[id].state = "Pending" /\ scope # "Once"

(* prompt_answer up to the release of `prompts`.  A duplicate and a "once" *)
(* are replied Pong at once, expired and unknown ids an error.             *)
BeginAnswer(id, verdict, scope) ==
  /\ Answer(id, verdict, scope)
  /\ IF id \notin DOMAIN prompts \/ id \in Overdue \/ prompts[id].state = "Expired"
     THEN UNCHANGED ipcVars
     ELSE IF Lasting(id, scope)
     THEN answering' = answering \cup {id} /\ UNCHANGED <<ruleOf, stored>>
     ELSE UNCHANGED ipcVars
  /\ UNCHANGED <<rules, disk, edits>>

Pong(id) == stored' = stored \cup {id}

(* persist_answered_rule, and its reply. *)
StoreAnswer(id) ==
  LET a == prompts[id]
      rule == IpcRule(NextRuleId(rules), exeOf[a.key], portOf[a.key],
                      a.answer_verdict, a.answer_scope)
  IN /\ id \in answering
     /\ answering' = answering \ {id}
     /\ \/ /\ ~Insertable(rules, rule)   \* invalid_rule
           /\ UNCHANGED <<rules, disk, ruleOf, stored>>
        \/ /\ Insertable(rules, rule)
           /\ rules' = rules \cup {rule}
           /\ ruleOf' = [ruleOf EXCEPT ![id] = @ \cup {rule}]
           /\ \/ a.answer_scope = "Session" /\ disk' = disk /\ Pong(id)
              \/ a.answer_scope = "Permanent" /\ disk' = rules' /\ Pong(id)
              \/ /\ a.answer_scope = "Permanent"   \* persistence_failed
                 /\ UNCHANGED <<disk, stored>>
     /\ UNCHANGED <<vars, edits>>

(* rule-add, whose save succeeds or not *)
AddRule(id, k, verdict) ==
  LET rule == IpcRule(id, exeOf[k], portOf[k], verdict, "Permanent")
  IN /\ Insertable(rules, rule)
     /\ edits < MaxEdits /\ edits' = edits + 1
     /\ rules' = rules \cup {rule}
     /\ disk' \in {rules', disk}
     /\ UNCHANGED <<vars, ipcVars>>

(* rule-delete *)
DeleteRule(id) ==
  /\ id \in Ids(rules)
  /\ edits < MaxEdits /\ edits' = edits + 1
  /\ rules' = Without(rules, id)
  /\ disk' \in {rules', disk}
  /\ UNCHANGED <<vars, ipcVars>>

PolicyNext ==
  \/ \E k \in Key : DecideConnect(k)
  \/ List
  \/ \E id \in 1 .. MaxId, v \in Verdict, s \in RuleScope : BeginAnswer(id, v, s)
  \/ \E id \in answering : StoreAnswer(id)
  \/ \E id \in RuleId, k \in Key, v \in EngineVerdict : AddRule(id, k, v)
  \/ \E id \in RuleId : DeleteRule(id)
  \/ Tick /\ UNCHANGED <<rules, disk, edits, ipcVars>>

PolicySpec == PolicyInit /\ [][PolicyNext]_policyVars

-----------------------------------------------------------------------------
(* Properties. *)

(* A prompt makes one rule at most, with the verdict of its first answer:
   answers racing for the same prompt, retries and late duplicates of
   prompt-answer never make a second or a contradicting rule. *)
RuleFollowsFirstAnswer ==
  \A id \in 1 .. MaxId :
    /\ Cardinality(ruleOf[id]) <= 1
    /\ \A r \in ruleOf[id] : /\ prompts[id].state = "Answered"
                             /\ r.verdict = prompts[id].answer_verdict

(* After a lasting answer was replied Pong and while its rule is there, no
   connect of that key opens another prompt, unless an operator's own
   "prompt" rule matches it. *)
NotAskedAgain ==
  [][\A id \in stored :
       LET k == prompts[id].key IN
       ( /\ ruleOf[id] # {} /\ ruleOf[id] \subseteq rules
         /\ \A r \in Matching(rules, ConnOf(k)) : r.verdict # "Prompt" )
       => ~(next_id' = next_id + 1 /\ prompts'[next_id].key = k)]_policyVars

(* The rule made of an answer decides at once: whatever rules the operator
   added under whatever ids, the next connect of that key gets the answered
   verdict, unless a rule written by hand that constrains more matches. *)
AnswerTakesEffect ==
  [][\A id \in 1 .. MaxId : \A rule \in ruleOf'[id] \ ruleOf[id] :
       LET k == prompts[id].key IN
       (\A r \in Matching(rules, ConnOf(k)) : Constrained(r) <= Constrained(rule))
         => RuleVerdictOn(k)' = prompts[id].answer_verdict]_policyVars

(* A lasting answer decides the next connect and all later ones. *)
AnswersDecide == AnswerTakesEffect /\ NotAskedAgain

(* verdict_for() does not depend on the order rules were inserted in: over
   the rules held at any time, in any order, it is the verdict of the one
   matching rule that outranks all others. *)
VerdictIsBest ==
  \A vec \in Bijection(1 .. Cardinality(rules), rules), k \in Key :
    VecVerdict(vec, ConnOf(k)) = RuleVerdictOn(k)
=============================================================================
