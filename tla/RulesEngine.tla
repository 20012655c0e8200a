---------------------------- MODULE RulesEngine ----------------------------
(***************************************************************************)
(* The rules engine (crates/interfire-rules/src/lib.rs): which rules apply *)
(* to a connection and which of them decides.  An Option field that is     *)
(* None in a rule is "Any" here, a connection without a hostname has       *)
(* "None".  Ids are unique, so a RuleSet is a set of rules; RuleVec has the *)
(* fold over the vector the code keeps.                                    *)
(***************************************************************************)
EXTENDS Integers, FiniteSets, FiniteSetsExt

CONSTANTS AbsolutePath,  \* executables whose path starts with '/'
          MaxRuleId      \* u64::MAX

ASSUME RuleIdAssumption == MaxRuleId \in Nat \ {0}

EngineVerdict == {"Allow", "Deny", "Prompt"}
RuleId == 0 .. MaxRuleId

Fields == {"protocol", "direction", "address", "hostname", "port"}

Matches(rule, conn) ==
  /\ rule.executable = conn.executable
  /\ \A f \in Fields : rule[f] \in {"Any", conn[f]}

(* precedence(): the number of constrained fields, then the id. *)
Constrained(rule) == Cardinality({f \in Fields : rule[f] # "Any"})

(* Defect: the lower id wins. *)
BugLowIdWins(r, s) ==
  \/ Constrained(r) > Constrained(s)
  \/ Constrained(r) = Constrained(s) /\ r.id < s.id
Outranks(r, s) ==
  \/ Constrained(r) > Constrained(s)
  \/ Constrained(r) = Constrained(s) /\ r.id > s.id

Matching(rules, conn) == {r \in rules : Matches(r, conn)}

IsBest(r, rules, conn) ==
  /\ r \in Matching(rules, conn)
  /\ \A s \in Matching(rules, conn) \ {r} : Outranks(r, s)

VerdictFor(rules, conn) ==
  IF Matching(rules, conn) = {} THEN "Prompt"
  ELSE (CHOOSE r \in rules : IsBest(r, rules, conn)).verdict

Ids(rules) == {r.id : r \in rules}

UniqueIds(rules) == \A r, s \in rules : r.id = s.id => r = s

(* Defect: a taken id is not noticed. *)
BugAnyId(rules, rule) == rule.executable \in AbsolutePath
(* RuleSet::insert refuses a relative path and an id that is taken. *)
Insertable(rules, rule) ==
  rule.executable \in AbsolutePath /\ rule.id \notin Ids(rules)

(* RuleSet::remove *)
Without(rules, id) == {r \in rules : r.id # id}

(* The id persist_answered_rule picks: max + 1, saturating, 1 when empty. *)
NextRuleId(rules) ==
  LET top == IF rules = {} THEN 0 ELSE Max(Ids(rules))
  IN IF top < MaxRuleId THEN top + 1 ELSE MaxRuleId

(* Rules made over IPC: TCP, outbound, one executable and one port. *)
IpcRule(id, executable, port, verdict, scope) ==
  [id |-> id, executable |-> executable, protocol |-> "Tcp",
   direction |-> "Outbound", address |-> "Any", hostname |-> "Any",
   port |-> port, verdict |-> verdict, scope |-> scope]
=============================================================================
