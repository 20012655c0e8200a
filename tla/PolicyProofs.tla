---------------------------- MODULE PolicyProofs ----------------------------
(***************************************************************************)
(* The prompt queue for every set of keys, every capacity and every        *)
(* lifetime; the rules engine for any set of rules in any order; and the   *)
(* policy that uses them together, for any rules file.                     *)
(***************************************************************************)
EXTENDS Policy, DataProofs

-----------------------------------------------------------------------------
(* The prompt queue.  QueueInv is its inductive invariant.                 *)

USE DEF HasRoom, IdAfter, OrderAfter, Spent, Answerable, GivesToken

(* PendingIndexExact, about any prompts map P and any index B. *)
IndexExact(P, B) ==
  /\ \A k \in DOMAIN B : /\ B[k] \in DOMAIN P
                         /\ P[B[k]].state = "Pending" /\ P[B[k]].key = k
  /\ \A id \in DOMAIN P : P[id].state = "Pending" =>
        P[id].key \in DOMAIN B /\ B[P[id].key] = id

(* Only an answered prompt carries an answer. *)
AnswersRecorded(P) ==
  \A id \in DOMAIN P : P[id].state # "Answered" => P[id].answer_verdict = "None"

Disjoint(A, D, B) ==
  DOMAIN A \cap D = {} /\ DOMAIN A \cap DOMAIN B = {} /\ D \cap DOMAIN B = {}

IndexBounded(B) == IsFiniteSet(DOMAIN B) /\ Cardinality(DOMAIN B) <= Capacity

QueueInv ==
  /\ TypeOK
  /\ IndexExact(prompts, pending_by_key)
  /\ AnswersRecorded(prompts)
  /\ IndexBounded(pending_by_key)
  /\ Disjoint(once_allows, once_denies, pending_by_key)
  /\ IsFiniteSet(once_denies)
  /\ Cardinality(once_denies) <= Capacity + 1

-----------------------------------------------------------------------------
(* What expire() leaves behind satisfies the same facts, sheds surplus     *)
(* deny tokens and touches nothing but the state of overdue prompts.       *)
LEMMA ExpireKeeps ==
  ASSUME QueueInv
  PROVE  /\ ExpiredPrompts \in [1 .. next_id - 1 -> Prompt]
         /\ IsMap(ExpiredPendingByKey, Key, 1 .. next_id - 1)
         /\ IsMap(ExpiredOnceAllows, Key, Nat)
         /\ ExpiredOnceDenies \in SUBSET Key
         /\ IndexExact(ExpiredPrompts, ExpiredPendingByKey)
         /\ AnswersRecorded(ExpiredPrompts)
         /\ IndexBounded(ExpiredPendingByKey)
         /\ Disjoint(ExpiredOnceAllows, ExpiredOnceDenies, ExpiredPendingByKey)
         /\ IsFiniteSet(ExpiredOnceDenies)
         /\ Cardinality(ExpiredOnceDenies) <= Capacity
         /\ DOMAIN ExpiredOnceAllows \subseteq DOMAIN once_allows
<1> USE PromptQueueAssumption DEF QueueInv
<1>1. /\ ExpiredPrompts \in [1 .. next_id - 1 -> Prompt]
      /\ \A id \in 1 .. next_id - 1 :
           /\ ExpiredPrompts[id].key = prompts[id].key
           /\ ExpiredPrompts[id].answer_verdict = prompts[id].answer_verdict
           /\ ExpiredPrompts[id].answer_scope = prompts[id].answer_scope
           /\ ExpiredPrompts[id].state =
                IF id \in Overdue THEN "Expired" ELSE prompts[id].state
  BY DEF TypeOK, ExpiredPrompts, Prompt
<1>2. /\ IsMap(ExpiredPendingByKey, Key, 1 .. next_id - 1)
      /\ DOMAIN ExpiredPendingByKey =
           DOMAIN pending_by_key \ {prompts[id].key : id \in Overdue}
      /\ \A k \in DOMAIN ExpiredPendingByKey :
           ExpiredPendingByKey[k] = pending_by_key[k]
  BY DEF TypeOK, ExpiredPendingByKey, MapRemove, Restrict, IsMap
<1>3. /\ IsMap(ExpiredOnceAllows, Key, Nat)
      /\ DOMAIN ExpiredOnceAllows \subseteq DOMAIN once_allows
  BY DEF TypeOK, ExpiredOnceAllows, Restrict, IsMap
<1>4. /\ ExpiredOnceDenies \in SUBSET Key
      /\ ExpiredOnceDenies \subseteq once_denies
      /\ IsFiniteSet(ExpiredOnceDenies)
      /\ Cardinality(ExpiredOnceDenies) <= Capacity
  BY FS_EmptySet, FS_CardinalityType DEF TypeOK, ExpiredOnceDenies
<1>5. IndexExact(ExpiredPrompts, ExpiredPendingByKey)
  <2>1. ASSUME NEW k \in DOMAIN ExpiredPendingByKey
        PROVE  /\ ExpiredPendingByKey[k] \in DOMAIN ExpiredPrompts
               /\ ExpiredPrompts[ExpiredPendingByKey[k]].state = "Pending"
               /\ ExpiredPrompts[ExpiredPendingByKey[k]].key = k
    BY <1>1, <1>2 DEF IndexExact, TypeOK
  <2>2. ASSUME NEW id \in DOMAIN ExpiredPrompts,
               ExpiredPrompts[id].state = "Pending"
        PROVE  /\ ExpiredPrompts[id].key \in DOMAIN ExpiredPendingByKey
               /\ ExpiredPendingByKey[ExpiredPrompts[id].key] = id
    <3>1. id \in DOMAIN prompts /\ id \notin Overdue
          /\ prompts[id].state = "Pending"
      BY <1>1, <2>2 DEF TypeOK
    <3>2. \A o \in Overdue : prompts[o].key # prompts[id].key
      BY <3>1 DEF IndexExact, Overdue
    <3> QED
      BY <1>1, <1>2, <3>1, <3>2 DEF IndexExact, TypeOK
  <2> QED
    BY <2>1, <2>2 DEF IndexExact
<1>6. AnswersRecorded(ExpiredPrompts)
  BY <1>1 DEF AnswersRecorded, TypeOK, Overdue
<1>7. IndexBounded(ExpiredPendingByKey)
  BY <1>2, FS_Subset, FS_CardinalityType DEF IndexBounded
<1>8. Disjoint(ExpiredOnceAllows, ExpiredOnceDenies, ExpiredPendingByKey)
  BY <1>2, <1>3, <1>4 DEF Disjoint
<1> QED
  BY <1>1, <1>2, <1>3, <1>4, <1>5, <1>6, <1>7, <1>8

-----------------------------------------------------------------------------
(* A call that leaves the queue as expire() left it. *)
LEMMA KeepQueueStep ==
  ASSUME QueueInv, KeepQueue,
         IsMap(once_allows', Key, Nat), once_denies' \in SUBSET Key,
         DOMAIN once_allows' \subseteq DOMAIN ExpiredOnceAllows,
         once_denies' \subseteq ExpiredOnceDenies,
         now' \in Nat, granted' \in [Key -> Nat]
  PROVE  QueueInv'
<1> USE PromptQueueAssumption
<1>1. TypeOK'
  BY ExpireKeeps DEF TypeOK, QueueInv, KeepQueue
<1>2. /\ IndexExact(prompts, pending_by_key)'
      /\ AnswersRecorded(prompts)'
      /\ IndexBounded(pending_by_key)'
  BY ExpireKeeps DEF KeepQueue, IndexExact, AnswersRecorded, IndexBounded
<1>3. Disjoint(once_allows, once_denies, pending_by_key)'
  BY ExpireKeeps DEF KeepQueue, Disjoint
<1>4. IsFiniteSet(once_denies)' /\ (Cardinality(once_denies) <= Capacity + 1)'
  BY ExpireKeeps, FS_Subset, FS_CardinalityType
<1> QED
  BY <1>1, <1>2, <1>3, <1>4 DEF QueueInv

(* enqueue() of a new prompt keeps the facts: the key had no standing and  *)
(* the cap left room.                                                      *)
LEMMA CreateStep ==
  ASSUME QueueInv, NEW k \in Key, NoToken(k), Create(k), KeepTokens, KeepGranted
  PROVE  QueueInv'
<1> USE PromptQueueAssumption
<1>1. next_id \in Nat \ {0} /\ now \in Nat
  BY DEF QueueInv, TypeOK
<1>2. /\ DOMAIN prompts' = 1 .. next_id
      /\ \A id \in 1 .. next_id - 1 : prompts'[id] = ExpiredPrompts[id]
      /\ prompts'[next_id] = [key |-> k, state |-> "Pending",
                              expires_at |-> now + Ttl,
                              answer_verdict |-> "None",
                              answer_scope |-> "None"]
  BY <1>1, ExpireKeeps DEF Create, MapInsert
<1>3. /\ DOMAIN pending_by_key' = DOMAIN ExpiredPendingByKey \cup {k}
      /\ k \notin DOMAIN ExpiredPendingByKey
      /\ \A j \in DOMAIN ExpiredPendingByKey :
           pending_by_key'[j] = ExpiredPendingByKey[j]
      /\ pending_by_key'[k] = next_id
  BY DEF Create, MapInsert
<1>4. TypeOK'
  <2>1. prompts' \in [1 .. next_id' - 1 -> Prompt]
    <3>1. prompts'[next_id] \in Prompt
      BY <1>1, <1>2 DEF Prompt
    <3>2. prompts' = [id \in 1 .. next_id |-> prompts'[id]]
      BY <1>1, ExpireKeeps DEF Create, MapInsert
    <3>3. \A id \in 1 .. next_id : prompts'[id] \in Prompt
      BY <1>1, <1>2, <3>1, ExpireKeeps
    <3>4. next_id' - 1 = next_id
      BY <1>1 DEF Create
    <3> QED
      BY <3>2, <3>3, <3>4
  <2>2. IsMap(pending_by_key', Key, 1 .. next_id' - 1)
    <3>1. pending_by_key' = [j \in DOMAIN pending_by_key' |-> pending_by_key'[j]]
      BY DEF Create, MapInsert
    <3> QED
      BY <1>1, <1>3, <3>1, ExpireKeeps DEF Create, IsMap
  <2> QED
    BY <1>1, <2>1, <2>2, ExpireKeeps
    DEF TypeOK, QueueInv, Create, KeepTokens, KeepGranted
<1>5. IndexExact(prompts', pending_by_key')
  <2>1. DOMAIN ExpiredPrompts = 1 .. next_id - 1
    BY ExpireKeeps
  <2>2. ASSUME NEW j \in DOMAIN pending_by_key'
        PROVE  /\ pending_by_key'[j] \in DOMAIN prompts'
               /\ prompts'[pending_by_key'[j]].state = "Pending"
               /\ prompts'[pending_by_key'[j]].key = j
    BY <1>1, <1>2, <1>3, <2>1, ExpireKeeps DEF IndexExact
  <2>3. ASSUME NEW id \in DOMAIN prompts', prompts'[id].state = "Pending"
        PROVE  /\ prompts'[id].key \in DOMAIN pending_by_key'
               /\ pending_by_key'[prompts'[id].key] = id
    BY <1>1, <1>2, <1>3, <2>1, <2>3, ExpireKeeps DEF IndexExact
  <2> QED
    BY <2>2, <2>3 DEF IndexExact
<1>6. AnswersRecorded(prompts')
  BY <1>1, <1>2, ExpireKeeps DEF AnswersRecorded
<1>7. IndexBounded(pending_by_key')
  <2>1. /\ IsFiniteSet(DOMAIN ExpiredPendingByKey)
        /\ Cardinality(DOMAIN ExpiredPendingByKey) < Capacity
    BY ExpireKeeps DEF IndexBounded, Create
  <2>2. /\ IsFiniteSet(DOMAIN pending_by_key')
        /\ Cardinality(DOMAIN pending_by_key') =
             Cardinality(DOMAIN ExpiredPendingByKey) + 1
    BY <1>3, <2>1, FS_AddElement
  <2> QED
    BY <2>1, <2>2, FS_CardinalityType DEF IndexBounded
<1>8. Disjoint(once_allows', once_denies', pending_by_key')
  BY <1>3, ExpireKeeps DEF Disjoint, NoToken, KeepTokens
<1>9. IsFiniteSet(once_denies') /\ Cardinality(once_denies') <= Capacity + 1
  BY ExpireKeeps, FS_CardinalityType DEF KeepTokens
<1> QED
  BY <1>4, <1>5, <1>6, <1>7, <1>8, <1>9 DEF QueueInv

(* answer() of an open prompt keeps the facts: the key trades its open     *)
(* question for at most one token.                                         *)
LEMMA AnswerStep ==
  ASSUME QueueInv, NEW id, NEW v \in Verdict, NEW s \in RuleScope,
         AnswerPending(id, v, s), KeepGranted
  PROVE  QueueInv'
<1> DEFINE key == prompts[id].key
<1> USE PromptQueueAssumption
<1>1. /\ next_id \in Nat \ {0} /\ now \in Nat
      /\ DOMAIN ExpiredPrompts = 1 .. next_id - 1
      /\ id \in 1 .. next_id - 1
      /\ key \in Key
      /\ ExpiredPrompts[id].key = key /\ ExpiredPrompts[id].state = "Pending"
      /\ key \in DOMAIN ExpiredPendingByKey
      /\ ExpiredPendingByKey[key] = id
  <2>1. ExpiredPrompts[id].key = key /\ ExpiredPrompts[id].state = "Pending"
    BY DEF AnswerPending, ExpiredPrompts, QueueInv, TypeOK, Prompt
  <2>2. /\ next_id \in Nat \ {0} /\ now \in Nat
        /\ DOMAIN ExpiredPrompts = 1 .. next_id - 1
        /\ id \in 1 .. next_id - 1
    BY ExpireKeeps DEF AnswerPending, QueueInv, TypeOK
  <2>3. key \in Key
    BY <2>2 DEF QueueInv, TypeOK, Prompt
  <2>4. key \in DOMAIN ExpiredPendingByKey /\ ExpiredPendingByKey[key] = id
    BY <2>1, <2>2, ExpireKeeps DEF IndexExact
  <2> QED
    BY <2>1, <2>2, <2>3, <2>4
<1>2. /\ prompts' \in [1 .. next_id - 1 -> Prompt]
      /\ prompts'[id].state = "Answered" /\ prompts'[id].key = key
      /\ \A j \in 1 .. next_id - 1 : j # id => prompts'[j] = ExpiredPrompts[j]
  <2>1. ExpiredPrompts \in [1 .. next_id - 1 -> Prompt]
    BY ExpireKeeps
  <2>2. prompts' = [ExpiredPrompts EXCEPT ![id] =
                      [[[@ EXCEPT !.state = "Answered"]
                           EXCEPT !.answer_verdict = v]
                           EXCEPT !.answer_scope = s]]
    BY <1>1, <2>1 DEF AnswerPending, Prompt
  <2> QED
    BY <1>1, <2>1, <2>2, ZenonT(40) DEF Prompt
<1>3. /\ IsMap(pending_by_key', Key, 1 .. next_id - 1)
      /\ DOMAIN pending_by_key' = DOMAIN ExpiredPendingByKey \ {key}
      /\ \A k \in DOMAIN pending_by_key' :
           pending_by_key'[k] = ExpiredPendingByKey[k]
  BY ExpireKeeps DEF AnswerPending, MapRemove, Restrict, IsMap
<1>4. /\ IsMap(once_allows', Key, Nat)
      /\ DOMAIN once_allows' \subseteq DOMAIN ExpiredOnceAllows \cup
           (IF v = "Allow" THEN {key} ELSE {})
  BY <1>1, ExpireKeeps DEF AnswerPending, MapInsert, IsMap
<1>5. /\ once_denies' \in SUBSET Key
      /\ once_denies' \subseteq ExpiredOnceDenies \cup
           (IF v = "Deny" THEN {key} ELSE {})
  BY <1>1, ExpireKeeps DEF AnswerPending
<1>6. TypeOK'
  BY <1>1, <1>2, <1>3, <1>4, <1>5
  DEF TypeOK, QueueInv, AnswerPending, KeepGranted
<1>7. IndexExact(prompts', pending_by_key')
  <2>1. ASSUME NEW k \in DOMAIN pending_by_key'
        PROVE  /\ pending_by_key'[k] \in DOMAIN prompts'
               /\ prompts'[pending_by_key'[k]].state = "Pending"
               /\ prompts'[pending_by_key'[k]].key = k
    BY <1>1, <1>2, <1>3, ExpireKeeps DEF IndexExact
  <2>2. ASSUME NEW j \in DOMAIN prompts', prompts'[j].state = "Pending"
        PROVE  /\ prompts'[j].key \in DOMAIN pending_by_key'
               /\ pending_by_key'[prompts'[j].key] = j
    BY <1>1, <1>2, <1>3, <2>2, ExpireKeeps DEF IndexExact
  <2> QED
    BY <2>1, <2>2 DEF IndexExact
<1>8. AnswersRecorded(prompts')
  BY <1>1, <1>2, ExpireKeeps DEF AnswersRecorded
<1>9. IndexBounded(pending_by_key')
  BY <1>3, ExpireKeeps, FS_Subset, FS_CardinalityType DEF IndexBounded
<1>10. Disjoint(once_allows', once_denies', pending_by_key')
  BY <1>1, <1>3, <1>4, <1>5, ExpireKeeps DEF Disjoint, Verdict
<1>11. IsFiniteSet(once_denies') /\ Cardinality(once_denies') <= Capacity + 1
  <2>1. /\ IsFiniteSet(ExpiredOnceDenies \cup {key})
        /\ Cardinality(ExpiredOnceDenies \cup {key}) <= Capacity + 1
    <3>1. /\ IsFiniteSet(ExpiredOnceDenies)
          /\ Cardinality(ExpiredOnceDenies) \in Nat
          /\ Cardinality(ExpiredOnceDenies) <= Capacity
      BY ExpireKeeps, FS_CardinalityType
    <3>2. /\ IsFiniteSet(ExpiredOnceDenies \cup {key})
          /\ Cardinality(ExpiredOnceDenies \cup {key}) \in
               {Cardinality(ExpiredOnceDenies), Cardinality(ExpiredOnceDenies) + 1}
      BY <3>1, FS_AddElement
    <3> QED
      BY <3>1, <3>2
  <2>2. once_denies' \subseteq ExpiredOnceDenies \cup {key}
    BY <1>5
  <2> QED
    BY <2>1, <2>2, FS_Subset, FS_CardinalityType
<1> QED
  BY <1>6, <1>7, <1>8, <1>9, <1>10, <1>11 DEF QueueInv

-----------------------------------------------------------------------------
(* The inductive invariant holds of the empty queue. *)
LEMMA QueueInvInit == Init => QueueInv
<1> SUFFICES ASSUME Init PROVE QueueInv
  OBVIOUS
<1> USE PromptQueueAssumption DEF Init, EmptyMap
<1>1. TypeOK
  BY DEF TypeOK, IsMap
<1>2. /\ IndexExact(prompts, pending_by_key)
      /\ AnswersRecorded(prompts)
      /\ Disjoint(once_allows, once_denies, pending_by_key)
  BY DEF IndexExact, AnswersRecorded, Disjoint
<1>3. /\ IndexBounded(pending_by_key)
      /\ IsFiniteSet(once_denies) /\ Cardinality(once_denies) <= Capacity + 1
  <2>1. DOMAIN pending_by_key = {} /\ once_denies = {}
    OBVIOUS
  <2> QED
    BY <2>1, FS_EmptySet DEF IndexBounded
<1> QED
  BY <1>1, <1>2, <1>3 DEF QueueInv

(* Every operation of the queue keeps the inductive invariant. *)
LEMMA QueueInvStep == QueueInv /\ [Next]_vars => QueueInv'
<1> SUFFICES ASSUME QueueInv, [Next]_vars PROVE QueueInv'
  OBVIOUS
<1> USE PromptQueueAssumption
<1>0. now \in Nat /\ granted \in [Key -> Nat]
  BY DEF QueueInv, TypeOK
<1>1. ASSUME KeepQueue, KeepTokens, KeepGranted PROVE QueueInv'
  BY <1>0, <1>1, KeepQueueStep, ExpireKeeps DEF KeepTokens, KeepGranted
<1>2. ASSUME NEW k \in Key, NEW rv \in RuleVerdict, Decide(k, rv)
      PROVE  QueueInv'
  <2>1. CASE TakeOnceAllow(k)
    <3>1. /\ IsMap(once_allows', Key, Nat)
          /\ DOMAIN once_allows' \subseteq DOMAIN ExpiredOnceAllows
      BY <2>1, ExpireKeeps DEF TakeOnceAllow, MapRemove, Restrict, IsMap
    <3>2. /\ KeepQueue /\ now' \in Nat /\ granted' \in [Key -> Nat]
          /\ once_denies' = ExpiredOnceDenies
      BY <1>0, <2>1 DEF TakeOnceAllow
    <3> QED
      BY <3>1, <3>2, KeepQueueStep, ExpireKeeps
  <2>2. CASE ConsumeOnceDeny(k)
    BY <1>0, <2>2, KeepQueueStep, ExpireKeeps DEF ConsumeOnceDeny, KeepGranted
  <2>3. CASE NoToken(k) /\ Create(k) /\ KeepTokens /\ KeepGranted
    BY <2>3, CreateStep
  <2>4. CASE KeepQueue /\ KeepTokens /\ KeepGranted
    BY <2>4, <1>1
  <2> QED
    BY <1>2, <2>1, <2>2, <2>3, <2>4 DEF Decide, DedupeOrFull
<1>3. ASSUME NEW id, NEW v \in Verdict, NEW s \in RuleScope, Answer(id, v, s)
      PROVE  QueueInv'
  BY <1>1, <1>3, AnswerStep DEF Answer, AnswerRefused
<1>4. ASSUME Tick \/ UNCHANGED vars PROVE QueueInv'
  BY <1>0, <1>4 DEF Tick, vars, QueueInv, TypeOK
<1> QED
  BY <1>1, <1>2, <1>3, <1>4 DEF Next, ListPending

(* The inductive invariant holds of every behaviour of the queue. *)
THEOREM QueueInvHolds == Spec => []QueueInv
  BY QueueInvInit, QueueInvStep, PTL DEF Spec

(* The types hold: ids are handed out without gaps and the index and the   *)
(* token tables only name keys and ids that exist.                         *)
THEOREM QueueTypes == Spec => []TypeOK
<1>1. QueueInv => TypeOK
  BY DEF QueueInv
<1> QED
  BY <1>1, QueueInvHolds, PTL

(* enqueue(), answer() and expire() keep the dedupe index exact. *)
THEOREM IndexStaysExact == Spec => []PendingIndexExact
<1>1. QueueInv => PendingIndexExact
  BY DEF QueueInv, IndexExact, PendingIndexExact, PendingIds
<1> QED
  BY <1>1, QueueInvHolds, PTL

(* enqueue()'s cap holds: the Pending prompts map one-to-one into the keys *)
(* of the index, and enqueue() never lets the index outgrow Capacity.      *)
THEOREM PendingStaysBounded == Spec => []PendingBounded
<1>1. QueueInv => PendingBounded
  <2> SUFFICES ASSUME QueueInv PROVE PendingBounded
    OBVIOUS
  <2> DEFINE f == [id \in PendingIds |-> prompts[id].key]
  <2>1. f \in Injection(PendingIds, DOMAIN pending_by_key)
    <3>1. f \in [PendingIds -> DOMAIN pending_by_key]
      BY DEF QueueInv, IndexExact, PendingIds
    <3>2. \A a, b \in PendingIds : f[a] = f[b] => a = b
      BY DEF QueueInv, IndexExact, PendingIds
    <3> QED
      BY <3>1, <3>2 DEF Injection, IsInjective
  <2> HIDE DEF f
  <2>2. /\ IsFiniteSet(DOMAIN pending_by_key)
        /\ Cardinality(DOMAIN pending_by_key) \in Nat
        /\ Cardinality(DOMAIN pending_by_key) <= Capacity
    BY FS_CardinalityType DEF QueueInv, IndexBounded
  <2>3. /\ IsFiniteSet(PendingIds)
        /\ Cardinality(PendingIds) <= Cardinality(DOMAIN pending_by_key)
    BY <2>1, <2>2, FS_Injection
  <2> QED
    BY <2>2, <2>3, FS_CardinalityType, PromptQueueAssumption DEF PendingBounded
<1> QED
  BY <1>1, QueueInvHolds, PTL

(* No key ever has two standings (open question, allow-once token,         *)
(* deny-once token).                                                       *)
THEOREM OneStanding == Spec => []OneStandingPerKey
<1>1. QueueInv => OneStandingPerKey
  BY DEF QueueInv, Disjoint, OneStandingPerKey
<1> QED
  BY <1>1, QueueInvHolds, PTL

(* The deny-once tokens stay within one of the cap. *)
THEOREM DenyTokensStayBounded == Spec => []DenyTokensBounded
<1>1. QueueInv => DenyTokensBounded
  BY DEF QueueInv, DenyTokensBounded
<1> QED
  BY <1>1, QueueInvHolds, PTL

(* The maps of PromptQueue agree after any sequence of calls. *)
THEOREM QueueStaysConsistent == Spec => []QueueConsistent
<1>1. /\ TypeOK /\ PendingIndexExact /\ PendingBounded
      /\ OneStandingPerKey /\ DenyTokensBounded
      => QueueConsistent
  BY DEF QueueConsistent
<1> QED
  BY <1>1, QueueTypes, IndexStaysExact, PendingStaysBounded, OneStanding,
     DenyTokensStayBounded, PTL

-----------------------------------------------------------------------------
(* How each kind of step changes the operator's allow-once answers. *)
LEMMA AnswersFinite ==
  ASSUME QueueInv, NEW k \in Key
  PROVE  IsFiniteSet(AllowOnceAnswers(k)) /\ Cardinality(AllowOnceAnswers(k)) \in Nat
<1>1. AllowOnceAnswers(k) \subseteq 1 .. next_id - 1
  BY DEF AllowOnceAnswers, QueueInv, TypeOK
<1>2. IsFiniteSet(1 .. next_id - 1)
  BY FS_Interval DEF QueueInv, TypeOK
<1> QED
  BY <1>1, <1>2, FS_Subset, FS_CardinalityType

(* Expiry changes no key and no answer. *)
LEMMA ExpireKeepsAnswers ==
  ASSUME QueueInv
  PROVE  \A id \in 1 .. next_id - 1 :
           /\ ExpiredPrompts[id].key = prompts[id].key
           /\ ExpiredPrompts[id].answer_verdict = prompts[id].answer_verdict
           /\ ExpiredPrompts[id].answer_scope = prompts[id].answer_scope
  BY DEF ExpiredPrompts, QueueInv, TypeOK, Prompt

(* An operation that leaves the queue leaves the allow-once answers. *)
LEMMA KeepQueueAnswers ==
  ASSUME QueueInv, KeepQueue, NEW k \in Key
  PROVE  AllowOnceAnswers(k)' = AllowOnceAnswers(k)
<1>1. DOMAIN prompts' = DOMAIN prompts /\ DOMAIN prompts = 1 .. next_id - 1
  BY ExpireKeeps DEF KeepQueue, QueueInv, TypeOK
<1> QED
  BY <1>1, ExpireKeepsAnswers DEF KeepQueue, AllowOnceAnswers

(* Creating a prompt, with the expiry it starts by, leaves the allow-once answers. *)
LEMMA CreateAnswers ==
  ASSUME QueueInv, NEW j \in Key, Create(j), NEW k \in Key
  PROVE  AllowOnceAnswers(k)' = AllowOnceAnswers(k)
<1>1. /\ next_id \in Nat \ {0}
      /\ DOMAIN prompts = 1 .. next_id - 1
      /\ DOMAIN prompts' = 1 .. next_id
      /\ \A id \in 1 .. next_id - 1 : prompts'[id] = ExpiredPrompts[id]
      /\ prompts'[next_id].answer_verdict = "None"
  BY ExpireKeeps, SMTT(30) DEF Create, MapInsert, QueueInv, TypeOK
<1>2. \A id \in 1 .. next_id : id \in 1 .. next_id - 1 \/ id = next_id
  BY <1>1
<1>3. ASSUME NEW id PROVE id \in AllowOnceAnswers(k)' <=> id \in AllowOnceAnswers(k)
  BY <1>1, <1>2, ExpireKeepsAnswers DEF AllowOnceAnswers
<1> QED
  BY <1>3 DEF AllowOnceAnswers

(* Answering adds the prompt to the allow-once answers of its key exactly when the answer
   allows once, and it was not among them before. *)
LEMMA AnswerAnswers ==
  ASSUME QueueInv, NEW id, NEW v \in Verdict, NEW s \in RuleScope,
         AnswerPending(id, v, s), NEW k \in Key
  PROVE  /\ IF prompts[id].key = k /\ v = "Allow" /\ s = "Once"
            THEN AllowOnceAnswers(k)' = AllowOnceAnswers(k) \cup {id}
            ELSE AllowOnceAnswers(k)' = AllowOnceAnswers(k)
         /\ id \notin AllowOnceAnswers(k)
<1>1. /\ DOMAIN prompts = 1 .. next_id - 1
      /\ id \in 1 .. next_id - 1
      /\ ExpiredPrompts \in [1 .. next_id - 1 -> Prompt]
  BY ExpireKeeps DEF AnswerPending, QueueInv, TypeOK
<1>2. prompts' = [ExpiredPrompts EXCEPT ![id] =
                    [[[@ EXCEPT !.state = "Answered"]
                         EXCEPT !.answer_verdict = v]
                         EXCEPT !.answer_scope = s]]
  BY <1>1 DEF AnswerPending, Prompt
<1>3. /\ DOMAIN prompts' = 1 .. next_id - 1
      /\ prompts'[id].key = prompts[id].key
      /\ prompts'[id].answer_verdict = v /\ prompts'[id].answer_scope = s
      /\ \A j \in 1 .. next_id - 1 : j # id => prompts'[j] = ExpiredPrompts[j]
  BY <1>1, <1>2, ExpireKeepsAnswers DEF Prompt
<1>4. id \notin AllowOnceAnswers(k)
  <2>1. prompts[id].state # "Answered"
    BY <1>1 DEF AnswerPending, ExpiredPrompts, Overdue, Prompt
  <2> QED
    BY <1>1, <2>1 DEF QueueInv, AnswersRecorded, AllowOnceAnswers
<1>5. ASSUME NEW j
      PROVE  j \in AllowOnceAnswers(k)' <=>
             \/ j \in AllowOnceAnswers(k)
             \/ j = id /\ prompts[id].key = k /\ v = "Allow" /\ s = "Once"
  BY <1>1, <1>3, <1>4, ExpireKeepsAnswers DEF AllowOnceAnswers
<1>6. CASE prompts[id].key = k /\ v = "Allow" /\ s = "Once"
  BY <1>4, <1>5, <1>6
<1>7. CASE ~(prompts[id].key = k /\ v = "Allow" /\ s = "Once")
  <2>1. ASSUME NEW j PROVE j \in AllowOnceAnswers(k)' <=> j \in AllowOnceAnswers(k)
    BY <1>5, <1>7
  <2> QED
    BY <1>4, <1>7, <2>1 DEF AllowOnceAnswers
<1> QED
  BY <1>6, <1>7

-----------------------------------------------------------------------------
(* Tokens in hand plus connects granted, per key, against the answers. *)
Unspent(k) == IF k \in DOMAIN once_allows THEN 1 ELSE 0

(* Every step keeps OnceMeansOnce. *)
LEMMA OnceStep ==
  ASSUME QueueInv, OnceMeansOnce, [Next]_vars
  PROVE  OnceMeansOnce'
<1> SUFFICES ASSUME NEW k \in Key
             PROVE  (granted[k] + Unspent(k) <= Cardinality(AllowOnceAnswers(k)))'
  BY DEF OnceMeansOnce, Unspent
<1>0. /\ granted \in [Key -> Nat]
      /\ Cardinality(AllowOnceAnswers(k)) \in Nat
      /\ granted[k] + Unspent(k) <= Cardinality(AllowOnceAnswers(k))
  BY AnswersFinite DEF QueueInv, TypeOK, OnceMeansOnce, Unspent
<1>1. DOMAIN ExpiredOnceAllows \subseteq DOMAIN once_allows
  BY ExpireKeeps
<1>2. ASSUME AllowOnceAnswers(k)' = AllowOnceAnswers(k),
             DOMAIN once_allows' \subseteq DOMAIN once_allows,
             granted' = granted
      PROVE  (granted[k] + Unspent(k) <= Cardinality(AllowOnceAnswers(k)))'
  BY <1>0, <1>2 DEF Unspent
<1>3. ASSUME NEW j \in Key, NEW rv \in RuleVerdict, Decide(j, rv)
      PROVE  (granted[k] + Unspent(k) <= Cardinality(AllowOnceAnswers(k)))'
  <2>1. CASE TakeOnceAllow(j)
    <3>1. AllowOnceAnswers(k)' = AllowOnceAnswers(k)
      BY <2>1, KeepQueueAnswers DEF TakeOnceAllow
    <3>2. /\ j \in DOMAIN once_allows
          /\ DOMAIN once_allows' \subseteq DOMAIN once_allows \ {j}
          /\ granted' = [granted EXCEPT ![j] = @ + 1]
      BY <1>1, <2>1 DEF TakeOnceAllow, MapRemove, Restrict
    <3> QED
      BY <1>0, <3>1, <3>2 DEF Unspent
  <2>2. CASE ConsumeOnceDeny(j)
    BY <1>1, <1>2, <2>2, KeepQueueAnswers DEF ConsumeOnceDeny, KeepGranted
  <2>3. CASE Create(j) /\ KeepTokens /\ KeepGranted
    BY <1>1, <1>2, <2>3, CreateAnswers DEF KeepTokens, KeepGranted
  <2>4. CASE KeepQueue /\ KeepTokens /\ KeepGranted
    BY <1>1, <1>2, <2>4, KeepQueueAnswers DEF KeepTokens, KeepGranted
  <2> QED
    BY <1>3, <2>1, <2>2, <2>3, <2>4 DEF Decide, DedupeOrFull
<1>4. ASSUME KeepQueue, KeepTokens, KeepGranted
      PROVE  (granted[k] + Unspent(k) <= Cardinality(AllowOnceAnswers(k)))'
  BY <1>1, <1>2, <1>4, KeepQueueAnswers DEF KeepTokens, KeepGranted
<1>5. ASSUME NEW id, NEW v \in Verdict, NEW s \in RuleScope,
             AnswerPending(id, v, s), KeepGranted
      PROVE  (granted[k] + Unspent(k) <= Cardinality(AllowOnceAnswers(k)))'
  <2>1. CASE prompts[id].key = k /\ v = "Allow" /\ s = "Once"
    <3>1. Cardinality(AllowOnceAnswers(k)') = Cardinality(AllowOnceAnswers(k)) + 1
      <4>1. /\ AllowOnceAnswers(k)' = AllowOnceAnswers(k) \cup {id}
            /\ id \notin AllowOnceAnswers(k)
        BY <1>5, <2>1, AnswerAnswers
      <4>2. IsFiniteSet(AllowOnceAnswers(k))
        BY AnswersFinite
      <4>3. Cardinality(AllowOnceAnswers(k) \cup {id}) =
              Cardinality(AllowOnceAnswers(k)) + 1
        BY <4>1, <4>2, FS_AddElement
      <4> QED
        BY <4>1, <4>3
    <3>2. k \notin DOMAIN once_allows
      <4>1. prompts[id].state = "Pending" /\ id \in DOMAIN prompts
        BY <1>5 DEF AnswerPending, ExpiredPrompts, Overdue, QueueInv, TypeOK, Prompt
      <4> QED
        BY <2>1, <4>1 DEF QueueInv, IndexExact, Disjoint
    <3> QED
      BY <1>0, <1>5, <3>1, <3>2 DEF Unspent, KeepGranted
  <2>2. CASE ~(prompts[id].key = k /\ v = "Allow" /\ s = "Once")
    <3>1. AllowOnceAnswers(k)' = AllowOnceAnswers(k)
      BY <1>5, <2>2, AnswerAnswers
    <3>2. k \in DOMAIN once_allows' => k \in DOMAIN once_allows
      BY <1>1, <1>5, <2>2 DEF AnswerPending, MapInsert
    <3> QED
      BY <1>0, <1>5, <3>1, <3>2 DEF Unspent, KeepGranted
  <2> QED
    BY <2>1, <2>2
<1>6. ASSUME Tick \/ UNCHANGED vars
      PROVE  (granted[k] + Unspent(k) <= Cardinality(AllowOnceAnswers(k)))'
  BY <1>0, <1>6 DEF Tick, vars, AllowOnceAnswers, Unspent
<1> QED
  BY <1>3, <1>4, <1>5, <1>6 DEF Next, ListPending, Answer, AnswerRefused

(* Accepted "once" connects never outnumber the operator's "allow once"    *)
(* answers, whatever answers, expiries and connects interleave.            *)
THEOREM OnceStaysOnce == Spec => []OnceMeansOnce
<1>1. Init => OnceMeansOnce
  <2>1. Init => \A k \in Key : AllowOnceAnswers(k) = {}
    BY DEF Init, AllowOnceAnswers, EmptyMap
  <2> QED
    BY <2>1, FS_EmptySet DEF Init, OnceMeansOnce, EmptyMap
<1> QED
  BY <1>1, OnceStep, QueueInvHolds, PTL DEF Spec

-----------------------------------------------------------------------------
(* What a step does to a prompt that exists: it stays, an overdue one      *)
(* expires, and only a Pending one that is not overdue is answered.        *)
LEMMA PromptStep ==
  ASSUME QueueInv, [Next]_vars, NEW id \in DOMAIN prompts
  PROVE  /\ id \in DOMAIN prompts'
         /\ \/ prompts'[id] = prompts[id]
            \/ prompts'[id] = ExpiredPrompts[id]
            \/ /\ prompts[id].state = "Pending"
               /\ now <= prompts[id].expires_at
<1>1. /\ DOMAIN prompts = 1 .. next_id - 1 /\ DOMAIN ExpiredPrompts = 1 .. next_id - 1
      /\ next_id \in Nat \ {0} /\ now \in Nat
      /\ prompts \in [1 .. next_id - 1 -> Prompt]
  BY ExpireKeeps DEF QueueInv, TypeOK
<1>2. ASSUME KeepQueue
      PROVE  id \in DOMAIN prompts' /\ prompts'[id] = ExpiredPrompts[id]
  BY <1>1, <1>2 DEF KeepQueue
<1>3. ASSUME NEW k \in Key, Create(k)
      PROVE  id \in DOMAIN prompts' /\ prompts'[id] = ExpiredPrompts[id]
  BY <1>1, <1>3 DEF Create, MapInsert
<1>4. ASSUME NEW j, NEW v \in Verdict, NEW s \in RuleScope, AnswerPending(j, v, s)
      PROVE  /\ id \in DOMAIN prompts'
             /\ \/ prompts'[id] = ExpiredPrompts[id]
                \/ /\ prompts[id].state = "Pending"
                   /\ now <= prompts[id].expires_at
  <2>1. CASE id = j
    BY <1>1, <1>4, <2>1 DEF AnswerPending, ExpiredPrompts, Overdue, Prompt
  <2>2. CASE id # j
    BY <1>1, <1>4, <2>2 DEF AnswerPending
  <2> QED
    BY <2>1, <2>2
<1>5. ASSUME Tick \/ UNCHANGED vars
      PROVE  id \in DOMAIN prompts' /\ prompts'[id] = prompts[id]
  BY <1>5 DEF Tick, vars
<1> QED
  BY <1>2, <1>3, <1>4, <1>5
  DEF Next, Decide, TakeOnceAllow, ConsumeOnceDeny, DedupeOrFull, ListPending,
      Answer, AnswerRefused

(* Answers and expiries are final: answer() settles a prompt for good, and *)
(* expire() touches Pending prompts only.                                  *)
THEOREM SettledForGood == Spec => SettledStays
<1>1. ASSUME QueueInv, [Next]_vars, NEW id \in DOMAIN prompts,
             prompts[id].state # "Pending"
      PROVE  id \in DOMAIN prompts' /\ prompts'[id] = prompts[id]
  BY <1>1, PromptStep DEF ExpiredPrompts, Overdue
<1>2. QueueInv /\ [Next]_vars =>
        [\A id \in DOMAIN prompts :
           prompts[id].state # "Pending" =>
             id \in DOMAIN prompts' /\ prompts'[id] = prompts[id]]_vars
  BY <1>1
<1> QED
  BY <1>2, QueueInvHolds, PTL DEF Spec, SettledStays

(* answer() on a prompt past its deadline is refused even when no call has *)
(* yet marked it Expired.                                                  *)
THEOREM NeverAnsweredLate == Spec => AnsweredInTime
<1>1. ASSUME QueueInv, [Next]_vars, NEW id \in PendingIds,
             prompts'[id].state = "Answered"
      PROVE  now <= prompts[id].expires_at
  <2>1. id \in DOMAIN prompts /\ prompts[id].state = "Pending"
        /\ prompts[id] \in Prompt
    BY <1>1 DEF PendingIds, QueueInv, TypeOK
  <2>2. ExpiredPrompts[id].state # "Answered"
    BY <2>1 DEF ExpiredPrompts, Prompt
  <2> QED
    BY <1>1, <2>1, <2>2, PromptStep
<1>2. QueueInv /\ [Next]_vars =>
        [\A id \in PendingIds :
           prompts'[id].state = "Answered" => now <= prompts[id].expires_at]_vars
  BY <1>1
<1> QED
  BY <1>2, QueueInvHolds, PTL DEF Spec, AnsweredInTime

(* answer() is final and in time. *)
THEOREM AnswersStayFinal == Spec => AnswersFinal
  BY SettledForGood, NeverAnsweredLate DEF AnswersFinal

-----------------------------------------------------------------------------
(* The refinement of OnceConsent, one key at a time.                       *)

(* Where a key stands, as the refinement mapping of PromptQueue says. *)
Standing(k) == IF k \in DOMAIN once_allows THEN "allow"
               ELSE IF k \in once_denies THEN "deny"
               ELSE IF k \in DOMAIN pending_by_key THEN "asked"
               ELSE "none"

Given(k) == Cardinality(AllowOnceAnswers(k))

LapseStep(k) ==
  /\ Standing(k)' \in {Standing(k), "none", "asked"}
  /\ Given(k)' = Given(k)
  /\ granted'[k] = granted[k]

(* A key that gains no token and whose answers do not change lapses. *)
LEMMA NoGainIsLapse ==
  ASSUME QueueInv, NEW k \in Key,
         k \in DOMAIN once_allows' => k \in DOMAIN once_allows,
         k \in once_denies' => k \in once_denies,
         AllowOnceAnswers(k)' = AllowOnceAnswers(k),
         granted'[k] = granted[k]
  PROVE  LapseStep(k)
  BY DEF LapseStep, Standing, Given, QueueInv, Disjoint

AnswerOnceStep(k) ==
  /\ Standing(k) = "asked" /\ granted'[k] = granted[k]
  /\ \/ Standing(k)' = "deny" /\ Given(k)' = Given(k)
     \/ Standing(k)' = "allow" /\ Given(k)' = Given(k) + 1

SpendStep(k) ==
  /\ Standing(k) = "allow" /\ Standing(k)' = "none"
  /\ granted'[k] = granted[k] + 1 /\ Given(k)' = Given(k)

(* A step that does more than let keys lapse does it to one key. *)
LEMMA ConsentFromKeys ==
  ASSUME NEW c \in Key,
         \A k \in Key \ {c} : LapseStep(k),
         LapseStep(c) \/ AnswerOnceStep(c) \/ SpendStep(c)
  PROVE  Consent!ConsentNext
<1>1. \A k \in Key : LapseStep(k) => Consent!Lapse(k)
  BY DEF LapseStep, Standing, Given, Consent!Lapse, Consent!Quiet
<1>2. AnswerOnceStep(c) => Consent!AnswerOnce(c)
  BY DEF AnswerOnceStep, Standing, Given, Consent!AnswerOnce, Consent!Quiet
<1>3. SpendStep(c) => Consent!Spend(c)
  BY DEF SpendStep, Standing, Given, Consent!Spend
<1> QED
  BY <1>1, <1>2, <1>3 DEF Consent!ConsentNext

(* A step that lapses consents at most is a step of the abstract specification. *)
LEMMA AllLapse ==
  ASSUME \A k \in Key : LapseStep(k)
  PROVE  Consent!ConsentNext
<1>1. \A k \in Key : Consent!Lapse(k)
  BY DEF LapseStep, Standing, Given, Consent!Lapse, Consent!Quiet
<1> QED
  BY <1>1 DEF Consent!ConsentNext
(* Every step of the queue is a step of the abstract specification or leaves its state alone. *)
LEMMA ConsentStep ==
  ASSUME QueueInv, [Next]_vars
  PROVE  Consent!ConsentNext \/ UNCHANGED Consent!consentVars
<1>0. /\ granted \in [Key -> Nat]
      /\ DOMAIN ExpiredOnceAllows \subseteq DOMAIN once_allows
      /\ ExpiredOnceDenies \subseteq once_denies
  BY ExpireKeeps DEF QueueInv, TypeOK, ExpiredOnceDenies
<1>1. ASSUME KeepQueue, KeepTokens, KeepGranted PROVE Consent!ConsentNext
  <2>1. ASSUME NEW k \in Key PROVE LapseStep(k)
    BY <1>0, <1>1, NoGainIsLapse, KeepQueueAnswers DEF KeepTokens, KeepGranted
  <2> QED
    BY <2>1, AllLapse
<1>2. ASSUME NEW j \in Key, TakeOnceAllow(j) PROVE Consent!ConsentNext
  <2>1. /\ DOMAIN once_allows' = DOMAIN ExpiredOnceAllows \ {j}
        /\ j \in DOMAIN ExpiredOnceAllows
        /\ once_denies' = ExpiredOnceDenies
        /\ DOMAIN pending_by_key' \subseteq DOMAIN pending_by_key
        /\ granted' = [granted EXCEPT ![j] = @ + 1]
        /\ KeepQueue
    BY <1>2 DEF TakeOnceAllow, MapRemove, Restrict, KeepQueue, ExpiredPendingByKey
  <2>2. ASSUME NEW k \in Key \ {j} PROVE LapseStep(k)
    BY <1>0, <2>1, NoGainIsLapse, KeepQueueAnswers
  <2>3. Standing(j) = "allow" /\ Standing(j)' = "none"
    BY <1>0, <2>1 DEF Standing, QueueInv, Disjoint
  <2>4. Given(j)' = Given(j)
    BY <2>1, KeepQueueAnswers DEF Given
  <2>5. SpendStep(j)
    BY <1>0, <2>1, <2>3, <2>4 DEF SpendStep
  <2> QED
    BY <2>2, <2>5, ConsentFromKeys
<1>3. ASSUME NEW j \in Key, ConsumeOnceDeny(j) PROVE Consent!ConsentNext
  <2>1. ASSUME NEW k \in Key PROVE LapseStep(k)
    BY <1>0, <1>3, NoGainIsLapse, KeepQueueAnswers DEF ConsumeOnceDeny, KeepGranted
  <2> QED
    BY <2>1, AllLapse
<1>4. ASSUME NEW j \in Key, Create(j), KeepTokens, KeepGranted
      PROVE  Consent!ConsentNext
  <2>1. ASSUME NEW k \in Key PROVE LapseStep(k)
    BY <1>0, <1>4, NoGainIsLapse, CreateAnswers DEF KeepTokens, KeepGranted
  <2> QED
    BY <2>1, AllLapse
<1>5. ASSUME NEW id, NEW v \in Verdict, NEW s \in RuleScope,
             AnswerPending(id, v, s), KeepGranted
      PROVE  Consent!ConsentNext
  <2>0. prompts[id].key \in Key
    BY <1>5 DEF AnswerPending, QueueInv, TypeOK, Prompt
  <2> PICK key \in Key : key = prompts[id].key
    BY <2>0
  <2>1. /\ id \in DOMAIN prompts
        /\ prompts[id].state = "Pending" /\ key \in DOMAIN pending_by_key
    BY <1>5 DEF AnswerPending, ExpiredPrompts, Overdue, QueueInv, TypeOK, Prompt,
                IndexExact
  <2>2. /\ key \notin DOMAIN once_allows /\ key \notin once_denies
        /\ Standing(key) = "asked"
    BY <2>1 DEF Standing, QueueInv, Disjoint
  <2>3. /\ DOMAIN once_allows' = DOMAIN ExpiredOnceAllows \cup
             (IF v = "Allow" /\ s = "Once" THEN {key} ELSE {})
        /\ once_denies' = ExpiredOnceDenies \cup
             (IF v = "Deny" /\ s = "Once" THEN {key} ELSE {})
    BY <1>5 DEF AnswerPending, MapInsert
  <2>4. ASSUME NEW k \in Key \ {key} PROVE LapseStep(k)
    BY <1>0, <1>5, <2>3, NoGainIsLapse, AnswerAnswers DEF KeepGranted
  <2>5. CASE v = "Allow" /\ s = "Once"
    <3>1. Standing(key)' = "allow"
      BY <2>3, <2>5 DEF Standing
    <3>2. /\ AllowOnceAnswers(key)' = AllowOnceAnswers(key) \cup {id}
          /\ id \notin AllowOnceAnswers(key)
      BY <1>5, <2>1, <2>5, AnswerAnswers
    <3>3. Cardinality(AllowOnceAnswers(key) \cup {id}) = Given(key) + 1
      BY <2>1, <3>2, AnswersFinite, FS_AddElement DEF Given
    <3>4. AnswerOnceStep(key)
      BY <1>5, <2>2, <3>1, <3>2, <3>3 DEF AnswerOnceStep, Given, KeepGranted
    <3> QED
      BY <2>1, <2>4, <3>4, ConsentFromKeys
  <2>6. CASE v = "Deny" /\ s = "Once"
    <3>1. Standing(key)' = "deny"
      BY <1>0, <2>2, <2>3, <2>6 DEF Standing
    <3>2. AllowOnceAnswers(key)' = AllowOnceAnswers(key)
      BY <1>5, <2>1, <2>6, AnswerAnswers
    <3>3. AnswerOnceStep(key)
      BY <1>5, <2>2, <3>1, <3>2 DEF AnswerOnceStep, Given, KeepGranted
    <3> QED
      BY <2>1, <2>4, <3>3, ConsentFromKeys
  <2>7. CASE s # "Once"
    <3>1. LapseStep(key)
      BY <1>0, <1>5, <2>1, <2>3, <2>7, NoGainIsLapse, AnswerAnswers DEF KeepGranted
    <3> QED
      BY <2>1, <2>4, <3>1, ConsentFromKeys
  <2> QED
    BY <2>5, <2>6, <2>7 DEF Verdict
<1>6. ASSUME Tick \/ UNCHANGED vars PROVE UNCHANGED Consent!consentVars
  BY <1>6 DEF Tick, vars, Consent!consentVars, AllowOnceAnswers
<1> QED
  BY <1>1, <1>2, <1>3, <1>4, <1>5, <1>6
  DEF Next, Decide, DedupeOrFull, ListPending, Answer, AnswerRefused

(* The prompt queue implements the one-shot consent protocol: the only way *)
(* into an allow-once token is the answer to an open question, and one     *)
(* connect takes it away.                                                  *)
THEOREM QueueImplementsConsent == Spec => ImplementsConsent
<1>1. Init => Consent!ConsentInit
  <2>1. Init => \A k \in Key : AllowOnceAnswers(k) = {}
    BY DEF Init, AllowOnceAnswers, EmptyMap
  <2> QED
    BY <2>1, FS_EmptySet DEF Init, Consent!ConsentInit, EmptyMap
<1>2. QueueInv /\ [Next]_vars => [Consent!ConsentNext]_(Consent!consentVars)
  BY ConsentStep
<1> QED
  BY <1>1, <1>2, QueueInvHolds, PTL DEF Spec, ImplementsConsent, Consent!ConsentSpec

HIDE DEF HasRoom, IdAfter, OrderAfter, Spent, Answerable, GivesToken

-----------------------------------------------------------------------------
(* Rules                                                                   *)

(* A RuleSet: insert() keeps ids apart. *)
Ranked(R) == UniqueIds(R) /\ Ids(R) \subseteq RuleId

-----------------------------------------------------------------------------
(* precedence()                                                            *)

(* A rule has finitely many fields to constrain. *)
LEMMA FieldsFinite == IsFiniteSet(Fields)
<1>1. IsFiniteSet({"protocol"})
  BY FS_Singleton, Zenon
<1>2. IsFiniteSet({"protocol"} \cup {"direction"})
  BY <1>1, FS_AddElement
<1>3. IsFiniteSet({"protocol"} \cup {"direction"} \cup {"address"})
  BY <1>2, FS_AddElement
<1>4. IsFiniteSet({"protocol"} \cup {"direction"} \cup {"address"} \cup {"hostname"})
  BY <1>3, FS_AddElement
<1>5. IsFiniteSet({"protocol"} \cup {"direction"} \cup {"address"} \cup {"hostname"} \cup {"port"})
  BY <1>4, FS_AddElement
<1>6. Fields = {"protocol"} \cup {"direction"} \cup {"address"} \cup {"hostname"} \cup {"port"}
  BY DEF Fields
<1> QED
  BY <1>5, <1>6

(* The specificity of a rule is a natural bounded by the number of fields. *)
LEMMA ConstrainedType ==
  \A r : Constrained(r) \in Nat /\ Constrained(r) <= Cardinality(Fields)
<1>1. IsFiniteSet(Fields)
  BY FieldsFinite
<1>2. \A r : {f \in Fields : r[f] # "Any"} \in SUBSET Fields
  OBVIOUS
<1> QED
  BY <1>1, <1>2, FS_Subset, FS_CardinalityType DEF Constrained

(* The ids of a ranked rule set are naturals up to MaxRuleId. *)
LEMMA RankedIds ==
  ASSUME NEW R, Ranked(R), NEW r \in R
  PROVE  r.id \in Nat /\ r.id <= MaxRuleId
  BY RuleIdAssumption DEF Ranked, Ids, RuleId

(* Of two different rules one outranks the other, and outranking is a      *)
(* strict order.                                                           *)
LEMMA OutranksOrder ==
  ASSUME NEW R, Ranked(R), NEW r \in R, NEW s \in R, NEW t \in R
  PROVE  /\ r # s => Outranks(r, s) \/ Outranks(s, r)
         /\ ~(Outranks(r, s) /\ Outranks(s, r))
         /\ Outranks(r, s) /\ Outranks(s, t) => Outranks(r, t)
<1>1. Constrained(r) \in Nat /\ Constrained(s) \in Nat /\ Constrained(t) \in Nat
  BY ConstrainedType
<1>2. r.id \in Nat /\ s.id \in Nat /\ t.id \in Nat
  BY RankedIds
<1>3. r # s => r.id # s.id
  BY DEF Ranked, UniqueIds
<1> QED
  BY <1>1, <1>2, <1>3 DEF Outranks

(* Among rules that match there is one that outranks the others: of those  *)
(* that constrain most, the one with the highest id.                       *)
LEMMA BestExists ==
  ASSUME NEW R, Ranked(R), NEW conn, Matching(R, conn) # {}
  PROVE  \E r \in R : IsBest(r, R, conn)
<1> DEFINE M == Matching(R, conn)
           C == {Constrained(r) : r \in M}
<1>1. M \subseteq R
  BY DEF Matching
<1>2. PICK c \in C : \A d \in C : c >= d
  <2>1. C # {} /\ \A d \in C : d \in Nat /\ d <= Cardinality(Fields)
    BY ConstrainedType
  <2>2. Cardinality(Fields) \in Nat
    BY ConstrainedType, FS_CardinalityType, FieldsFinite
  <2> HIDE DEF C
  <2> QED
    BY <2>1, <2>2, GreatestNatural
<1> DEFINE I == {r.id : r \in {s \in M : Constrained(s) = c}}
<1>3. PICK i \in I : \A j \in I : i >= j
  <2>1. I # {} /\ \A j \in I : j \in Nat /\ j <= MaxRuleId
    BY <1>1, <1>2, RankedIds
  <2>2. MaxRuleId \in Nat
    BY RuleIdAssumption
  <2> HIDE DEF I
  <2> QED
    BY <2>1, <2>2, GreatestNatural
<1>4. PICK r \in M : Constrained(r) = c /\ r.id = i
  BY <1>3
<1>5. ASSUME NEW s \in M \ {r} PROVE Outranks(r, s)
  <2>1. Constrained(r) \in Nat /\ Constrained(s) \in Nat /\ r.id \in Nat /\ s.id \in Nat
    BY <1>1, ConstrainedType, RankedIds
  <2>2. Constrained(r) >= Constrained(s)
    BY <1>2, <1>4
  <2>3. Constrained(s) = c => r.id >= s.id
    BY <1>3, <1>4
  <2>4. r.id # s.id
    BY <1>1 DEF Ranked, UniqueIds
  <2> QED
    BY <1>4, <2>1, <2>2, <2>3, <2>4 DEF Outranks
<1> QED
  BY <1>1, <1>4, <1>5 DEF IsBest

(* verdict_for() gives the verdict of the rule that outranks the others. *)
LEMMA BestDecides ==
  ASSUME NEW R, Ranked(R), NEW conn, NEW r, IsBest(r, R, conn)
  PROVE  VerdictFor(R, conn) = r.verdict
<1>1. r \in R /\ r \in Matching(R, conn)
  BY DEF IsBest, Matching
<1>2. \A s \in R : IsBest(s, R, conn) => s = r
  <2> SUFFICES ASSUME NEW s \in R, IsBest(s, R, conn), s # r PROVE FALSE
    OBVIOUS
  <2>1. Outranks(r, s) /\ Outranks(s, r)
    BY <1>1 DEF IsBest
  <2> QED
    BY <1>1, <2>1, OutranksOrder
<1>3. (CHOOSE s \in R : IsBest(s, R, conn)) = r
  BY <1>1, <1>2
<1> QED
  BY <1>1, <1>3, Zenon DEF VerdictFor

(* The id persist_answered_rule picks is above all others, if insert()     *)
(* accepts it.                                                             *)
LEMMA NextRuleIdAbove ==
  ASSUME NEW R, Ranked(R), NextRuleId(R) \notin Ids(R)
  PROVE  NextRuleId(R) \in RuleId /\ \A r \in R : r.id < NextRuleId(R)
<1>1. MaxRuleId \in Nat \ {0}
  BY RuleIdAssumption
<1>2. CASE R = {}
  BY <1>1, <1>2 DEF NextRuleId, RuleId
<1>3. CASE R # {}
  <2>1. Ids(R) # {} /\ \A x \in Ids(R) : x \in Nat /\ x <= MaxRuleId
    BY <1>1, <1>3 DEF Ids, Ranked, RuleId
  <2>2. \E m \in Ids(R) : \A x \in Ids(R) : m >= x
    BY <1>1, <2>1, GreatestNatural
  <2>3. Max(Ids(R)) \in Ids(R) /\ \A x \in Ids(R) : Max(Ids(R)) >= x
    BY <2>2 DEF Max
  <2>4. NextRuleId(R) = IF Max(Ids(R)) < MaxRuleId THEN Max(Ids(R)) + 1 ELSE MaxRuleId
    BY <1>3 DEF NextRuleId
  <2> DEFINE top == Max(Ids(R))
  <2>5. top \in Nat /\ top <= MaxRuleId /\ \A r \in R : r.id \in Nat /\ r.id <= top
    BY <2>1, <2>3 DEF Ids
  <2>6. top < MaxRuleId
    <3>1. top = MaxRuleId => NextRuleId(R) \in Ids(R)
      BY <1>1, <2>3, <2>4
    <3> QED
      BY <1>1, <2>5, <3>1
  <2>7. NextRuleId(R) = top + 1
    BY <2>4, <2>6
  <2> HIDE DEF top
  <2> QED
    BY <1>1, <2>5, <2>6, <2>7 DEF RuleId
<1> QED
  BY <1>2, <1>3

(* Insertion under a fresh id and deletion keep a rule set ranked. *)
LEMMA RankedChanges ==
  ASSUME NEW R, Ranked(R)
  PROVE  /\ \A rule : rule.id \in RuleId /\ Insertable(R, rule) => Ranked(R \cup {rule})
         /\ \A id : Ranked(Without(R, id))
  BY DEF Ranked, UniqueIds, Ids, Insertable, Without

-----------------------------------------------------------------------------
(* verdict_for() over the vector                                           *)

(* The best rules of R, none or one. *)
Best(R, conn) == {r \in R : IsBest(r, R, conn)}

(* One more rule x: max_by_key keeps or replaces the best rule so far. *)
Grown(B, x, conn) ==
  IF Matches(x, conn) /\ \A s \in B : Replaces(s, x) THEN {x} ELSE B

(* The best match over one rule more is the better of the old best match and that rule:
   one step of the max_by_key in verdict_for. *)
LEMMA BestGrows ==
  ASSUME NEW R, Ranked(R), NEW Q \in SUBSET R, NEW x \in R, NEW conn
  PROVE  Best(Q \cup {x}, conn) = Grown(Best(Q, conn), x, conn)
<1> DEFINE W == Q \cup {x}
<1>0. W \subseteq R /\ Ranked(Q) /\ Ranked(W)
  BY DEF Ranked, UniqueIds, Ids
<1>1. \A r, s \in W : IsBest(r, W, conn) /\ IsBest(s, W, conn) => r = s
  <2> SUFFICES ASSUME NEW r \in W, NEW s \in W, IsBest(r, W, conn), IsBest(s, W, conn), r # s
               PROVE  FALSE
    OBVIOUS
  <2>1. Outranks(r, s) /\ Outranks(s, r)
    BY DEF IsBest
  <2> QED
    BY <1>0, <2>1, OutranksOrder
<1>2. CASE ~Matches(x, conn)
  <2>1. Matching(W, conn) = Matching(Q, conn)
    BY <1>2 DEF Matching
  <2> QED
    BY <1>2, <2>1 DEF Grown, Best, IsBest, Matching
<1>3. CASE Matches(x, conn) /\ Matching(Q, conn) = {}
  <2>1. Matching(W, conn) = {x} /\ Best(Q, conn) = {}
    BY <1>3 DEF Matching, Best, IsBest
  <2> QED
    BY <1>3, <2>1 DEF Grown, Best, IsBest
<1>4. CASE Matches(x, conn) /\ Matching(Q, conn) # {}
  <2>1. PICK b \in Q : IsBest(b, Q, conn)
    BY <1>0, <1>4, BestExists
  <2>2. Matches(b, conn) /\ \A t \in Matching(Q, conn) \ {b} : Outranks(b, t)
    BY <2>1 DEF IsBest, Matching
  <2>3. Best(Q, conn) = {b}
    <3> SUFFICES ASSUME NEW s \in Q, IsBest(s, Q, conn), s # b PROVE FALSE
      BY <2>1 DEF Best
    <3>1. Outranks(b, s) /\ Outranks(s, b)
      BY <2>1 DEF IsBest
    <3> QED
      BY <1>0, <3>1, OutranksOrder
  <2>4. Matching(W, conn) = Matching(Q, conn) \cup {x}
    BY <1>4 DEF Matching
  <2>5. CASE Outranks(b, x)
    <3>1. IsBest(b, W, conn)
      BY <2>1, <2>2, <2>4, <2>5 DEF IsBest
    <3>2. Best(W, conn) = {b}
      BY <1>1, <2>1, <3>1 DEF Best
    <3> QED
      BY <2>3, <2>5, <3>2 DEF Grown, Replaces
  <2>6. CASE ~Outranks(b, x)
    <3>1. b # x => Outranks(x, b)
      BY <1>0, <2>6, OutranksOrder
    <3>2. ASSUME NEW t \in Matching(W, conn) \ {x} PROVE Outranks(x, t)
      <4>1. t \in Matching(Q, conn) /\ t \in R
        BY <1>0, <2>4 DEF Matching
      <4>2. CASE t = b
        BY <3>1, <4>2
      <4>3. CASE t # b
        <5>1. Outranks(b, t)
          BY <2>2, <4>1, <4>3
        <5> QED
          BY <1>0, <3>1, <4>1, <5>1, OutranksOrder
      <4> QED
        BY <4>2, <4>3
    <3>3. IsBest(x, W, conn)
      BY <2>4, <3>2 DEF IsBest
    <3>4. Best(W, conn) = {x}
      BY <1>1, <3>3 DEF Best
    <3> QED
      BY <1>4, <2>3, <2>6, <3>4 DEF Grown, Replaces
  <2> QED
    BY <2>5, <2>6
<1> QED
  BY <1>2, <1>3, <1>4

(* f is the recursion of VecVerdict up to m. *)
VecUpTo(vec, conn, f, m) ==
  f = [n \in 0 .. m |->
         IF n = 0 THEN {}
         ELSE IF Matches(vec[n], conn) /\ \A s \in f[n - 1] : Replaces(s, vec[n])
         THEN {vec[n]} ELSE f[n - 1]]

(* The recursion of VecVerdict defines a function. *)
LEMMA VecDefined ==
  ASSUME NEW R, NEW vec \in Seq(R), NEW conn
  PROVE  \E f : /\ VecUpTo(vec, conn, f, Len(vec))
                /\ VecVerdict(vec, conn) = IF f[Len(vec)] = {} THEN "Prompt"
                                           ELSE (CHOOSE r \in f[Len(vec)] : TRUE).verdict
<1> DEFINE m == Len(vec)
           V == SUBSET R
           a == {}
           g == [n \in 1 .. m |-> [B \in V |->
                   IF Matches(vec[n], conn) /\ \A s \in B : Replaces(s, vec[n])
                   THEN {vec[n]} ELSE B]]
<1>1. m \in Nat /\ a \in V /\ \A n \in 1 .. m : vec[n] \in R
  OBVIOUS
<1>2. g \in [1 .. m -> [V -> V]]
  BY <1>1
<1>3. PICK f \in [0 .. m -> V] : f[0] = a /\ \A n \in 1 .. m : f[n] = g[n][f[n - 1]]
  <2> HIDE DEF g, m, V, a
  <2>1. Recurs(V, a, m, g)
    BY <1>1, <1>2, Recursion
  <2> QED
    BY <2>1, Zenon DEF Recurs
<1>4. VecUpTo(vec, conn, f, Len(vec))
  <2>1. \A n \in 1 .. m : f[n - 1] \in V
    BY <1>1
  <2>2. ASSUME NEW n \in 1 .. m
        PROVE  f[n] = IF Matches(vec[n], conn) /\ \A s \in f[n - 1] : Replaces(s, vec[n])
                      THEN {vec[n]} ELSE f[n - 1]
    BY <1>3, <2>1, Zenon
  <2>3. \A n \in 0 .. m : n = 0 \/ (n # 0 /\ n \in 1 .. m)
    BY <1>1
  <2>4. f[0] = {}
    BY <1>3
  <2>5. m = Len(vec)
    OBVIOUS
  <2> HIDE DEF g, m, V
  <2>6. \A n \in 0 .. m :
          f[n] = IF n = 0 THEN {}
                 ELSE IF Matches(vec[n], conn) /\ \A s \in f[n - 1] : Replaces(s, vec[n])
                 THEN {vec[n]} ELSE f[n - 1]
    BY <2>2, <2>3, <2>4, Zenon
  <2> QED
    BY <2>5, <2>6 DEF VecUpTo
<1> DEFINE h == CHOOSE e : VecUpTo(vec, conn, e, Len(vec))
<1>5. VecUpTo(vec, conn, h, Len(vec))
  BY <1>4
<1>6. VecVerdict(vec, conn) = IF h[Len(vec)] = {} THEN "Prompt"
                              ELSE (CHOOSE r \in h[Len(vec)] : TRUE).verdict
  BY DEF VecVerdict, VecUpTo
<1> HIDE DEF h
<1> QED
  BY <1>5, <1>6, Zenon

(* In whatever order a vector holds the rules R, and even if it repeats    *)
(* some, verdict_for() gives the verdict of the best rule.                 *)
LEMMA VecDecides ==
  ASSUME NEW R, Ranked(R), NEW vec \in Seq(R), R = {vec[i] : i \in 1 .. Len(vec)}, NEW conn
  PROVE  VecVerdict(vec, conn) = VerdictFor(R, conn)
<1> DEFINE m == Len(vec)
           Prefix(n) == {vec[i] : i \in 1 .. n}
<1>0. m \in Nat /\ \A i \in 1 .. m : vec[i] \in R
  OBVIOUS
<1>1. PICK f : /\ VecUpTo(vec, conn, f, m)
               /\ VecVerdict(vec, conn) = IF f[m] = {} THEN "Prompt"
                                          ELSE (CHOOSE r \in f[m] : TRUE).verdict
  BY VecDefined, Zenon
<1>2. \A n \in 0 .. m :
        f[n] = IF n = 0 THEN {}
               ELSE IF Matches(vec[n], conn) /\ \A s \in f[n - 1] : Replaces(s, vec[n])
               THEN {vec[n]} ELSE f[n - 1]
  BY <1>1, Zenon DEF VecUpTo
<1> DEFINE T == {n \in Nat : n <= m => f[n] = Best(Prefix(n), conn)}
<1>3. 0 \in T
  <2>1. Prefix(0) = {}
    OBVIOUS
  <2>2. 0 \in 0 .. m
    BY <1>0
  <2>3. f[0] = {}
    BY <1>2, <2>2, Zenon
  <2> QED
    BY <2>1, <2>3 DEF Best
<1>4. ASSUME NEW n \in T \cap Nat PROVE n + 1 \in T
  <2>1. n \in Nat /\ n + 1 \in Nat
    OBVIOUS
  <2>2. CASE ~(n + 1 <= m)
    BY <2>1, <2>2
  <2>3. CASE n + 1 <= m
    <3>1. n <= m /\ n + 1 \in 0 .. m /\ n + 1 # 0 /\ (n + 1) - 1 = n /\ n + 1 \in 1 .. m
      BY <1>0, <2>1, <2>3
    <3>2. f[n] = Best(Prefix(n), conn)
      BY <3>1
    <3>3. vec[n + 1] \in R /\ Prefix(n) \in SUBSET R
      BY <1>0, <2>1, <3>1
    <3>4. Prefix(n + 1) = Prefix(n) \cup {vec[n + 1]}
      <4>1. \A i : i \in 1 .. n + 1 <=> i \in 1 .. n \/ i = n + 1
        BY <2>1
      <4> QED
        BY <4>1
    <3>5. f[n + 1] = IF Matches(vec[n + 1], conn) /\ \A s \in f[n] : Replaces(s, vec[n + 1])
                     THEN {vec[n + 1]} ELSE f[n]
      BY <1>2, <3>1, Zenon
    <3> DEFINE Q == Prefix(n)
               x == vec[n + 1]
    <3>6. f[n + 1] = Best(Q \cup {x}, conn)
      <4>1. x \in R /\ Q \in SUBSET R
        BY <3>3, Zenon
      <4>2. f[n] = Best(Q, conn)
        BY <3>2
      <4>3. f[n + 1] = Grown(f[n], x, conn)
        BY <3>5 DEF Grown
      <4> HIDE DEF Q, x, Prefix, m, T
      <4>4. Best(Q \cup {x}, conn) = Grown(Best(Q, conn), x, conn)
        BY <4>1, BestGrows
      <4> QED
        BY <4>2, <4>3, <4>4
    <3> QED
      BY <2>1, <3>4, <3>6, Zenon
  <2> QED
    BY <2>2, <2>3
<1>5. f[m] = Best(R, conn)
  <2>1. m \in T
    <3> HIDE DEF T
    <3> QED
      BY <1>0, <1>3, <1>4, SetInduction
  <2> QED
    BY <1>0, <2>1
<1>6. CASE Matching(R, conn) = {}
  BY <1>1, <1>5, <1>6 DEF Best, IsBest, VerdictFor
<1>7. CASE Matching(R, conn) # {}
  <2>1. Best(R, conn) # {}
    BY <1>7, BestExists, Zenon DEF Best
  <2>2. PICK r : r = (CHOOSE e \in f[m] : TRUE) /\ IsBest(r, R, conn)
    BY <1>5, <2>1, Zenon DEF Best
  <2> QED
    BY <1>1, <1>5, <2>1, <2>2, BestDecides, SMTT(30)
<1> QED
  BY <1>6, <1>7, Zenon

(* Rules are finitely many, and an ordering of them has each of them. *)
LEMMA OrderingsCover ==
  ASSUME NEW R, Ranked(R), NEW vec \in Bijection(1 .. Cardinality(R), R)
  PROVE  vec \in Seq(R) /\ R = {vec[i] : i \in 1 .. Len(vec)}
<1> DEFINE byId == [r \in R |-> r.id]
           n == Cardinality(R)
<1>1. IsFiniteSet(R)
  <2>1. IsFiniteSet(RuleId)
    BY RuleIdAssumption, FS_Interval DEF RuleId
  <2>2. byId \in Injection(R, RuleId)
    BY DEF Injection, IsInjective, Ranked, UniqueIds, Ids
  <2> QED
    BY <2>1, <2>2, FS_Injection
<1>2. n \in Nat
  BY <1>1, FS_CardinalityType
<1>3. vec \in [1 .. n -> R] /\ \A r \in R : \E i \in 1 .. n : vec[i] = r
  BY DEF Bijection, Surjection
<1>4. vec \in Seq(R) /\ Len(vec) = n
  BY <1>2, <1>3
<1> QED
  BY <1>3, <1>4

-----------------------------------------------------------------------------
(* The policy uses the queue as the queue's own specification says         *)

(* Every step of the policy is a call of the queue, the passing of time,   *)
(* or leaves the queue alone.                                              *)
LEMMA PolicyStepsQueue == [PolicyNext]_policyVars => [Next]_vars
<1> SUFFICES ASSUME [PolicyNext]_policyVars PROVE [Next]_vars
  OBVIOUS
<1>1. ASSUME NEW k \in Key, DecideConnect(k) PROVE Next
  <2> DEFINE rv == RuleVerdictOn(k)
  <2>1. Decide(k, rv)
    BY <1>1 DEF DecideConnect
  <2> HIDE DEF rv
  <2>2. CASE rv = "Prompt"
    BY <2>1, <2>2 DEF Next, RuleVerdict
  <2>3. CASE rv # "Prompt"
    <3>1. Decide(k, "Allow")
      BY <2>1, <2>3 DEF Decide
    <3> QED
      BY <3>1 DEF Next, RuleVerdict
  <2> QED
    BY <2>2, <2>3
<1>2. ASSUME List PROVE Next
  BY <1>2 DEF List, Next
<1>3. ASSUME NEW id \in 1 .. MaxId, NEW v \in Verdict, NEW s \in RuleScope,
             BeginAnswer(id, v, s)
      PROVE  Next
  BY <1>3 DEF BeginAnswer, Next
<1>4. ASSUME NEW id, StoreAnswer(id) PROVE UNCHANGED vars
  BY <1>4 DEF StoreAnswer
<1>5. ASSUME NEW id, NEW k, NEW v, AddRule(id, k, v) PROVE UNCHANGED vars
  BY <1>5 DEF AddRule
<1>6. ASSUME NEW id, DeleteRule(id) PROVE UNCHANGED vars
  BY <1>6 DEF DeleteRule
<1>7. ASSUME Tick PROVE Next
  BY <1>7 DEF Next
<1>8. ASSUME UNCHANGED policyVars PROVE UNCHANGED vars
  BY <1>8 DEF policyVars
<1> QED
  BY <1>1, <1>2, <1>3, <1>4, <1>5, <1>6, <1>7, <1>8 DEF PolicyNext

(* The prompts the policy opens and the answers it takes are a behaviour   *)
(* of PromptQueue: decide_attributed and prompt_answer call the queue in   *)
(* no way its own specification does not allow, so all that is proved of   *)
(* the queue holds beside the rules.                                       *)
THEOREM PolicyImplementsQueue == PolicySpec => Spec
<1>1. PolicyInit => Init
  BY DEF PolicyInit
<1> QED
  BY <1>1, PolicyStepsQueue, PTL DEF PolicySpec, Spec

-----------------------------------------------------------------------------
(* The inductive invariant                                                 *)

(* r is the one rule made for prompt id, of the answer recorded there. *)
Made(id, r) ==
  /\ id \in DOMAIN prompts /\ prompts[id].state = "Answered"
  /\ ruleOf[id] = {r}
  /\ \E i, s : r = IpcRule(i, exeOf[prompts[id].key], portOf[prompts[id].key],
                           prompts[id].answer_verdict, s)

(* id has an answer, and no rule yet. *)
Unmade(id) ==
  /\ id \in DOMAIN prompts /\ prompts[id].state = "Answered"
  /\ ruleOf[id] = {}

PolicyInv ==
  /\ Ranked(rules)
  /\ ruleOf = [id \in 1 .. MaxId |-> ruleOf[id]]
  /\ answering \subseteq 1 .. MaxId /\ stored \subseteq 1 .. MaxId
  /\ \A id \in answering : Unmade(id)
  /\ \A id \in 1 .. MaxId : \A r \in ruleOf[id] : Made(id, r)

(* The inductive invariant holds initially. *)
LEMMA PolicyInvInit == PolicyInit => PolicyInv
  BY KeyAssumption DEF PolicyInit, PolicyInv, Ranked

(* An answered prompt stays as it is. *)
LEMMA AnsweredStays ==
  ASSUME QueueInv, [Next]_vars, NEW id \in DOMAIN prompts,
         prompts[id].state = "Answered"
  PROVE  id \in DOMAIN prompts' /\ prompts'[id] = prompts[id]
  BY PromptStep, Zenon DEF ExpiredPrompts, Overdue

(* A step that makes no rule keeps what is known of rules and answers. *)
LEMMA MadeStays ==
  ASSUME QueueInv, [Next]_vars, UNCHANGED ruleOf, NEW id
  PROVE  /\ Unmade(id) => Unmade(id)'
         /\ \A r : Made(id, r) => Made(id, r)'
  BY AnsweredStays DEF Made, Unmade

(* Every step keeps the inductive invariant. *)
LEMMA PolicyInvStep ==
  QueueInv /\ PolicyInv /\ [PolicyNext]_policyVars => PolicyInv'
<1> SUFFICES ASSUME QueueInv, PolicyInv, [PolicyNext]_policyVars PROVE PolicyInv'
  OBVIOUS
<1>0. [Next]_vars
  BY PolicyStepsQueue
<1>1. ASSUME UNCHANGED ipcVars, Ranked(rules') PROVE PolicyInv'
  BY <1>0, <1>1, MadeStays DEF PolicyInv, ipcVars
<1>2. ASSUME UNCHANGED rules PROVE Ranked(rules')
  BY <1>2 DEF PolicyInv
<1>3. ASSUME NEW id \in 1 .. MaxId, NEW v \in Verdict, NEW s \in RuleScope,
             BeginAnswer(id, v, s)
      PROVE  PolicyInv'
  <2>0. UNCHANGED rules
    BY <1>3 DEF BeginAnswer
  <2>1. CASE UNCHANGED ipcVars
    BY <1>1, <1>2, <2>0, <2>1
  <2>2. CASE /\ id \in DOMAIN prompts /\ Lasting(id, s)
             /\ answering' = answering \cup {id} /\ UNCHANGED <<ruleOf, stored>>
    <3>1. prompts \in [1 .. next_id - 1 -> Prompt]
      BY DEF QueueInv, TypeOK
    <3>2. prompts[id].state = "Pending" /\ ExpiredPrompts[id].state = "Pending"
      BY <2>2, <3>1 DEF Lasting, ExpiredPrompts, Prompt
    <3>3. AnswerPending(id, v, s)
      BY <1>3, <2>2, <3>2 DEF BeginAnswer, Answer, AnswerRefused
    <3>4. id \in DOMAIN prompts' /\ prompts'[id].state = "Answered"
      BY <3>1, <3>3 DEF AnswerPending, ExpiredPrompts, Prompt
    <3>5. ruleOf[id] = {}
      BY <3>2 DEF PolicyInv, Made
    <3>6. Unmade(id)'
      BY <2>2, <3>4, <3>5 DEF Unmade
    <3> QED
      BY <1>0, <1>2, <2>0, <2>2, <3>6, MadeStays DEF PolicyInv
  <2> QED
    BY <1>3, <2>1, <2>2 DEF BeginAnswer
<1>4. ASSUME NEW id \in answering, StoreAnswer(id) PROVE PolicyInv'
  <2> DEFINE a == prompts[id]
             rule == IpcRule(NextRuleId(rules), exeOf[a.key], portOf[a.key],
                             a.answer_verdict, a.answer_scope)
  <2>1. /\ answering' = answering \ {id} /\ UNCHANGED prompts
        /\ Unmade(id) /\ id \in 1 .. MaxId
    BY <1>4 DEF StoreAnswer, vars, PolicyInv
  <2>2. CASE UNCHANGED <<rules, ruleOf, stored>>
    BY <1>0, <1>2, <2>1, <2>2, MadeStays DEF PolicyInv
  <2>3. CASE /\ Insertable(rules, rule) /\ rules' = rules \cup {rule}
             /\ ruleOf' = [ruleOf EXCEPT ![id] = @ \cup {rule}]
             /\ stored' \in {stored, stored \cup {id}}
    <3>1. Ranked(rules')
      <4>1. rule.id = NextRuleId(rules)
        BY DEF IpcRule
      <4>2. rule.id \in RuleId
        BY <2>3, <4>1, NextRuleIdAbove DEF Insertable, PolicyInv
      <4> HIDE DEF rule
      <4> QED
        BY <2>3, <4>2, RankedChanges DEF PolicyInv
    <3>2. PICK made : /\ made = rule
                      /\ \E i, s : made = IpcRule(i, exeOf[a.key], portOf[a.key],
                                                  a.answer_verdict, s)
      OBVIOUS
    <3> HIDE DEF rule
    <3>3. ruleOf'[id] = {made} /\ \A j \in 1 .. MaxId \ {id} : ruleOf'[j] = ruleOf[j]
      BY <2>1, <2>3, <3>2 DEF PolicyInv, Unmade
    <3>4. Made(id, made)'
      BY <2>1, <3>2, <3>3, Zenon DEF Made, Unmade
    <3>5. \A j \in answering' : Unmade(j)'
      BY <2>1, <3>3 DEF Unmade, PolicyInv
    <3>6. \A j \in 1 .. MaxId : \A r \in ruleOf'[j] : Made(j, r)'
      <4>1. \A j \in 1 .. MaxId \ {id} : \A r \in ruleOf'[j] : Made(j, r)'
        BY <2>1, <3>3 DEF Made, PolicyInv
      <4> QED
        BY <3>3, <3>4, <4>1
    <3>7. ruleOf' = [j \in 1 .. MaxId |-> ruleOf'[j]]
      BY <2>3, Zenon DEF PolicyInv
    <3> QED
      BY <2>1, <2>3, <3>1, <3>5, <3>6, <3>7 DEF PolicyInv
  <2> QED
    BY <1>4, <2>2, <2>3 DEF StoreAnswer, Pong
<1>5. ASSUME NEW id \in RuleId, NEW k \in Key, NEW v \in EngineVerdict, AddRule(id, k, v)
      PROVE  PolicyInv'
  <2> DEFINE rule == IpcRule(id, exeOf[k], portOf[k], v, "Permanent")
  <2>1. Insertable(rules, rule) /\ rules' = rules \cup {rule} /\ UNCHANGED ipcVars
    BY <1>5 DEF AddRule
  <2>2. rule.id \in RuleId
    BY DEF IpcRule
  <2> HIDE DEF rule
  <2>3. Ranked(rules')
    BY <2>1, <2>2, RankedChanges DEF PolicyInv
  <2> QED
    BY <1>1, <2>1, <2>3
<1>6. ASSUME NEW id \in RuleId, DeleteRule(id) PROVE PolicyInv'
  BY <1>1, <1>6, RankedChanges DEF DeleteRule, PolicyInv
<1>7. ASSUME UNCHANGED <<rules, ipcVars>> PROVE PolicyInv'
  BY <1>1, <1>2, <1>7
<1> QED
  BY <1>3, <1>4, <1>5, <1>6, <1>7
  DEF PolicyNext, DecideConnect, List, policyVars, ipcVars

(* The inductive invariant of the policy: rules keep distinct ids, an id a *)
(* thread still has to store a rule for is answered and has none, and a    *)
(* rule made for a prompt is its only one and follows its answer.          *)
THEOREM PolicyInvariant == PolicySpec => [](QueueInv /\ PolicyInv)
<1>1. PolicySpec => []QueueInv
  BY PolicyImplementsQueue, QueueInvHolds
<1> QED
  BY <1>1, PolicyInvInit, PolicyInvStep, PTL DEF PolicySpec

-----------------------------------------------------------------------------
(* A prompt makes one rule at most and that rule has the verdict of the    *)
(* first answer, however many threads answer it and in whatever order they *)
(* reach persist_answered_rule.                                            *)
THEOREM OneRulePerPrompt == PolicySpec => []RuleFollowsFirstAnswer
<1>1. PolicyInv => RuleFollowsFirstAnswer
  <2> SUFFICES ASSUME PolicyInv, NEW id \in 1 .. MaxId
               PROVE  /\ Cardinality(ruleOf[id]) <= 1
                      /\ \A r \in ruleOf[id] : /\ prompts[id].state = "Answered"
                                               /\ r.verdict = prompts[id].answer_verdict
    BY DEF RuleFollowsFirstAnswer
  <2>1. \A r \in ruleOf[id] : Made(id, r)
    BY DEF PolicyInv
  <2>2. CASE ruleOf[id] = {}
    BY <2>2, FS_EmptySet
  <2>3. CASE ruleOf[id] # {}
    <3>1. PICK r \in ruleOf[id] : Made(id, r)
      BY <2>1, <2>3
    <3>2. ruleOf[id] = {r} /\ prompts[id].state = "Answered"
          /\ r.verdict = prompts[id].answer_verdict
      BY <3>1, SMTT(30) DEF Made, IpcRule
    <3>3. Cardinality({r}) = 1
      BY FS_Singleton, Zenon
    <3> QED
      BY <3>2, <3>3
  <2> QED
    BY <2>2, <2>3
<1> QED
  BY <1>1, PolicyInvariant, PTL

(* verdict_for() is independent of the order of the vector: for any rules  *)
(* the daemon can come to hold, filter and max_by_key over any arrangement *)
(* of them find the rule that outranks all others.                         *)
THEOREM VerdictIgnoresOrder == PolicySpec => []VerdictIsBest
<1>1. PolicyInv => VerdictIsBest
  <2> SUFFICES ASSUME PolicyInv, NEW vec \in Bijection(1 .. Cardinality(rules), rules), NEW k \in Key
               PROVE  VecVerdict(vec, ConnOf(k)) = VerdictFor(rules, ConnOf(k))
    BY DEF VerdictIsBest, RuleVerdictOn
  <2>1. Ranked(rules)
    BY DEF PolicyInv
  <2>2. vec \in Seq(rules) /\ rules = {vec[i] : i \in 1 .. Len(vec)}
    BY <2>1, OrderingsCover
  <2> QED
    BY <2>1, <2>2, VecDecides
<1> QED
  BY <1>1, PolicyInvariant, PTL

(* The rule made of an answer matches the connects of the prompt's key. *)
LEMMA MadeMatches ==
  ASSUME NEW k, NEW i, NEW v, NEW s
  PROVE  Matches(IpcRule(i, exeOf[k], portOf[k], v, s), ConnOf(k))
<1> DEFINE r == IpcRule(i, exeOf[k], portOf[k], v, s)
           c == ConnOf(k)
<1>1. r.executable = c.executable
  BY DEF IpcRule, ConnOf
<1>2. /\ r["protocol"] = c["protocol"] /\ r["direction"] = c["direction"]
      /\ r["address"] = "Any" /\ r["hostname"] = "Any" /\ r["port"] = c["port"]
  BY DEF IpcRule, ConnOf
<1> HIDE DEF r, c
<1>3. Matches(r, c)
  BY <1>1, <1>2 DEF Matches, Fields
<1> QED
  BY <1>3 DEF r, c

(* The only step that makes a rule, and the rule it makes. *)
LEMMA NewRule ==
  ASSUME QueueInv, PolicyInv, [PolicyNext]_policyVars,
         NEW id \in 1 .. MaxId, NEW rule \in ruleOf'[id] \ ruleOf[id]
  PROVE  /\ UNCHANGED prompts
         /\ rules' = rules \cup {rule} /\ Insertable(rules, rule)
         /\ rule = IpcRule(NextRuleId(rules), exeOf[prompts[id].key], portOf[prompts[id].key],
                           prompts[id].answer_verdict, prompts[id].answer_scope)
<1>1. ~UNCHANGED ruleOf
  OBVIOUS
<1>2. PICK j \in answering : StoreAnswer(j)
  BY <1>1 DEF PolicyNext, DecideConnect, List, BeginAnswer, AddRule, DeleteRule,
              policyVars, ipcVars
<1> DEFINE a == prompts[j]
           new == IpcRule(NextRuleId(rules), exeOf[a.key], portOf[a.key],
                          a.answer_verdict, a.answer_scope)
<1>3. /\ Insertable(rules, new) /\ rules' = rules \cup {new}
      /\ ruleOf' = [ruleOf EXCEPT ![j] = @ \cup {new}] /\ UNCHANGED prompts
  BY <1>1, <1>2 DEF StoreAnswer, vars
<1>4. j = id /\ rule = new
  <2> HIDE DEF new
  <2> QED
    BY <1>3 DEF PolicyInv
<1> QED
  BY <1>3, <1>4

(* The new rule has an id above all others, so of the rules that constrain *)
(* no more than it does it is the one verdict_for() follows.               *)
LEMMA AnswerEffectStep ==
  ASSUME QueueInv, PolicyInv, [PolicyNext]_policyVars,
         NEW id \in 1 .. MaxId, NEW rule \in ruleOf'[id] \ ruleOf[id],
         \A r \in Matching(rules, ConnOf(prompts[id].key)) : Constrained(r) <= Constrained(rule)
  PROVE  VerdictFor(rules', ConnOf(prompts'[id].key)) = prompts[id].answer_verdict
<1> DEFINE k == prompts[id].key
           c == ConnOf(k)
<1>1. /\ UNCHANGED prompts /\ rules' = rules \cup {rule} /\ Insertable(rules, rule)
      /\ rule = IpcRule(NextRuleId(rules), exeOf[k], portOf[k],
                        prompts[id].answer_verdict, prompts[id].answer_scope)
  BY NewRule
<1>2. rule.id = NextRuleId(rules) /\ rule.verdict = prompts[id].answer_verdict
  BY <1>1 DEF IpcRule
<1>3. Matches(rule, c)
  BY <1>1, MadeMatches
<1>4. rule.id \in RuleId /\ \A r \in rules : r.id < rule.id
  BY <1>1, <1>2, NextRuleIdAbove, SMTT(60) DEF Insertable, PolicyInv
<1>5. Ranked(rules')
  BY <1>1, <1>4, RankedChanges DEF PolicyInv
<1>6. ASSUME NEW r \in Matching(rules', c) \ {rule} PROVE Outranks(rule, r)
  <2>1. r \in rules /\ r \in Matching(rules, c)
    BY <1>1 DEF Matching
  <2>2. Constrained(r) <= Constrained(rule) /\ r.id < rule.id
    BY <1>4, <2>1
  <2>3. Constrained(r) \in Nat /\ Constrained(rule) \in Nat
    BY ConstrainedType
  <2>4. r.id \in Nat /\ rule.id \in Nat
    BY <1>1, <1>5, <2>1, RankedIds
  <2> QED
    BY <2>2, <2>3, <2>4 DEF Outranks
<1>7. IsBest(rule, rules', c)
  BY <1>1, <1>3, <1>6 DEF IsBest, Matching
<1>8. VerdictFor(rules', c) = rule.verdict
  BY <1>5, <1>7, BestDecides
<1>9. prompts'[id].key = k
  BY <1>1
<1> QED
  BY <1>2, <1>8, <1>9

(* The rule persist_answered_rule inserts decides the next connect of the  *)
(* prompt's key, whatever rules were there, unless one constrains more.    *)
THEOREM AnswersTakeEffect == PolicySpec => AnswerTakesEffect
<1>1. QueueInv /\ PolicyInv /\ [PolicyNext]_policyVars =>
        [\A id \in 1 .. MaxId : \A rule \in ruleOf'[id] \ ruleOf[id] :
           LET k == prompts[id].key IN
           (\A r \in Matching(rules, ConnOf(k)) : Constrained(r) <= Constrained(rule))
             => RuleVerdictOn(k)' = prompts[id].answer_verdict]_policyVars
  BY AnswerEffectStep DEF RuleVerdictOn
<1> QED
  BY <1>1, PolicyInvariant, PTL DEF PolicySpec, AnswerTakesEffect

(* A key whose answered rule is held gets a verdict from the rules, and    *)
(* only an operator's "prompt" rule can make that verdict a prompt.        *)
LEMMA AnsweredVerdict ==
  ASSUME PolicyInv, NEW id \in stored, NEW k, k = prompts[id].key,
         ruleOf[id] # {}, ruleOf[id] \subseteq rules,
         \A r \in Matching(rules, ConnOf(k)) : r.verdict # "Prompt"
  PROVE  RuleVerdictOn(k) # "Prompt"
<1> DEFINE c == ConnOf(k)
<1>1. PICK r \in ruleOf[id] : Made(id, r)
  BY DEF PolicyInv
<1>2. Matches(r, c)
  <2>1. PICK i, s : r = IpcRule(i, exeOf[k], portOf[k], prompts[id].answer_verdict, s)
    BY <1>1, Zenon DEF Made
  <2> QED
    BY <2>1, MadeMatches, Zenon
<1>3. Matching(rules, c) # {} /\ Ranked(rules)
  BY <1>2 DEF Matching, PolicyInv
<1>4. PICK b \in rules : IsBest(b, rules, c)
  BY <1>3, BestExists
<1>5. b \in Matching(rules, c)
  BY <1>4 DEF IsBest
<1>6. VerdictFor(rules, c) = b.verdict
  BY <1>3, <1>4, BestDecides
<1> QED
  BY <1>5, <1>6 DEF RuleVerdictOn

(* The only step that opens a prompt is a connect of its key that the      *)
(* rules want asked about.                                                 *)
LEMMA NewPrompt ==
  ASSUME QueueInv, [PolicyNext]_policyVars, next_id' = next_id + 1
  PROVE  RuleVerdictOn(prompts'[next_id].key) = "Prompt"
<1>1. next_id \in Nat /\ next_id # next_id + 1
  BY DEF QueueInv, TypeOK
<1>2. ~KeepQueue /\ next_id' # next_id
  BY <1>1 DEF KeepQueue
<1>3. PICK k \in Key : DecideConnect(k)
  BY <1>2, ZenonT(40) DEF PolicyNext, List, ListPending, BeginAnswer, Answer, AnswerRefused,
              AnswerPending, StoreAnswer, AddRule, DeleteRule, Tick, policyVars, vars
<1>4. RuleVerdictOn(k) = "Prompt" /\ Create(k)
  BY <1>2, <1>3 DEF DecideConnect, Decide, TakeOnceAllow, ConsumeOnceDeny, DedupeOrFull
<1>5. prompts'[next_id].key = k
  BY <1>4 DEF Create, MapInsert
<1> QED
  BY <1>4, <1>5

(* Once a lasting answer was replied Pong, and while its rule is held, no  *)
(* connect of the key opens a prompt again, unless an operator's "prompt"  *)
(* rule matches it.                                                        *)
THEOREM NeverAskedAgain == PolicySpec => NotAskedAgain
<1>1. ASSUME QueueInv, PolicyInv, [PolicyNext]_policyVars, NEW id \in stored,
             ruleOf[id] # {}, ruleOf[id] \subseteq rules,
             \A r \in Matching(rules, ConnOf(prompts[id].key)) : r.verdict # "Prompt",
             next_id' = next_id + 1, prompts'[next_id].key = prompts[id].key
      PROVE  FALSE
  <2>1. PICK k : k = prompts[id].key
    OBVIOUS
  <2>2. RuleVerdictOn(k) # "Prompt"
    BY <1>1, <2>1, AnsweredVerdict
  <2>3. RuleVerdictOn(prompts'[next_id].key) = "Prompt"
    BY <1>1, NewPrompt
  <2> QED
    BY <1>1, <2>1, <2>2, <2>3
<1>2. QueueInv /\ PolicyInv /\ [PolicyNext]_policyVars =>
        [\A id \in stored :
           LET k == prompts[id].key IN
           ( /\ ruleOf[id] # {} /\ ruleOf[id] \subseteq rules
             /\ \A r \in Matching(rules, ConnOf(k)) : r.verdict # "Prompt" )
           => ~(next_id' = next_id + 1 /\ prompts'[next_id].key = k)]_policyVars
  BY <1>1
<1> QED
  BY <1>2, PolicyInvariant, PTL DEF PolicySpec, NotAskedAgain

(* A lasting answer decides the next connect of its key and all later      *)
(* ones.                                                                   *)
THEOREM LastingAnswersDecide == PolicySpec => AnswersDecide
  BY AnswersTakeEffect, NeverAskedAgain DEF AnswersDecide
=============================================================================
