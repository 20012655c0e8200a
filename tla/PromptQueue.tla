---------------------------- MODULE PromptQueue ----------------------------
(***************************************************************************)
(* The daemon's prompt queue (prompts.rs) driven by its two callers: the   *)
(* observer thread deciding an attributed connect (policy.rs,              *)
(* decide_attributed) and IPC threads listing and answering prompts        *)
(* (ipc.rs).  Each caller holds the `prompts` mutex for the whole call, so *)
(* a call is one step; time passes between calls.  A clock read inside a   *)
(* call returns the time of the call.                                      *)
(*                                                                         *)
(* Every public method starts with expire().  With the clock fixed a       *)
(* second expire() changes nothing, so the three calls of a decide         *)
(* (take_once_allow, consume_once_deny, enqueue) share one.                *)
(***************************************************************************)
EXTENDS Integers, FiniteSets, Sequences, Maps

CONSTANTS Key,       \* PromptKey: (executable, ipv4, port)
          Capacity,  \* MAX_PENDING_PROMPTS
          Ttl,       \* lifetime of a prompt and of an allow-once token
          MaxId,     \* bound: ids handed out
          MaxNow     \* bound: clock

ASSUME PromptQueueAssumption ==
  /\ Capacity \in Nat \ {0}
  /\ Ttl \in Nat
  /\ MaxId \in Nat
  /\ MaxNow \in Nat

VARIABLES now, next_id, order, prompts, pending_by_key,
          once_allows, once_denies,
          granted      \* history: connects accepted on a once-allow token

vars == <<now, next_id, order, prompts, pending_by_key,
          once_allows, once_denies, granted>>

RuleVerdict == {"Allow", "Deny", "Prompt"}
Verdict     == {"Allow", "Deny"}
RuleScope   == {"Once", "Session", "Permanent"}

Prompt == [key : Key, state : {"Pending", "Answered", "Expired"},
           expires_at : Nat,
           answer_verdict : Verdict \cup {"None"},
           answer_scope : RuleScope \cup {"None"}]

TypeOK ==
  /\ now \in Nat
  /\ next_id \in Nat \ {0}
  /\ prompts \in [1 .. next_id - 1 -> Prompt]
  /\ IsMap(pending_by_key, Key, 1 .. next_id - 1)
  /\ IsMap(once_allows, Key, Nat)
  /\ once_denies \in SUBSET Key
  /\ granted \in [Key -> Nat]

Init ==
  /\ now = 0
  /\ next_id = 1
  /\ order = <<>>
  /\ prompts = EmptyMap
  /\ pending_by_key = EmptyMap
  /\ once_allows = EmptyMap
  /\ once_denies = {}
  /\ granted = [k \in Key |-> 0]

-----------------------------------------------------------------------------
(* expire(): the tables as every call first leaves them. *)

Overdue ==
  {id \in DOMAIN prompts : /\ prompts[id].state = "Pending"
                           /\ now > prompts[id].expires_at}

(* Defect: deadlines are never looked at. *)
BugNoExpiry == prompts
ExpiredPrompts ==
  [id \in DOMAIN prompts |->
     IF id \in Overdue THEN [prompts[id] EXCEPT !.state = "Expired"]
                       ELSE prompts[id]]

(* Defect: an expired prompt keeps its index entry. *)
BugIndexKept == pending_by_key
ExpiredPendingByKey ==
  MapRemove(pending_by_key, {prompts[id].key : id \in Overdue})

ExpiredOrder ==
  SelectSeq(order, LAMBDA id : /\ id \in DOMAIN prompts
                               /\ ExpiredPrompts[id].state = "Pending")

ExpiredOnceAllows ==
  Restrict(once_allows,
           {k \in DOMAIN once_allows : now <= once_allows[k] + Ttl})

ExpiredOnceDenies ==
  IF Cardinality(once_denies) > Capacity THEN {} ELSE once_denies

(* The parts of the state a call leaves as expire() left them. *)
KeepQueue ==
  /\ prompts' = ExpiredPrompts
  /\ pending_by_key' = ExpiredPendingByKey
  /\ order' = ExpiredOrder
  /\ next_id' = next_id
KeepTokens ==
  /\ once_allows' = ExpiredOnceAllows
  /\ once_denies' = ExpiredOnceDenies
KeepGranted == now' = now /\ granted' = granted

-----------------------------------------------------------------------------
(* decide_attributed, in its order: once-allow token, once-deny token,     *)
(* rules, and a prompt when the rules say so.                              *)

(* Defect: the token is read, not removed. *)
BugTokenKept(k) == ExpiredOnceAllows
Spent(k) == MapRemove(ExpiredOnceAllows, {k})

TakeOnceAllow(k) ==
  /\ k \in DOMAIN ExpiredOnceAllows
  /\ once_allows' = Spent(k)
  /\ granted' = [granted EXCEPT ![k] = @ + 1]
  /\ once_denies' = ExpiredOnceDenies
  /\ now' = now
  /\ KeepQueue

ConsumeOnceDeny(k) ==
  /\ k \notin DOMAIN ExpiredOnceAllows
  /\ k \in ExpiredOnceDenies
  /\ once_denies' = ExpiredOnceDenies \ {k}
  /\ once_allows' = ExpiredOnceAllows
  /\ KeepQueue
  /\ KeepGranted

NoToken(k) == k \notin DOMAIN ExpiredOnceAllows \cup ExpiredOnceDenies

HasRoom == Cardinality(DOMAIN ExpiredPendingByKey) < Capacity

IdAfter == next_id + 1
OrderAfter == Append(ExpiredOrder, next_id)

(* EnqueueOutcome::Created *)
Create(k) ==
  /\ k \notin DOMAIN ExpiredPendingByKey
  /\ HasRoom
  /\ next_id <= MaxId
  /\ next_id' = IdAfter
  /\ prompts' = MapInsert(ExpiredPrompts, next_id,
                          [key |-> k, state |-> "Pending",
                           expires_at |-> now + Ttl,
                           answer_verdict |-> "None",
                           answer_scope |-> "None"])
  /\ order' = OrderAfter
  /\ pending_by_key' = MapInsert(ExpiredPendingByKey, k, next_id)

(* EnqueueOutcome::Deduped and EnqueueOutcome::Full *)
DedupeOrFull(k) ==
  /\ k \in DOMAIN ExpiredPendingByKey \/ ~HasRoom
  /\ KeepQueue

Decide(k, rule_verdict) ==
  \/ TakeOnceAllow(k)
  \/ ConsumeOnceDeny(k)
  \/ /\ NoToken(k)
     /\ \/ rule_verdict # "Prompt" /\ KeepQueue
        \/ rule_verdict = "Prompt" /\ (Create(k) \/ DedupeOrFull(k))
     /\ KeepTokens
     /\ KeepGranted

-----------------------------------------------------------------------------
(* IPC: prompt-list and prompt-answer. *)

(* Defect: listing does not expire. *)
BugListOnly == UNCHANGED vars
ListPending == KeepQueue /\ KeepTokens /\ KeepGranted

(* AnswerError::NotFound, AnswerError::Expired, and an answer to a prompt  *)
(* that already has one: the reply differs, the queue does not.            *)
AnswerRefused(id) ==
  /\ id \in DOMAIN prompts =>
       ExpiredPrompts[id].state \in {"Expired", "Answered"}
  /\ KeepQueue
  /\ KeepTokens

(* Defect: any allow is a token. *)
BugAnyScope(verdict, scope) == verdict = "Allow"
Answerable(id) == ExpiredPrompts[id].state = "Pending"
GivesToken(verdict, scope) == verdict = "Allow" /\ scope = "Once"

AnswerPending(id, verdict, scope) ==
  /\ id \in DOMAIN prompts
  /\ Answerable(id)
  /\ LET key == prompts[id].key IN
       /\ prompts' = [ExpiredPrompts EXCEPT ![id].state = "Answered",
                                            ![id].answer_verdict = verdict,
                                            ![id].answer_scope = scope]
       /\ pending_by_key' = MapRemove(ExpiredPendingByKey, {key})
       /\ once_allows' = IF GivesToken(verdict, scope)
                         THEN MapInsert(ExpiredOnceAllows, key, now)
                         ELSE ExpiredOnceAllows
       /\ once_denies' = IF verdict = "Deny" /\ scope = "Once"
                         THEN ExpiredOnceDenies \cup {key}
                         ELSE ExpiredOnceDenies
  /\ order' = ExpiredOrder
  /\ next_id' = next_id

Answer(id, verdict, scope) ==
  /\ AnswerRefused(id) \/ AnswerPending(id, verdict, scope)
  /\ KeepGranted

Tick ==
  /\ now < MaxNow
  /\ now' = now + 1
  /\ UNCHANGED <<next_id, order, prompts, pending_by_key,
                 once_allows, once_denies, granted>>

Next ==
  \/ \E k \in Key, rv \in RuleVerdict : Decide(k, rv)
  \/ ListPending
  \/ \E id \in 1 .. MaxId, v \in Verdict, s \in RuleScope : Answer(id, v, s)
  \/ Tick

Spec == Init /\ [][Next]_vars

(* The TUI and the UI poll prompt-list for as long as they run, so the     *)
(* queue is called again and again; nothing forces connects or answers.    *)
FairSpec == Spec /\ WF_vars(ListPending)

-----------------------------------------------------------------------------
(* Properties. *)

PendingIds == {id \in DOMAIN prompts : prompts[id].state = "Pending"}

AllowOnceAnswers(k) ==
  {id \in DOMAIN prompts : /\ prompts[id].key = k
                           /\ prompts[id].answer_verdict = "Allow"
                           /\ prompts[id].answer_scope = "Once"}

(* The dedupe index and the prompts agree in both directions: every indexed
   key points at its own Pending prompt, every Pending prompt is indexed.
   expire() and answer() each drop an index entry by key, not by id: were the
   two ever to differ, a live prompt would lose its entry and a duplicate
   would be shown for it. *)
PendingIndexExact ==
  /\ \A k \in DOMAIN pending_by_key :
        /\ pending_by_key[k] \in PendingIds
        /\ prompts[pending_by_key[k]].key = k
  /\ \A id \in PendingIds :
        /\ prompts[id].key \in DOMAIN pending_by_key
        /\ pending_by_key[prompts[id].key] = id

(* enqueue()'s cap: at no time are more than Capacity prompts Pending. *)
PendingBounded == Cardinality(PendingIds) <= Capacity

(* A key never stands in two places: no allow-once token beside a deny-once
   token, and no token beside a question still open for the same key.  It
   rests on decide_attributed trying both tokens before it can enqueue. *)
OneStandingPerKey ==
  /\ DOMAIN once_allows \cap once_denies = {}
  /\ DOMAIN once_allows \cap DOMAIN pending_by_key = {}
  /\ once_denies \cap DOMAIN pending_by_key = {}

(* "Once" means once: connects accepted on a token, plus the token still
   unspent, never outnumber the operator's allow-once answers for that key. *)
OnceMeansOnce ==
  \A k \in Key :
    granted[k] + (IF k \in DOMAIN once_allows THEN 1 ELSE 0)
      <= Cardinality(AllowOnceAnswers(k))

(* Deny-once tokens have no deadline; expire() sheds them all when there are
   more than Capacity, which keeps them within one of it. *)
DenyTokensBounded == Cardinality(once_denies) <= Capacity + 1

(* The maps of PromptQueue agree with each other after any sequence of calls:
   the index with the prompts, the prompts with the cap, the tokens with the
   index and with their cap. *)
QueueConsistent ==
  /\ TypeOK /\ PendingIndexExact /\ PendingBounded
  /\ OneStandingPerKey /\ DenyTokensBounded

(* An answer or an expiry is final: no later call changes a settled prompt,
   so a duplicate answer() is always told the first decision. *)
SettledStays ==
  [][\A id \in DOMAIN prompts :
       prompts[id].state # "Pending" =>
         id \in DOMAIN prompts' /\ prompts'[id] = prompts[id]]_vars

(* A prompt is answered only within its lifetime, although expiry is noticed
   lazily: a late prompt-answer on a prompt still marked Pending is refused. *)
AnsweredInTime ==
  [][\A id \in PendingIds :
       prompts'[id].state = "Answered" => now <= prompts[id].expires_at]_vars

(* What answer() recorded stands, and it was recorded in time, whatever
   retries, late and contradicting answers follow. *)
AnswersFinal == SettledStays /\ AnsweredInTime

(* The queue implements the one-shot consent of OnceConsent. *)
Consent == INSTANCE OnceConsent WITH
  consent <- [k \in Key |-> IF k \in DOMAIN once_allows THEN "allow"
                            ELSE IF k \in once_denies THEN "deny"
                            ELSE IF k \in DOMAIN pending_by_key THEN "asked"
                            ELSE "none"],
  given   <- [k \in Key |-> Cardinality(AllowOnceAnswers(k))]

(* Every behaviour of the queue is one of OnceConsent: an allow-once token
   appears only as the answer to an open question and is spent at most once. *)
ImplementsConsent == Consent!ConsentSpec

(* A prompt past its deadline is marked Expired as long as some client keeps
   polling prompt-list, so the slot it holds under the cap comes back. *)
OverdueExpires ==
  \A id \in 1 .. MaxId :
    id \in Overdue ~> (id \in DOMAIN prompts /\ prompts[id].state = "Expired")
=============================================================================
