---------------------------- MODULE DaemonLocks ----------------------------
(***************************************************************************)
(* The mutexes of Shared (shared.rs) in the order the daemon's handlers    *)
(* take and release them.  A MutexGuard lives to the end of its scope, and *)
(* guards of one scope are dropped in reverse order.  One observer thread  *)
(* handles events, one NFQUEUE thread looks verdicts up, and each IPC      *)
(* connection has a thread that handles one request.                       *)
(***************************************************************************)
EXTENDS Sequences, SequencesExt

(* take these mutexes in order, hold them all, release them in reverse *)
Nested(locks) ==
  [i \in 1 .. Len(locks) |-> <<"acquire", locks[i]>>]
    \o [i \in 1 .. Len(locks) |-> <<"release", Reverse(locks)[i]>>]

SharedLocks == {"rules", "process_cache", "prompts", "dns", "recent",
                "pending", "stats", "audit"}

(* observe.rs handle_event *)
HandleEvent ==
  Nested(<<"rules", "process_cache", "prompts", "dns", "recent">>)
    \o Nested(<<"pending">>) \o Nested(<<"stats">>) \o Nested(<<"audit">>)

(* nfqueue_live.rs lookup_verdict: one attempt, and another *)
LookupVerdict == Nested(<<"pending">>) \o Nested(<<"pending">>)

(* ipc.rs *)
StatsSummary == Nested(<<"stats", "rules">>)
StatsList    == Nested(<<"stats">>)
RuleList     == Nested(<<"rules">>)
RuleMutate   == Nested(<<"rules">>)
PromptList   == Nested(<<"prompts">>)
DnsListNote  == Nested(<<"dns">>)
AuditTail    == Nested(<<"audit">>)

(* Defect: `prompts` is still held when the rule is stored. *)
BugNoDrop == Nested(<<"prompts", "rules">>)
PromptAnswer == Nested(<<"prompts">>) \o Nested(<<"rules">>)

(* the subscription, then, on the subscriber's own thread, its removal *)
AuditSubscribe == Nested(<<"audit">>) \o Nested(<<"audit">>)

ProcessList == Nested(<<"process_cache", "recent", "rules">>)

(* Requests other than process-list that take a mutex. *)
Requests ==
  {StatsSummary, StatsList, RuleList, RuleMutate, PromptList, DnsListNote,
   AuditTail, PromptAnswer, AuditSubscribe}
=============================================================================
