----------------------------- MODULE IpcService -----------------------------
(***************************************************************************)
(* One request over the socket as a client sees it (ipc.rs): the frame is  *)
(* parsed, the peer's right to change anything is checked, and the request *)
(* is carried out on the daemon's state and answered.                      *)
(*                                                                         *)
(* The daemon is a record: its rules, prompts, processes and statistics in *)
(* the order the daemon lists them, the rules on file, the preferences,    *)
(* the queue's binding and the counters of stats-summary.  PromptQueue,    *)
(* RuleStore and Enforcement look inside these; here each handler is one   *)
(* step with its outcome, and a fault says which of its system calls       *)
(* failed: "none", "store" a file or "apply" the table.  AuditLog and      *)
(* Observation have the audit and DNS requests.                            *)
(***************************************************************************)
EXTENDS Wire

CONSTANTS DaemonUid,
          GroupMembers  \* uids in group interfire now, {} if there is no such group

ASSUME ServiceAssumption == DaemonUid \in Nat /\ GroupMembers \subseteq Nat

Directions == {"out", "in", "all"}
Preferences == Directions \cup {"open"}
Scopes == {"once", "session", "permanent"}

(* uid_may_mutate: the group database is looked up at each request. *)
MayMutate(uid) == uid = 0 \/ uid = DaemonUid \/ uid \in GroupMembers

Answered(d, reply) == [daemon |-> d, reply |-> reply]
Refuse(d, code) == Answered(d, Error(code))

RuleIds(rules) == {rules[i].id : i \in DOMAIN rules}
IsAbsolute(text) == text # <<>> /\ Head(text) = "/"
CanInsert(rules, r) == IsAbsolute(r.executable) /\ r.id \notin RuleIds(rules)
FreshRuleId(rules) ==
  IF rules = <<>> THEN 1 ELSE 1 + CHOOSE n \in RuleIds(rules) : \A k \in RuleIds(rules) : k <= n

(* The verdict names of the requests, and as {:?} prints them. *)
VerdictName == [allow |-> "Allow", deny |-> "Deny", prompt |-> "Prompt"]
Named(text) == Len(text) = 1 /\ text[1] \in DOMAIN VerdictName

(* The whole set is written.  The change stays in memory when it cannot be. *)
Saved(d, fault) ==
  IF fault = "store" THEN Refuse(d, "persistence_failed")
  ELSE Answered([d EXCEPT !.saved = d.rules], Pong)

RuleDelete(d, q, fault) ==
  IF q.id \notin RuleIds(d.rules) THEN Refuse(d, "rule_not_found")
  ELSE Saved([d EXCEPT !.rules = SelectSeq(@, LAMBDA r : r.id # q.id)], fault)

RuleAdd(d, q, fault) ==
  LET rule == [id |-> q.id, executable |-> q.executable,
               verdict |-> VerdictName[q.verdict[1]], port |-> q.port]
  IN IF ~Named(q.verdict) THEN Refuse(d, "invalid_verdict")
     ELSE IF ~CanInsert(d.rules, rule) THEN Refuse(d, "invalid_rule")
     ELSE Saved([d EXCEPT !.rules = Append(@, rule)], fault)

(* The first answer counts; a later one for the same prompt is acknowledged *)
(* and changes nothing.                                                    *)
PromptAnswer(d, q, fault) ==
  LET at == {i \in DOMAIN d.prompts : d.prompts[i].id = q.id}
      i == CHOOSE n \in at : TRUE
      p == d.prompts[i]
      answered == [d EXCEPT !.prompts[i].state = q.verdict[1]]
      rule == [id |-> FreshRuleId(d.rules), executable |-> p.executable,
               verdict |-> VerdictName[q.verdict[1]], port |-> 1]
      kept == [answered EXCEPT !.rules = Append(@, rule)]
      refusal == CASE at = {} -> "prompt_not_found"
                   [] at # {} /\ p.state = "expired" -> "prompt_expired"
                   [] OTHER -> "none"
  IN IF q.verdict \notin {<<"allow">>, <<"deny">>} THEN Refuse(d, "invalid_verdict")
     ELSE IF q.scope \notin {<<s>> : s \in Scopes} THEN Refuse(d, "invalid_scope")
     ELSE IF refusal # "none" THEN Refuse(d, refusal)
     ELSE IF p.state \in {"allow", "deny"} THEN Answered(d, Pong)
     ELSE IF q.scope = <<"once">> THEN Answered(answered, Pong)
     ELSE IF ~CanInsert(d.rules, rule) THEN Refuse(answered, "invalid_rule")
     ELSE IF q.scope = <<"permanent">> THEN Saved(kept, fault)
     ELSE Answered(kept, Pong)

(* A preference is stored, then the table is rebuilt. *)
Applied(d, after, fault, code) ==
  CASE fault = "store" -> Refuse(d, code)
    [] fault = "apply" -> Refuse(after, code)
    [] OTHER -> Answered(after, Pong)

Pause(d, fault, code) == Applied(d, [d EXCEPT !.paused = TRUE], fault, code)
Resume(d, fault, code) ==
  IF d.bind # "nfqueue" THEN Refuse(d, code)
  ELSE Applied(d, [d EXCEPT !.paused = FALSE], fault, code)

Traffic(d, q, uid, fault) ==
  LET code == IF q.direction = "open" THEN "traffic_unblock_failed" ELSE "traffic_block_failed"
  IN IF q.scope = "machine"
     THEN IF uid # 0 THEN Refuse(d, "unauthorized")
          ELSE Applied(d, [d EXCEPT !.machine = q.direction], fault, code)
     ELSE Applied(d, [d EXCEPT !.user[uid] = q.direction], fault, code)
-----------------------------------------------------------------------------
(* What the lists and the status show                                      *)

Blocked(preference) == preference # "open"
(* traffic_mode::effective and label: the machine's block wins. *)
Effective(d, uid) ==
  CASE Blocked(d.machine) -> "machine:" \o d.machine
    [] ~Blocked(d.machine) /\ Blocked(d.user[uid]) -> "user:" \o ToString(uid) \o ":" \o d.user[uid]
    [] OTHER -> "open"
AnyBlock(d) == Blocked(d.machine) \/ \E u \in DOMAIN d.user : Blocked(d.user[u])

StatusBody(d, uid) ==
  [enforcement |-> IF d.paused THEN "paused" ELSE d.bind, observation |-> "attached",
   traffic |-> IF AnyBlock(d) THEN "blocked" ELSE "open",
   machine |-> d.machine, user |-> d.user[uid], effective |-> Effective(d, uid)]

(* The table after reapply_table, as classify_list_output names it. *)
WantsOut(preference) == preference \in {"out", "all"}
NetworkBody(d) ==
  LET queued == ~d.paused /\ d.bind = "nfqueue" /\ ~WantsOut(d.machine)
      drops == WantsOut(d.machine) \/ \E u \in DOMAIN d.user : WantsOut(d.user[u])
  IN CASE queued -> [state |-> "installed", rule |-> "tcp_new_queue"]
       [] ~queued /\ drops -> [state |-> "installed", rule |-> "tcp_new_drop"]
       [] ~queued /\ ~drops /\ AnyBlock(d) -> [state |-> "incomplete", rule |-> "none"]
       [] OTHER -> [state |-> "missing", rule |-> "none"]

Pending(d) == SelectSeq(d.prompts, LAMBDA p : p.state = "pending")

(* dispatch: what is only read, and what peer_may_mutate guards. *)
Reading(d, uid, q) ==
  CASE q.is = "ping" -> Pong
    [] q.is = "status" -> StatusFrame(StatusBody(d, uid))
    [] q.is = "rule-list" -> RulesFrame(d.rules)
    [] q.is = "prompt-list" -> PromptsFrame(Pending(d))
    [] q.is = "process-list" -> ProcessesFrame(d.processes)
    [] q.is = "network-status" -> NetworkFrame(NetworkBody(d))
    [] q.is = "stats-summary" ->
         SummaryFrame([connections |-> d.connections, denied |-> d.denied,
                       rules |-> Len(d.rules)])
    [] q.is \in DOMAIN d.stats -> StatsFrame(q.is, d.stats[q.is])
    [] q.is = "malformed_request" -> Error(q.is)

Mutations == {"rule-delete", "rule-add", "prompt-answer", "network-install",
              "network-remove", "pause", "resume", "traffic-block", "traffic-unblock"}
Mutating(d, uid, q, fault) ==
  CASE q.is = "rule-delete" -> RuleDelete(d, q, fault)
    [] q.is = "rule-add" -> RuleAdd(d, q, fault)
    [] q.is = "prompt-answer" -> PromptAnswer(d, q, fault)
    [] q.is = "network-install" -> Resume(d, fault, "nft_install_failed")
    [] q.is = "network-remove" -> Pause(d, fault, "nft_remove_failed")
    [] q.is = "pause" -> Pause(d, fault, "pause_failed")
    [] q.is = "resume" -> Resume(d, fault, "resume_failed")
    [] q.is \in {"traffic-block", "traffic-unblock"} -> Traffic(d, q, uid, fault)

Dispatch(d, uid, q, fault) ==
  IF q.is \notin Mutations THEN Answered(d, Reading(d, uid, q))
  ELSE IF MayMutate(uid) THEN Mutating(d, uid, q, fault)
  ELSE Refuse(d, "unauthorized")

(* handle: one line in, one line out. *)
Handle(d, uid, frame, fault) ==
  IF Len(frame) > MaxFrame THEN Refuse(d, "frame_too_large")
  ELSE Dispatch(d, uid, ParseRequest(Received(frame)), fault)

-----------------------------------------------------------------------------
(* interfirectl: its arguments, each a text, as the frame it sends, or no  *)
(* frame and the usage message.                                            *)

NoCommand == <<>>
Frame(words) == Line(<< <<"v1">> >> \o words)

CtlTraffic(action, rest) ==
  LET scope == IF Field(rest, "--scope=") = Absent THEN <<"user">> ELSE Field(rest, "--scope=")
      direction == IF Field(rest, "--direction=") = Absent THEN <<"out">>
                                                           ELSE Field(rest, "--direction=")
  IN CASE \/ ~OnlyKeys(rest, {"--scope=", "--direction="})
          \/ scope \notin {<<"user">>, <<"machine">>} -> NoCommand
       [] action = <<"block">> /\ direction \in {<<w>> : w \in Directions} ->
            Frame(<< <<"traffic-block">>, <<"scope=">> \o scope, <<"direction=">> \o direction>>)
       [] action = <<"unblock">> -> Frame(<< <<"traffic-unblock">>, <<"scope=">> \o scope>>)
       [] OTHER -> NoCommand

(* The commands that take fixed words, then those that take values. *)
CtlFixed ==
  [status |-> << <<"status">> >>, ping |-> << <<"ping">> >>,
   pause |-> << <<"pause">> >>, resume |-> << <<"resume">> >>]
CtlPairs ==
  { << "rules", "list", "rule-list" >>, << "prompts", "list", "prompt-list" >>,
    << "dns", "list", "dns-list" >>, << "audit", "tail", "audit-tail" >>,
    << "network", "status", "network-status" >>, << "traffic", "status", "status" >>,
    << "network", "install", "network-install" >>, << "network", "remove", "network-remove" >> }

CtlFrame(args) ==
  LET n == Len(args)
      is(noun, verb) == n >= 2 /\ args[1] = <<noun>> /\ args[2] = <<verb>>
      rest == SubSeq(args, 3, n)
  IN CASE n = 0 -> Frame(CtlFixed.status)
       [] n = 1 /\ Len(args[1]) = 1 /\ args[1][1] \in DOMAIN CtlFixed -> Frame(CtlFixed[args[1][1]])
       [] n = 2 /\ \E c \in CtlPairs : is(c[1], c[2]) ->
            Frame(<< <<(CHOOSE c \in CtlPairs : is(c[1], c[2]))[3]>> >>)
       [] n >= 2 /\ args[1] = <<"traffic">> /\ ~(n = 2 /\ is("traffic", "status")) -> CtlTraffic(args[2], rest)
       [] is("rules", "add") /\ n = 6 /\ IsNumber(args[3]) /\ IsNumber(args[6]) ->
            Frame(<< <<"rule-add">> >> \o rest)
       [] is("rules", "delete") /\ n = 3 /\ IsNumber(args[3]) -> Frame(<< <<"rule-delete">> >> \o rest)
       [] /\ is("prompts", "answer") /\ n = 5 /\ IsNumber(args[3])
          /\ args[4] \in {<<"allow">>, <<"deny">>}
          /\ args[5] \in {<<"once">>, <<"session">>, <<"permanent">>} ->
            Frame(<< <<"prompt-answer">> >> \o rest)
       [] is("dns", "note") /\ (n = 4 \/ (n = 5 /\ IsNumber(args[5]))) ->
            Frame(<< <<"dns-note">> >> \o rest)
       [] is("audit", "tail") /\ n = 3 /\ IsNumber(args[3]) -> Frame(<< <<"audit-tail">> >> \o rest)
       [] is("audit", "subscribe") /\ (n = 3 \/ (n = 4 /\ Head(args[4]) = "since=")) ->
            Frame(<< <<"audit-subscribe">> >> \o rest)
       [] OTHER -> NoCommand
=============================================================================
