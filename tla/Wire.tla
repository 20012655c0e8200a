-------------------------------- MODULE Wire --------------------------------
(***************************************************************************)
(* The line protocol between the daemon and its clients (interfire-proto): *)
(* requests, responses and the rows of list responses, as they are written *)
(* by one side and read by the other.                                      *)
(*                                                                         *)
(* A text is a sequence of symbols: separators, letters, numerals and      *)
(* whole words.  Splitting, escaping and parsing work on these symbols as  *)
(* the code works on characters, so a separator inside a path does what it *)
(* does there.                                                             *)
(***************************************************************************)
EXTENDS Integers, Sequences, FiniteSets, TLC, SequencesExt

CONSTANT MaxFrame  \* MAX_FRAME_BYTES, in symbols

(* The numbers that occur: ids, ports, seconds, counters.  A numeral that  *)
(* is no member stands for a value that the field's type cannot hold.      *)
Number == 0 .. 9
Numeral(n) == <<ToString(n)>>
NotANumber == -1
ParseNumber(text) ==
  IF \E n \in Number : text = Numeral(n) THEN CHOOSE n \in Number : text = Numeral(n)
                                         ELSE NotANumber

(* splitn: the parts between the first n - 1 separators. *)
SplitN(text, sep, n) ==
  LET at == SelectSeq([i \in DOMAIN text |-> i], LAMBDA i : text[i] = sep)
      cuts == SubSeq(at, 1, IF Len(at) < n THEN Len(at) ELSE n - 1)
      ends == <<0>> \o cuts \o <<Len(text) + 1>>
  IN [k \in 1 .. Len(cuts) + 1 |-> SubSeq(text, ends[k] + 1, ends[k + 1] - 1)]
Split(text, sep) == SplitN(text, sep, Len(text) + 1)
Join(texts, sep) ==
  FlattenSeq([i \in DOMAIN texts |-> IF i = 1 THEN texts[1] ELSE <<sep>> \o texts[i]])
Words(text) == SelectSeq(Split(text, " "), LAMBDA w : w # <<>>)
Line(words) == Join(words, " ")

(* The value of the last field that starts with key, or Absent. *)
Absent == <<"absent">>
Field(fields, key) ==
  LET hits == SelectSeq(fields, LAMBDA f : Head(f) = key)
  IN IF hits = <<>> THEN Absent ELSE Tail(Last(hits))
OnlyKeys(fields, keys) == \A i \in DOMAIN fields : Head(fields[i]) \in keys
KeyEquals == {"scope=", "direction=", "since=", "enforcement=", "observation=",
              "traffic=", "traffic_machine=", "traffic_user=", "traffic_effective=",
              "ipc_version=", "pid=", "connections=", "denied=", "rules=",
              "uptime_secs=", "table=", "queue=", "state=", "rule="}

-----------------------------------------------------------------------------
(* Request::parse                                                          *)

Malformed == [is |-> "malformed_request"]

BareCommands ==
  {"ping", "status", "rule-list", "prompt-list", "dns-list", "process-list",
   "network-status", "network-install", "network-remove", "pause", "resume",
   "stats-summary", "stats-hosts", "stats-procs", "stats-addrs", "stats-ports",
   "stats-users"}

ParseTraffic(command, args) ==
  LET keys == IF command = "traffic-block" THEN {"scope=", "direction="} ELSE {"scope="}
      scope == Field(args, "scope=")
      direction == Field(args, "direction=")
  IN IF /\ OnlyKeys(args, keys)
        /\ scope \in {<<"user">>, <<"machine">>}
        /\ command = "traffic-block" => direction \in {<<"out">>, <<"in">>, <<"all">>}
     THEN [is |-> command, scope |-> scope[1],
           direction |-> IF command = "traffic-block" THEN direction[1] ELSE "open"]
     ELSE Malformed

ParseRuleDelete(args) ==
  IF Len(args) = 1 /\ ParseNumber(args[1]) # NotANumber
  THEN [is |-> "rule-delete", id |-> ParseNumber(args[1])]
  ELSE Malformed

ParseRuleAdd(args) ==
  IF /\ Len(args) = 4
     /\ ParseNumber(args[1]) # NotANumber /\ ParseNumber(args[4]) # NotANumber
  THEN [is |-> "rule-add", id |-> ParseNumber(args[1]), executable |-> args[2],
        verdict |-> args[3], port |-> ParseNumber(args[4])]
  ELSE Malformed

ParsePromptAnswer(args) ==
  IF Len(args) = 3 /\ ParseNumber(args[1]) # NotANumber
  THEN [is |-> "prompt-answer", id |-> ParseNumber(args[1]), verdict |-> args[2],
        scope |-> args[3]]
  ELSE Malformed

ParseDnsNote(args) ==
  IF Len(args) = 2 \/ (Len(args) = 3 /\ ParseNumber(args[3]) # NotANumber)
  THEN [is |-> "dns-note", hostname |-> args[1], ipv4 |-> args[2],
        ttl |-> IF Len(args) = 3 THEN ParseNumber(args[3]) ELSE NotANumber]
  ELSE Malformed

ParseAuditTail(args) ==
  CASE Len(args) = 0 -> [is |-> "audit-tail", limit |-> NotANumber]
    [] Len(args) = 1 /\ ParseNumber(args[1]) # NotANumber ->
         [is |-> "audit-tail", limit |-> ParseNumber(args[1])]
    [] OTHER -> Malformed

ParseAuditSubscribe(args) ==
  CASE Len(args) = 1 -> [is |-> "audit-subscribe", id |-> args[1], since |-> 0]
    [] /\ Len(args) = 2 /\ Head(args[2]) = "since="
       /\ ParseNumber(Tail(args[2])) # NotANumber ->
         [is |-> "audit-subscribe", id |-> args[1], since |-> ParseNumber(Tail(args[2]))]
    [] OTHER -> Malformed

ParseRequest(text) ==
  LET fields == Words(text)
      command == fields[2][1]
      args == SubSeq(fields, 3, Len(fields))
  IN CASE Len(fields) < 2 \/ fields[1] # <<"v1">> \/ Len(fields[2]) # 1 -> Malformed
       [] command \in BareCommands ->
            IF args = <<>> THEN [is |-> command] ELSE Malformed
       [] command \in {"traffic-block", "traffic-unblock"} -> ParseTraffic(command, args)
       [] command = "rule-delete" -> ParseRuleDelete(args)
       [] command = "rule-add" -> ParseRuleAdd(args)
       [] command = "prompt-answer" -> ParsePromptAnswer(args)
       [] command = "dns-note" -> ParseDnsNote(args)
       [] command = "audit-tail" -> ParseAuditTail(args)
       [] command = "audit-subscribe" -> ParseAuditSubscribe(args)
       [] OTHER -> Malformed
-----------------------------------------------------------------------------
(* Response::encode, and what a client makes of the line it reads          *)

Pong == Line(<< <<"v1">>, <<"pong">> >>)
Error(code) == Line(<< <<"v1">>, <<"error">>, <<code>> >>)
ListFrame(label, payload) == Line(<< <<"v1">>, <<label>>, payload>>)

(* read_line and the size check of one_shot *)
Newline == "\n"
Received(frame) == SplitN(frame, Newline, 2)[1]
TooLarge(frame) == Len(Received(frame)) > MaxFrame
IsPong(frame) == ~TooLarge(frame) /\ IsPrefix(Pong, Received(frame))

Refused == [ok |-> FALSE, rows |-> <<>>]
RowsIf(ok, rows) == IF ok THEN [ok |-> TRUE, rows |-> rows] ELSE Refused
(* parse_frame: the texts of the payload's rows; each kind of row is then  *)
(* read from its text, all of them well formed or none read.               *)
RowTexts(frame, label, sep) ==
  LET parts == SplitN(Received(frame), " ", 3)
      payload == IF Len(parts) = 3 THEN parts[3] ELSE <<>>
  IN RowsIf(/\ ~TooLarge(frame) /\ Len(parts) >= 2
             /\ parts[1] = <<"v1">> /\ parts[2] = <<label>>,
             IF payload = <<>> THEN <<>> ELSE Split(payload, sep))

IsNumber(text) == ParseNumber(text) # NotANumber

(* rule_list and RuleRow: rows are joined by a comma, nothing is escaped *)
RuleText(r) ==
  Join(<<Numeral(r.id), r.executable, <<r.verdict>>, Numeral(r.port)>>, "|")
RulesFrame(rules) == ListFrame("rules", Join([i \in DOMAIN rules |-> RuleText(rules[i])], ","))
RuleParts(text) == SplitN(text, "|", 4)
RuleWellFormed(text) ==
  LET p == RuleParts(text) IN Len(p) = 4 /\ IsNumber(p[1]) /\ IsNumber(p[4])
RuleRead(text) ==
  LET p == RuleParts(text)
  IN [id |-> ParseNumber(p[1]), executable |-> p[2], verdict |-> p[3][1],
      port |-> ParseNumber(p[4])]
ReadRules(frame) ==
  LET text == RowTexts(frame, "rules", ",")
  IN RowsIf(text.ok /\ \A i \in DOMAIN text.rows : RuleWellFormed(text.rows[i]),
             [i \in DOMAIN text.rows |-> RuleRead(text.rows[i])])

(* encode_prompts and PromptRow; the protocol and the seconds are optional *)
PromptText(p) ==
  Join(<<Numeral(p.id), p.executable, <<"addr">>, <<"port">>, <<"tcp">>, Numeral(p.left)>>, "|")
PromptsFrame(prompts) ==
  ListFrame("prompts", Join([i \in DOMAIN prompts |-> PromptText(prompts[i])], ","))
PromptWellFormed(text) ==
  LET p == Split(text, "|") IN Len(p) >= 4 /\ IsNumber(p[1]) /\ p[4] = <<"port">>
PromptRead(text) ==
  LET p == Split(text, "|")
  IN [id |-> ParseNumber(p[1]), executable |-> p[2],
      left |-> IF Len(p) >= 6 /\ IsNumber(p[6]) THEN ParseNumber(p[6]) ELSE 0]
ReadPrompts(frame) ==
  LET text == RowTexts(frame, "prompts", ",")
  IN RowsIf(text.ok /\ \A i \in DOMAIN text.rows : PromptWellFormed(text.rows[i]),
             [i \in DOMAIN text.rows |-> PromptRead(text.rows[i])])
CanAnswer(row) == row.left > 0

(* escape_field and unescape_field: one replacement after another *)
ReplaceSymbol(text, c, by) ==
  FlattenSeq([i \in DOMAIN text |-> IF text[i] = c THEN by ELSE <<text[i]>>])
(* str::replace of a pattern that does not overlap itself *)
ReplacePattern(text, pat, c) ==
  LET step(acc, x) == LET tail == Append(acc.tail, x)
                      IN IF IsSuffix(pat, tail)
                         THEN [done |-> acc.done \o SubSeq(tail, 1, Len(tail) - Len(pat)) \o <<c>>,
                               tail |-> <<>>]
                         ELSE [acc EXCEPT !.tail = tail]
      end == FoldLeft(step, [done |-> <<>>, tail |-> <<>>], text)
  IN end.done \o end.tail
Escape(text) ==
  ReplaceSymbol(ReplaceSymbol(ReplaceSymbol(text, "%", <<"%", "2", "5">>),
                              "|", <<"%", "7", "C">>), ";", <<"%", "3", "B">>)
(* Defect: the percent sign is restored first. *)
BugUnescapeOrder(text) ==
  ReplacePattern(ReplacePattern(ReplacePattern(text, <<"%", "2", "5">>, "%"),
                                <<"%", "7", "C">>, "|"), <<"%", "3", "B">>, ";")
Unescape(text) ==
  ReplacePattern(ReplacePattern(ReplacePattern(text, <<"%", "3", "B">>, ";"),
                                <<"%", "7", "C">>, "|"), <<"%", "2", "5">>, "%")

(* process_list and ProcessRow *)
ProcessText(p) ==
  Join(<<Numeral(p.pid), Numeral(p.start), Numeral(p.uid), <<p.verdict>>, p.ports,
         Escape(p.executable), Escape(p.cmdline)>>, "|")
ProcessesFrame(rows) ==
  ListFrame("processes", Join([i \in DOMAIN rows |-> ProcessText(rows[i])], ";"))
ProcessParts(text) == SplitN(text, "|", 7)
ProcessWellFormed(text) ==
  LET p == ProcessParts(text) IN Len(p) = 7 /\ \A i \in 1 .. 3 : IsNumber(p[i])
ProcessRead(text) ==
  LET p == ProcessParts(text)
  IN [pid |-> ParseNumber(p[1]), start |-> ParseNumber(p[2]), uid |-> ParseNumber(p[3]),
      verdict |-> p[4][1], ports |-> p[5], executable |-> Unescape(p[6]),
      cmdline |-> Unescape(p[7])]
ReadProcesses(frame) ==
  LET text == RowTexts(frame, "processes", ";")
  IN RowsIf(text.ok /\ \A i \in DOMAIN text.rows : ProcessWellFormed(text.rows[i]),
             [i \in DOMAIN text.rows |-> ProcessRead(text.rows[i])])

(* encode_stats_rows and StatsRow *)
StatsText(r) ==
  Join(<<Escape(r.key), Numeral(r.hits), Numeral(r.allow), Numeral(r.deny),
         Numeral(r.prompt)>>, "|")
StatsFrame(label, rows) ==
  ListFrame(label, Join([i \in DOMAIN rows |-> StatsText(rows[i])], ";"))
StatsWellFormed(text) ==
  LET p == SplitN(text, "|", 5) IN Len(p) = 5 /\ \A i \in 2 .. 5 : IsNumber(p[i])
StatsRead(text) ==
  LET p == SplitN(text, "|", 5)
  IN [key |-> Unescape(p[1]), hits |-> ParseNumber(p[2]), allow |-> ParseNumber(p[3]),
      deny |-> ParseNumber(p[4]), prompt |-> ParseNumber(p[5])]
ReadStats(frame, label) ==
  LET text == RowTexts(frame, label, ";")
  IN RowsIf(text.ok /\ \A i \in DOMAIN text.rows : StatsWellFormed(text.rows[i]),
             [i \in DOMAIN text.rows |-> StatsRead(text.rows[i])])

(* key=value responses: a field without an equals sign or a required key   *)
(* that is missing or no number refuses the frame, unknown keys are        *)
(* skipped.                                                                *)
KeyValueFrame(label, pairs) == Line(<< <<"v1">>, <<label>> >> \o pairs)
FieldsOf(frame) == LET w == Words(Received(frame)) IN SubSeq(w, 3, Len(w))
Readable(frame, label, required, numbers) ==
  LET w == Words(Received(frame))
      fields == SubSeq(w, 3, Len(w))
  IN /\ ~TooLarge(frame) /\ Len(w) >= 2 /\ w[1] = <<"v1">> /\ w[2] = <<label>>
     /\ OnlyKeys(fields, KeyEquals)
     /\ \A k \in required : Field(fields, k) # Absent
     /\ \A k \in numbers : LET v == Field(fields, k) IN v = Absent \/ IsNumber(v)
FieldOr(fields, key, default) ==
  LET v == Field(fields, key) IN IF v = Absent THEN default ELSE v[1]

StatusFrame(b) ==
  KeyValueFrame("status",
    << <<"enforcement=", b.enforcement>>, <<"observation=", b.observation>>,
       <<"traffic=", b.traffic>>, <<"traffic_machine=", b.machine>>,
       <<"traffic_user=", b.user>>, <<"traffic_effective=", b.effective>>,
       <<"ipc_version=", "1">>, <<"pid=", "1">> >>)
StatusReadable(frame) ==
  Readable(frame, "status", {"enforcement=", "observation=", "ipc_version="},
           {"ipc_version=", "pid="})
ReadStatus(frame) ==
  LET fields == FieldsOf(frame)
      traffic == FieldOr(fields, "traffic=", "open")
  IN [enforcement |-> FieldOr(fields, "enforcement=", "none"),
      observation |-> FieldOr(fields, "observation=", "none"), traffic |-> traffic,
      machine |-> FieldOr(fields, "traffic_machine=", "open"),
      user |-> FieldOr(fields, "traffic_user=", "open"),
      effective |-> FieldOr(fields, "traffic_effective=", traffic)]

SummaryFrame(b) ==
  KeyValueFrame("stats-summary",
    << <<"connections=">> \o Numeral(b.connections), <<"denied=">> \o Numeral(b.denied),
       <<"uptime_secs=", "1">>, <<"rules=">> \o Numeral(b.rules) >>)
SummaryReadable(frame) ==
  LET keys == {"connections=", "denied=", "uptime_secs=", "rules="}
  IN Readable(frame, "stats-summary", keys, keys)
ReadSummary(frame) ==
  LET fields == FieldsOf(frame)
      n(key) == ParseNumber(Field(fields, key))
  IN [connections |-> n("connections="), denied |-> n("denied="), rules |-> n("rules=")]

TableStates == {"missing", "installed", "incomplete"}
NetworkFrame(b) ==
  KeyValueFrame("network",
    << <<"table=", "interfire">>, <<"queue=", "1">>, <<"state=", b.state>>,
       <<"rule=", b.rule>> >>)
NetworkReadable(frame) ==
  /\ Readable(frame, "network", {"table=", "queue=", "state=", "rule="}, {"queue="})
  /\ FieldOr(FieldsOf(frame), "state=", "none") \in TableStates
ReadNetwork(frame) ==
  [state |-> FieldOr(FieldsOf(frame), "state=", "none"), rule |-> FieldOr(FieldsOf(frame), "rule=", "none")]

(* One record of the audit stream: v1 audit SEQ|message *)
AuditFrame(r) == ListFrame("audit", Numeral(r.seq) \o <<"|", r.outcome>>)
AuditReadable(frame) ==
  LET parts == SplitN(frame, " ", 3)
  IN /\ Len(parts) = 3 /\ parts[1] = <<"v1">> /\ parts[2] = <<"audit">>
     /\ Len(Split(parts[3], "|")) >= 2 /\ IsNumber(Split(parts[3], "|")[1])
ReadAudit(frame) ==
  LET body == SplitN(SplitN(frame, " ", 3)[3], "|", 2)
  IN [seq |-> ParseNumber(body[1]), outcome |-> body[2][1]]
=============================================================================
