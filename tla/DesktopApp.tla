----------------------------- MODULE DesktopApp -----------------------------
(***************************************************************************)
(* The desktop client's App (src/ui app.rs with alert.rs, filter.rs,       *)
(* log_buf.rs, rules.rs, section.rs and tray.rs): what it holds, what a    *)
(* poll of the daemon makes of it, which controls are drawn and enabled,   *)
(* and what the clicks that stay inside the client do.  Everything here is *)
(* a function of the App; Desktop runs it.                                 *)
(*                                                                         *)
(* A click is a record whose field on names the control.  No overlay       *)
(* occludes what it covers, so a covered control is offered like any       *)
(* other.  The theme, the layout and the profiling numbers are left out.   *)
(***************************************************************************)
EXTENDS Wire

CONSTANTS MaxAuditLines,  \* LogBuffer's cap
          Presets,        \* limits offered in the filter bar
          DefaultLimit,
          HardCap         \* FILTER_HARD_CAP

ASSUME DesktopAssumption ==
  /\ MaxAuditLines \in Nat \ {0} /\ HardCap \in Nat \ {0}
  /\ Presets \subseteq Nat \ {0} /\ DefaultLimit \in Presets

Primary == {"Events", "Daemon", "Rules", "Hosts", "Applications", "Addresses", "Ports", "Users"}
Secondary == {"Traffic", "Network", "Profiling", "Preferences"}
UsesFilter(section) == section \in {"Events", "Rules", "Hosts", "Addresses", "Ports", "Users"}

(* An Option: a sequence of at most one element. *)
None == <<>>
Some(x) == <<x>>
First(found) == IF found = <<>> THEN None ELSE Some(found[1])

-----------------------------------------------------------------------------
(* ListFilter                                                              *)

NoFilter == [text |-> "", verdict |-> "All", limit |-> [kind |-> "preset", n |-> DefaultLimit]]
VerdictLabels == [All |-> {"allow", "deny", "prompt", ""}, Allow |-> {"allow"}, Deny |-> {"deny"},
                  Prompt |-> {"prompt"}]
EffectiveLimit(limit) == IF limit.kind = "all" \/ limit.n > HardCap THEN HardCap ELSE limit.n
Clamped(n) == IF n < 1 THEN 1 ELSE IF n > HardCap THEN HardCap ELSE n

(* apply_rows: the words of each row a text is looked for in, and the      *)
(* verdict the row is filtered by.                                         *)
ApplyRows(f, rows, words, verdict) ==
  LET passed == SelectSeq(rows, LAMBDA r : /\ f.text = "" \/ f.text \in words[r]
                                           /\ verdict[r] \in VerdictLabels[f.verdict])
      n == EffectiveLimit(f.limit)
  IN [shown |-> IF Len(passed) > n THEN SubSeq(passed, 1, n) ELSE passed, total |-> Len(passed)]

Lowered == [Allow |-> "allow", Deny |-> "deny", Prompt |-> "prompt"]
RuleRows(a) ==
  ApplyRows(a.filter, a.rules,
            [r \in ToSet(a.rules) |-> ToSet(r.executable \o Numeral(r.port)) \cup {Lowered[r.verdict]}],
            [r \in ToSet(a.rules) |-> Lowered[r.verdict]])
EventRows(a) ==
  LET rows == a.log.lines
  IN ApplyRows(a.filter, rows, [r \in ToSet(rows) |-> {r.outcome}], [r \in ToSet(rows) |-> r.outcome])
Dominant(row) ==
  IF row.deny > 0 /\ row.deny >= row.allow /\ row.deny >= row.prompt THEN "deny"
  ELSE IF row.prompt > 0 /\ row.prompt >= row.allow THEN "prompt"
  ELSE IF row.allow > 0 THEN "allow" ELSE ""
StatsLabel == [Hosts |-> "stats-hosts", Applications |-> "stats-procs", Addresses |-> "stats-addrs",
               Ports |-> "stats-ports", Users |-> "stats-users"]
StatsLabels == {StatsLabel[s] : s \in DOMAIN StatsLabel}
StatRows(a, section) ==
  LET rows == a.stats[StatsLabel[section]]
  IN ApplyRows(a.filter, rows, [r \in ToSet(rows) |-> ToSet(r.key)], [r \in ToSet(rows) |-> Dominant(r)])

-----------------------------------------------------------------------------
(* LogBuffer.  An index counts from 0, a sequence from 1.                  *)

NewLog == [lines |-> <<>>, selected |-> 0, subscribed |-> FALSE]

PushLine(log, record) ==
  LET full == Len(log.lines) = MaxAuditLines
      lines == Append(IF full THEN Tail(log.lines) ELSE log.lines, record)
      at == IF full /\ log.selected > 0 THEN log.selected - 1 ELSE log.selected
  IN [log EXCEPT !.lines = lines, !.selected = IF at >= Len(lines) THEN Len(lines) - 1 ELSE at]

SelectRow(log, index) ==
  [log EXCEPT !.selected = IF log.lines = <<>> THEN 0
                           ELSE IF index < Len(log.lines) THEN index ELSE Len(log.lines) - 1]

(* drain_audit_events *)
Logged(log, event) ==
  CASE event.is = "ready" -> [log EXCEPT !.subscribed = TRUE]
    [] event.is = "down" -> [log EXCEPT !.subscribed = FALSE]
    [] event.is = "record" -> PushLine(log, event.record)
Drained(log, events) == FoldLeft(Logged, log, events)

-----------------------------------------------------------------------------
(* ConnectionAlert                                                         *)

FromPrompt(row) ==
  [prompt |-> row, scope |-> "once", details |-> FALSE, stale |-> ~CanAnswer(row), failed |-> FALSE]

(* Defect: a prompt that is still listed keeps the row it was opened with. *)
BugOldRow(alert, prompts) ==
  [alert EXCEPT !.stale = \A i \in DOMAIN prompts : prompts[i].id # alert.prompt.id]
SyncFromList(alert, prompts) ==
  LET row == First(SelectSeq(prompts, LAMBDA p : p.id = alert.prompt.id))
  IN IF row = None THEN [alert EXCEPT !.stale = TRUE]
     ELSE [alert EXCEPT !.prompt = row[1], !.stale = ~CanAnswer(row[1])]

CanSubmit(alert) == ~alert.stale /\ CanAnswer(alert.prompt)

(* Defect: the next prompt takes over the choices made for the last one. *)
BugSameChoices(current, prompts) ==
  LET next == First(SelectSeq(prompts, CanAnswer))
  IN IF current = None THEN IF next = None THEN None ELSE Some(FromPrompt(next[1]))
     ELSE LET synced == SyncFromList(current[1], prompts)
          IN IF next = None \/ CanSubmit(synced) THEN Some(synced)
             ELSE Some([synced EXCEPT !.prompt = next[1], !.stale = FALSE])
(* Defect: a card that went stale stays until it is closed. *)
BugStaleStays(current, prompts) ==
  LET next == First(SelectSeq(prompts, CanAnswer))
  IN IF current # None THEN Some(SyncFromList(current[1], prompts))
     ELSE IF next = None THEN None ELSE Some(FromPrompt(next[1]))
Advance(current, prompts) ==
  LET next == First(SelectSeq(prompts, CanAnswer))
  IN IF current = None THEN IF next = None THEN None ELSE Some(FromPrompt(next[1]))
     ELSE LET synced == SyncFromList(current[1], prompts)
          IN IF next = None \/ CanSubmit(synced) THEN Some(synced)
             ELSE Some(FromPrompt(next[1]))

-----------------------------------------------------------------------------
(* The link to the daemon and the tray's state                             *)

Down == [up |-> FALSE]
Up(status, pending) == [up |-> TRUE, status |-> status, pending |-> pending]

FromLink(link) ==
  IF ~link.up THEN "Unavailable"
  ELSE IF link.pending > 0 THEN "Prompting"
  ELSE IF link.status.traffic = "blocked" THEN "Blocked"
  ELSE IF link.status.enforcement = "paused" THEN "Paused"
  ELSE IF "degraded" \in {link.status.observation, link.status.enforcement} THEN "Degraded"
  ELSE "Protected"

NoStats == [label \in StatsLabels |-> <<>>]
EmptySnapshot ==
  [link |-> Down, prompts |-> <<>>, rules |-> <<>>, processes |-> <<>>, network |-> None,
   summary |-> None, stats |-> NoStats]

NewApp ==
  [section |-> "Events", link |-> Down, tray |-> FromLink(Down), prompts |-> <<>>, rules |-> <<>>,
   selectedRule |-> None, addForm |-> None, processes |-> <<>>, selectedProcess |-> None,
   network |-> None, summary |-> None, stats |-> NoStats, alert |-> None, log |-> NewLog,
   machine |-> FALSE, direction |-> "out", confirm |-> None, filter |-> NoFilter,
   told |-> "nothing",   \* what the last message says was done
   open |-> {}]          \* which of the menu, the overlays and the selects are open

(* refresh_from_daemon, before the poll: what the tray left, then the log. *)
TakePending(a, slot) ==
  IF slot = None THEN a
  ELSE IF slot[1] = "OpenTraffic" THEN [a EXCEPT !.section = "Traffic"]
  ELSE [a EXCEPT !.confirm = slot]
BeforePoll(a, slot, events) == [TakePending(a, slot) EXCEPT !.log = Drained(@, events)]

StillListed(a, s) ==
  LET ruleGone == a.selectedRule # None /\ \A i \in DOMAIN s.rules : s.rules[i].id # a.selectedRule[1]
      gone == /\ a.selectedProcess # None
              /\ \A i \in DOMAIN s.processes :
                   <<s.processes[i].pid, s.processes[i].start>> # a.selectedProcess[1]
  IN [a EXCEPT !.selectedRule = IF ruleGone THEN None ELSE @,
               !.selectedProcess = IF gone THEN None ELSE @]

(* ... and after it. *)
AfterPoll(a, s) ==
  [StillListed(a, s) EXCEPT
     !.link = s.link, !.prompts = s.prompts, !.rules = s.rules, !.processes = s.processes,
     !.network = s.network, !.summary = s.summary, !.stats = s.stats,
     !.alert = Advance(@, s.prompts), !.tray = FromLink(s.link)]
-----------------------------------------------------------------------------
(* What is drawn.                                                          *)

(* filter_counts_for *)
FilterCounts(a) ==
  CASE a.section = "Events" -> EventRows(a)
    [] a.section = "Rules" -> RuleRows(a)
    [] a.section \in {"Hosts", "Addresses", "Ports", "Users"} -> StatRows(a, a.section)

(* events_body: the row drawn as selected and the text below the table,    *)
(* which is looked up by the same index in the lines before the filter.    *)
EventsHighlight(a) ==
  LET rows == EventRows(a).shown
  IN IF a.log.selected < Len(rows) THEN Some(rows[a.log.selected + 1]) ELSE None
EventsDetail(a) ==
  IF a.log.lines = <<>> \/ EventRows(a).shown = <<>> THEN None
  ELSE Some(a.log.lines[a.log.selected + 1])

(* operator_labels *)
DaemonUp(a) == a.tray # "Unavailable"
RulesPaused(a) == ~a.link.up \/ a.link.status.enforcement = "paused"

TableInstalled(a) == a.network # None /\ a.network[1].state = "installed"
TablePresent(a) == a.network # None /\ a.network[1].state # "missing"

(* The controls that are drawn and enabled, one operator per view. *)
MenuItems == {"menu-open", "menu-prefs", "menu-traffic", "menu-network", "menu-profiling",
              "menu-about", "menu-quit"}
ToolbarLeft(a, c) == c.on \in {"app-menu", "add-rule"}
ToolbarRight(a, c) == c.on = "daemon-btn" \/ (c.on \in {"rules-btn", "traffic-btn"} /\ DaemonUp(a))
AppMenu(a, c) == c.on \in MenuItems /\ "menu" \in a.open
TabsRow(a, c) == c.on = "tab" /\ c.section \in Primary
Overlays(a, c) ==
  \/ c.on = "close-about" /\ "about" \in a.open
  \/ c.on = "close-prefs" /\ "prefs" \in a.open

SelectOptions(a, c) ==
  \/ c.on = "verdict-option" /\ "verdict-select" \in a.open
  \/ c.on = "limit-option" /\ "limit-select" \in a.open
FilterBar(a, c) ==
  /\ UsesFilter(a.section)
  /\ \/ c.on \in {"verdict-select", "limit-select", "filter-text", "filter-clear"}
     \/ SelectOptions(a, c)
     \/ c.on = "apply-limit" /\ a.filter.limit.kind = "custom"

EventsBody(a, c) == a.section = "Events" /\ c.on = "event" /\ c.row < Len(EventRows(a).shown)
RulesTable(a, c) == c.on = "rule" /\ \E i \in DOMAIN RuleRows(a).shown : RuleRows(a).shown[i].id = c.id
RulesBody(a, c) ==
  /\ a.section = "Rules"
  /\ RulesTable(a, c) \/ (c.on = "delete-rule" /\ a.selectedRule # None /\ a.addForm = None)
AddRuleOverlay(a, c) == a.addForm # None /\ c.on \in {"type", "add-verdict", "save-rule", "cancel-rule"}
ApplicationsBody(a, c) ==
  /\ a.section = "Applications" /\ c.on = "process"
  /\ \E i \in DOMAIN a.processes : <<a.processes[i].pid, a.processes[i].start>> = c.key
NetworkPanel(a, c) ==
  /\ a.section = "Network" /\ a.link.up
  /\ \/ c.on = "network-install" /\ ~TableInstalled(a)
     \/ c.on = "network-remove" /\ TablePresent(a)
     \/ c.on = "network-refresh"
TrafficBody(a, c) ==
  /\ a.section = "Traffic"
  /\ c.on \in {"traffic-scope", "traffic-direction", "traffic-block", "traffic-unblock"}

(* alert_overlay, scope_row and verdict_row; fw_confirm_overlay *)
AlertOverlay(a, c) ==
  /\ a.alert # None
  /\ c.on = "details" \/ (c.on \in {"scope", "verdict"} /\ CanSubmit(a.alert[1]))
ConfirmOverlay(a, c) == a.confirm # None /\ c.on \in {"confirm-ok", "confirm-cancel"}

SectionBody(a, c) ==
  \/ EventsBody(a, c) \/ RulesBody(a, c) \/ ApplicationsBody(a, c)
  \/ NetworkPanel(a, c) \/ TrafficBody(a, c)
Offered(a, c) ==
  \/ ToolbarLeft(a, c) \/ ToolbarRight(a, c) \/ AppMenu(a, c) \/ TabsRow(a, c)
  \/ SectionBody(a, c) \/ FilterBar(a, c)
  \/ AddRuleOverlay(a, c) \/ AlertOverlay(a, c) \/ ConfirmOverlay(a, c) \/ Overlays(a, c)

-----------------------------------------------------------------------------
(* Clicks that stay inside the client                                      *)

Selects == {"verdict-select", "limit-select"}

(* One of the menu and the selects is toggled, the others are closed. *)
Toggled(open, what) ==
  LET others == open \ (Selects \cup {"menu"})
  IN IF what \in open THEN others ELSE others \cup {what}

ClosePreferences(a) ==
  [a EXCEPT !.open = @ \ {"prefs"}, !.section = IF @ = "Preferences" THEN "Events" ELSE @]

MenuClick(a, item) ==
  LET shut == [a EXCEPT !.open = @ \ {"menu"}]
  IN CASE item = "menu-open" -> [shut EXCEPT !.section = "Events", !.open = @ \ {"prefs"}]
       [] item = "menu-prefs" -> [shut EXCEPT !.section = "Preferences", !.open = @ \cup {"prefs"}]
       [] item = "menu-traffic" -> [a EXCEPT !.section = "Traffic"]
       [] item = "menu-network" -> [shut EXCEPT !.section = "Network"]
       [] item = "menu-profiling" -> [shut EXCEPT !.section = "Profiling"]
       [] item = "menu-about" -> [shut EXCEPT !.open = @ \cup {"about"}]
       [] item = "menu-quit" -> shut

TypedLimit(n) == Clamped(IF n = NotANumber THEN DefaultLimit ELSE n)

FilterClick(a, c) ==
  CASE c.on \in Selects -> [a EXCEPT !.open = Toggled(@, c.on)]
    [] c.on = "filter-text" -> [a EXCEPT !.filter.text = c.text]
    [] c.on = "filter-clear" -> [a EXCEPT !.filter = NoFilter, !.open = @ \ Selects]
    [] c.on = "verdict-option" ->
         [a EXCEPT !.filter.verdict = c.verdict, !.open = @ \ {"verdict-select"}]
    [] c.on = "limit-option" ->
         [a EXCEPT !.open = @ \ {"limit-select"},
                   !.filter.limit = IF c.limit.kind = "custom"
                                    THEN [kind |-> "custom", n |-> EffectiveLimit(@)] ELSE c.limit]
    [] c.on = "apply-limit" -> [a EXCEPT !.filter.limit = [kind |-> "custom", n |-> TypedLimit(c.n)]]
FilterClicks == Selects \cup {"filter-text", "filter-clear", "verdict-option", "limit-option", "apply-limit"}

(* The add form: next_rule_id suggests one more than the largest id. *)
NextRuleId(rules) ==
  IF rules = <<>> THEN 1
  ELSE 1 + CHOOSE n \in {rules[i].id : i \in DOMAIN rules} : \A i \in DOMAIN rules : rules[i].id <= n
NewForm(rules) ==
  [id |-> NextRuleId(rules), executable |-> <<>>, verdict |-> "deny", port |-> 4, failed |-> FALSE]
(* validate_new_rule *)
ValidRule(form) ==
  form.id \in Number /\ form.executable # <<>> /\ Head(form.executable) = "/" /\ form.port \in Number

RuleClick(a, c) ==
  CASE c.on = "add-rule" -> IF a.addForm # None THEN a ELSE [a EXCEPT !.addForm = Some(NewForm(a.rules))]
    [] c.on = "cancel-rule" -> [a EXCEPT !.addForm = None]
    [] c.on = "add-verdict" -> [a EXCEPT !.addForm[1].verdict = c.verdict]
    [] c.on = "type" -> [a EXCEPT !.addForm[1] = [@ EXCEPT ![c.field] = c.value]]
RuleClicks == {"add-rule", "cancel-rule", "add-verdict", "type"}

(* Requests to confirm: the toolbar, the Traffic panel. *)
ConfirmFor(a, on) ==
  CASE on = "daemon-btn" -> IF DaemonUp(a) THEN "DaemonStop" ELSE "DaemonStart"
    [] on = "rules-btn" -> IF RulesPaused(a) THEN "RulesResume" ELSE "RulesPause"
    [] on = "traffic-block" -> "TrafficBlock"
    [] on = "traffic-unblock" -> "TrafficUnblock"
ConfirmClicks == {"daemon-btn", "rules-btn", "traffic-block", "traffic-unblock"}

(* Rows selected, choices on the card, and the Traffic panel's toggles. *)
SelectClick(a, c) ==
  CASE c.on = "event" -> [a EXCEPT !.log = SelectRow(@, c.row)]
    [] c.on = "rule" -> [a EXCEPT !.selectedRule = Some(c.id)]
    [] c.on = "process" -> [a EXCEPT !.selectedProcess = Some(c.key)]
CardClick(a, c) ==
  CASE c.on = "scope" -> [a EXCEPT !.alert[1].scope = c.scope]
    [] c.on = "details" -> [a EXCEPT !.alert[1].details = ~@]
TrafficClick(a, c) ==
  CASE c.on = "traffic-btn" -> [a EXCEPT !.section = "Traffic"]
    [] c.on = "traffic-scope" -> [a EXCEPT !.machine = c.machine]
    [] c.on = "traffic-direction" -> [a EXCEPT !.direction = c.direction]

LocalClick(a, c) ==
  CASE c.on = "tab" -> [a EXCEPT !.section = c.section, !.open = @ \ (Selects \cup {"menu"})]
    [] c.on = "app-menu" -> [a EXCEPT !.open = Toggled(@, "menu")]
    [] c.on \in MenuItems -> MenuClick(a, c.on)
    [] c.on = "close-about" -> [a EXCEPT !.open = @ \ {"about"}]
    [] c.on = "close-prefs" -> ClosePreferences(a)
    [] c.on \in FilterClicks -> FilterClick(a, c)
    [] c.on \in RuleClicks -> RuleClick(a, c)
    [] c.on \in ConfirmClicks -> [a EXCEPT !.confirm = Some(ConfirmFor(a, c.on))]
    [] c.on = "confirm-cancel" -> [a EXCEPT !.confirm = None]
    [] c.on \in {"event", "rule", "process"} -> SelectClick(a, c)
    [] c.on \in {"scope", "details"} -> CardClick(a, c)
    [] c.on \in {"traffic-btn", "traffic-scope", "traffic-direction"} -> TrafficClick(a, c)
LocalClicks == {"tab", "app-menu", "traffic-btn", "close-about", "close-prefs", "confirm-cancel",
                "event", "rule", "process", "scope", "details", "traffic-scope", "traffic-direction"}
               \cup MenuItems \cup FilterClicks \cup RuleClicks \cup ConfirmClicks
=============================================================================
