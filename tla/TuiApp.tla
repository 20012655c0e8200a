------------------------------- MODULE TuiApp -------------------------------
(***************************************************************************)
(* The terminal client's App (interfire-tui app.rs): what it holds, how an *)
(* event from its IPC tasks changes it, what each key does, and what is    *)
(* drawn (ui.rs).  Everything here is a function of the App; Tui runs it.  *)
(*                                                                         *)
(* Keys are named by their character or KeyCode.  Notices and status       *)
(* messages are kept as their kind, not their wording.                     *)
(***************************************************************************)
EXTENDS Wire

CONSTANT MaxAuditLines

ASSUME TuiAssumption == MaxAuditLines \in Nat \ {0}

Tabs == <<"Status", "Apps", "Rules", "Prompts", "Events", "Help">>
HasSplit(tab) == tab \in {"Apps", "Rules", "Prompts", "Events"}

(* The next and the previous element of a cycle of choices. *)
PlaceIn(cycle, x) == CHOOSE i \in DOMAIN cycle : cycle[i] = x
NextIn(cycle, x) == cycle[(PlaceIn(cycle, x) % Len(cycle)) + 1]
PrevIn(cycle, x) == cycle[((PlaceIn(cycle, x) + Len(cycle) - 2) % Len(cycle)) + 1]

AddFields == <<"id", "executable", "verdict", "port">>
AnswerVerdicts == <<"allow", "deny">>
AnswerScopes == <<"once", "session", "permanent">>
TrafficScopes == <<"user", "machine">>
TrafficDirections == <<"out", "in", "all">>
TrafficActions == <<"block", "unblock">>
EventFilters == <<"all", "allow", "deny", "prompt">>

NoOverlay == [is |-> "none"]
Notice == [is |-> "notice"]
AddRuleForm ==
  [is |-> "add", id |-> <<>>, executable |-> <<>>, verdict |-> <<"deny">>, port |-> <<"4">>,
   focus |-> "id"]
AnswerPromptForm(row) == [is |-> "answer", prompt |-> row, verdict |-> "deny", scope |-> "once"]
TrafficForm == [is |-> "traffic", scope |-> "user", direction |-> "out", action |-> "block"]

NewApp ==
  [link |-> "connecting", status |-> <<>>, audit |-> <<>>, rules |-> <<>>, prompts |-> <<>>,
   processes |-> <<>>, subscribed |-> FALSE, tab |-> "Status", pane |-> "List", selected |-> 0,
   overlay |-> NoOverlay, message |-> "none", summary |-> <<>>, filter |-> "all"]

-----------------------------------------------------------------------------
(* Lists and selection.  An index counts from 0, a sequence from 1.        *)

Filtered(a) == SelectSeq(a.audit, LAMBDA r : a.filter \in {"all", r.outcome})

ListOf(a) ==
  CASE a.tab = "Events" -> Filtered(a)
    [] a.tab = "Apps" -> a.processes
    [] a.tab = "Rules" -> a.rules
    [] a.tab = "Prompts" -> a.prompts
    [] a.tab \in {"Status", "Help"} -> <<>>

AtIndex(list, i) == IF i \in 0 .. Len(list) - 1 THEN <<list[i + 1]>> ELSE <<>>

ClampSelection(a) ==
  LET len == Len(ListOf(a))
  IN [a EXCEPT !.selected = IF len = 0 THEN 0 ELSE IF @ >= len THEN len - 1 ELSE @]

MoveList(a, delta) ==
  LET len == Len(ListOf(a))
  IN [a EXCEPT !.selected = IF len = 0 THEN 0 ELSE (@ + delta + len) % len]

SetTab(a, tab) ==
  ClampSelection([a EXCEPT !.tab = tab, !.pane = "List", !.selected = 0])

(* Defect: the selection stays on the index, not on the record. *)
BugIndexKept(a, record) ==
  ClampSelection([a EXCEPT !.audit = Append(IF Len(@) = MaxAuditLines THEN Tail(@) ELSE @, record)])
PushAuditLine(a, record) ==
  LET full == Len(a.audit) = MaxAuditLines
      moved == full /\ a.selected > 0 /\ a.tab = "Events"
  IN ClampSelection([a EXCEPT !.audit = Append(IF full THEN Tail(@) ELSE @, record),
                              !.selected = IF moved THEN @ - 1 ELSE @])

(* visible_audit_window: the rows drawn in a viewport of some height *)
LeastOf(x, y) == IF x < y THEN x ELSE y
(* Defect: the window starts at the selection's half height, past the end. *)
BugWindowStart(total, selected, height) ==
  IF total <= height THEN 0 ELSE LeastOf(selected + height \div 2, total - height)
WindowStart(total, selected, height) ==
  IF total <= height THEN 0
  ELSE LeastOf(IF selected > height \div 2 THEN selected - height \div 2 ELSE 0, total - height)

VisibleList(a, rows) ==
  LET list == ListOf(a)
      total == Len(list)
      height == IF rows = 0 THEN 1 ELSE rows
      selected == LeastOf(a.selected, total - 1)
      start == WindowStart(total, selected, height)
  IN CASE a.tab # "Events" -> [items |-> list, highlighted |-> a.selected]
       [] a.tab = "Events" /\ total = 0 -> [items |-> <<>>, highlighted |-> 0]
       [] OTHER -> [items |-> SubSeq(list, start + 1, LeastOf(start + height, total)),
                    highlighted |-> selected - start]

(* detail_lines: the row the detail pane describes, if any *)
Detail(a) ==
  CASE a.tab = "Events" -> AtIndex(a.audit, a.selected)
    [] a.tab # "Events" -> AtIndex(ListOf(a), a.selected)

ChromeTitle(a) ==
  CASE a.link = "connecting" -> "connecting"
    [] a.link = "down" -> "daemon unavailable"
    [] a.link = "up" -> IF "degraded" \in {a.status.observation, a.status.enforcement}
                        THEN "degraded" ELSE "live"

(* ui.rs draw: title, the list's highlighted row, the detail, the overlay. *)
Screen(a, rows) ==
  LET v == VisibleList(a, rows)
  IN [title |-> ChromeTitle(a),
      highlighted |-> IF HasSplit(a.tab) THEN AtIndex(v.items, v.highlighted) ELSE <<>>,
      detail |-> Detail(a), overlay |-> a.overlay]

-----------------------------------------------------------------------------
(* App::apply                                                              *)

ApplyPrompts(a, rows) == ClampSelection([a EXCEPT !.prompts = rows])

Apply(a, e) ==
  CASE e.is = "status" -> [a EXCEPT !.link = "up", !.status = e.status]
    [] e.is = "stats-summary" -> [a EXCEPT !.summary = e.summary]
    [] e.is = "down" -> [a EXCEPT !.link = "down", !.subscribed = FALSE]
    [] e.is = "audit" -> PushAuditLine(a, e.record)
    [] e.is = "subscribed" -> [a EXCEPT !.subscribed = TRUE]
    [] e.is = "rules" -> ClampSelection([a EXCEPT !.rules = e.rows])
    [] e.is = "prompts" -> ApplyPrompts(a, e.rows)
    [] e.is = "processes" -> ClampSelection([a EXCEPT !.processes = e.rows])
    [] e.is = "ok" -> [a EXCEPT !.message = "ok"]
    [] e.is = "error" -> [a EXCEPT !.overlay = Notice, !.message = "error"]
-----------------------------------------------------------------------------
(* App::handle_key: the App after the key, and the command it sends, if    *)
(* any.                                                                    *)

Only(a) == [app |-> a, out |-> <<>>]
Sends(a, command) == [app |-> a, out |-> <<command>>]
Shut(a) == [a EXCEPT !.overlay = NoOverlay]
Shows(a, overlay) == Only([a EXCEPT !.overlay = overlay])

(* AddRuleForm::to_command.  The texts of a form are what was typed. *)
Verdicts == {<<"allow">>, <<"deny">>, <<"prompt">>}
AddReady(form) ==
  /\ IsNumber(form.id) /\ IsNumber(form.port)
  /\ form.executable # <<>> /\ Head(form.executable) = "/"
  /\ form.verdict \in Verdicts
AddCommand(form) ==
  [is |-> "rule-add", id |-> ParseNumber(form.id), executable |-> form.executable,
   verdict |-> form.verdict[1], port |-> ParseNumber(form.port)]

(* TrafficForm::to_command *)
TrafficReady(form) == form.scope # "machine"
TrafficCommand(action, scope, direction) ==
  IF action = "block" THEN [is |-> "traffic-block", scope |-> scope, direction |-> direction]
                      ELSE [is |-> "traffic-unblock", scope |-> scope]

TrafficKey(a, key) ==
  LET form == a.overlay
      set(f) == Shows(a, f)
  IN CASE key = "Esc" -> Only(Shut(a))
       [] key = "Enter" ->
            IF TrafficReady(form)
            THEN Sends(Shut(a), TrafficCommand(form.action, form.scope, form.direction))
            ELSE Shows(a, Notice)
       [] key = "Tab" -> set([form EXCEPT !.scope = NextIn(TrafficScopes, @)])
       [] key = "Left" -> set([form EXCEPT !.direction = PrevIn(TrafficDirections, @)])
       [] key \in {"Right", "d"} -> set([form EXCEPT !.direction = NextIn(TrafficDirections, @)])
       [] key \in {"b", "B"} -> set([form EXCEPT !.action = "block"])
       [] key = "u" -> set([form EXCEPT !.action = "unblock"])
       [] key = "a" -> set([form EXCEPT !.action = NextIn(TrafficActions, @)])
       [] OTHER -> Only(a)

ControlKeys == {"Esc", "Enter", "Tab", "BackTab", "Backspace", "Left", "Right", "Up", "Down"}
AddKey(a, key) ==
  LET form == a.overlay
      set(f) == Shows(a, f)
  IN CASE key = "Esc" -> Only(Shut(a))
       [] key = "Enter" -> IF AddReady(form) THEN Sends(Shut(a), AddCommand(form))
                           ELSE Only([a EXCEPT !.message = "invalid"])
       [] key = "Tab" -> set([form EXCEPT !.focus = NextIn(AddFields, @)])
       [] key = "BackTab" -> set([form EXCEPT !.focus = PrevIn(AddFields, @)])
       [] key = "Backspace" ->
            set([form EXCEPT ![form.focus] = IF @ = <<>> THEN @ ELSE Front(@)])
       [] key \in {"Left", "Right", "Up", "Down"} -> Only(a)
       [] key \notin ControlKeys -> set([form EXCEPT ![form.focus] = Append(@, key)])

AnswerKey(a, key) ==
  LET form == a.overlay
      set(f) == Shows(a, f)
  IN CASE key = "Esc" -> Only(Shut(a))
       [] key = "Enter" ->
            IF CanAnswer(form.prompt)
            THEN Sends(Shut(a), [is |-> "prompt-answer", id |-> form.prompt.id,
                                 verdict |-> form.verdict, scope |-> form.scope])
            ELSE Shows(a, Notice)
       [] key = "a" -> set([form EXCEPT !.verdict = "allow"])
       [] key = "d" -> set([form EXCEPT !.verdict = "deny"])
       [] key \in {"Left", "Right"} -> set([form EXCEPT !.verdict = NextIn(AnswerVerdicts, @)])
       [] key = "Tab" -> set([form EXCEPT !.scope = NextIn(AnswerScopes, @)])
       [] key = "BackTab" -> set([form EXCEPT !.scope = PrevIn(AnswerScopes, @)])
       [] OTHER -> Only(a)

OpenAnswerOverlay(a) ==
  LET row == AtIndex(a.prompts, a.selected)
  IN CASE row = <<>> -> Only(a)
       [] row # <<>> -> Shows(a, IF CanAnswer(row[1]) THEN AnswerPromptForm(row[1]) ELSE Notice)

DeleteSelectedRule(a) ==
  LET row == AtIndex(a.rules, a.selected)
  IN IF row = <<>> THEN Only(a) ELSE Sends(a, [is |-> "rule-delete", id |-> row[1].id])

SetFilter(a, filter) == Only([a EXCEPT !.filter = filter, !.selected = 0, !.message = "filter"])

(* The keys of one tab, after the keys that every tab has. *)
TabKey(a, key) ==
  CASE a.tab = "Rules" /\ key = "a" -> Shows(a, AddRuleForm)
    [] a.tab = "Rules" /\ key = "d" -> DeleteSelectedRule(a)
    [] a.tab = "Rules" /\ key = "r" -> Sends(a, [is |-> "refresh-rules"])
    [] a.tab = "Prompts" /\ key \in {"a", "Enter"} -> OpenAnswerOverlay(a)
    [] a.tab = "Prompts" /\ key = "r" -> Sends(a, [is |-> "refresh-prompts"])
    [] a.tab = "Status" /\ key = "t" -> Shows(a, TrafficForm)
    [] a.tab = "Status" /\ key = "b" -> Sends(a, TrafficCommand("block", "user", "out"))
    [] a.tab = "Status" /\ key = "B" -> Sends(a, TrafficCommand("block", "user", "all"))
    [] a.tab = "Status" /\ key = "u" -> Sends(a, TrafficCommand("unblock", "user", "out"))
    [] a.tab = "Events" /\ key = "f" -> SetFilter(a, NextIn(EventFilters, a.filter))
    [] a.tab = "Events" /\ key = "c" -> SetFilter(a, "all")
    [] OTHER -> Only(a)

TabNumber == [n \in {"1", "2", "3", "4", "5", "6"} |-> Tabs[ParseNumber(<<n>>)]]
RootKey(a, key) ==
  CASE key = "q" -> Sends(a, [is |-> "quit"])
    [] key = "?" -> Shows(a, Notice)
    [] key \in {"Left", "BackTab"} -> Only(SetTab(a, PrevIn(Tabs, a.tab)))
    [] key \in {"Right", "Tab"} -> Only(SetTab(a, NextIn(Tabs, a.tab)))
    [] key \in DOMAIN TabNumber -> Only(SetTab(a, TabNumber[key]))
    [] key \in {"h", "l"} /\ HasSplit(a.tab) ->
         Only([a EXCEPT !.pane = IF key = "h" THEN "List" ELSE "Detail"])
    [] key \in {"j", "Down"} /\ a.pane = "List" -> Only(MoveList(a, 1))
    [] key \in {"k", "Up"} /\ a.pane = "List" -> Only(MoveList(a, -1))
    [] OTHER -> TabKey(a, key)

HandleKey(a, key) ==
  CASE a.overlay.is = "none" -> RootKey(a, key)
    [] a.overlay.is = "notice" -> Only(IF key \in {"Esc", "Enter", "q"} THEN Shut(a) ELSE a)
    [] a.overlay.is = "add" -> AddKey(a, key)
    [] a.overlay.is = "answer" -> AnswerKey(a, key)
    [] a.overlay.is = "traffic" -> TrafficKey(a, key)
=============================================================================
