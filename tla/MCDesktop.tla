----------------------------- MODULE MCDesktop ------------------------------
(* Instances of Desktop for TLC. *)
EXTENDS Desktop

PathA == <<"/", "a">>
PathB == <<"/", "b">>
Rule(id) == [id |-> id, executable |-> PathA, verdict |-> "Deny", port |-> 1]
Prompt(id, text) == [id |-> id, executable |-> text, left |-> 1, state |-> "pending"]
Process == [pid |-> 1, start |-> 1, uid |-> 1, verdict |-> "deny", ports |-> <<>>,
            executable |-> PathA, cmdline |-> <<>>]
Hits == [key |-> PathA, hits |-> 2, allow |-> 1, deny |-> 1, prompt |-> 0]
Quiet ==
  [rules |-> <<>>, saved |-> <<>>, prompts |-> <<>>, processes |-> <<>>, paused |-> FALSE,
   bind |-> "nfqueue", machine |-> "open", user |-> [u \in {0, 1} |-> "open"],
   connections |-> 0, denied |-> 0, stats |-> NoStats]
Busy == [Quiet EXCEPT !.rules = <<Rule(1), Rule(2)>>, !.saved = <<Rule(1)>>, !.processes = <<Process>>,
                      !.stats = [label \in StatsLabels |-> <<Hits>>]]
Asking == [Quiet EXCEPT !.prompts = <<Prompt(1, PathA), Prompt(2, PathB)>>]

Simple(names) == {[on |-> name] : name \in names}
Tab(section) == [on |-> "tab", section |-> section]

Base == [tasks |-> {}, clicks |-> {}, presses |-> 0, changes |-> {}, budget |-> 0, faults |-> {"none"},
         inTime |-> {TRUE}, granted |-> {TRUE}, closes |-> FALSE, tray |-> TRUE, items |-> {},
         paths |-> {PathB}, ctl |-> {}, daemon |-> Quiet]

(* Prompts answered here and elsewhere, and running out. *)
Cards == [Base EXCEPT
  !.daemon = Asking, !.presses = 3, !.budget = 2, !.tray = FALSE,
  !.clicks = {[on |-> "scope", scope |-> s] : s \in {"once", "permanent"}}
             \cup {[on |-> "verdict", verdict |-> "deny"]},
  !.changes = {"ctl", "age"}, !.faults = {"none", "store"}, !.inTime = {TRUE, FALSE},
  !.ctl = { << <<"prompts">>, <<"answer">>, <<"1">>, <<"allow">>, <<"once">> >> }]
(* A restart under an open card. *)
Reborn == [Base EXCEPT
  !.daemon = Asking, !.presses = 2, !.budget = 2, !.tray = FALSE,
  !.clicks = {[on |-> "scope", scope |-> "permanent"], [on |-> "verdict", verdict |-> "allow"],
              [on |-> "details"]},
  !.changes = {"down", "prompt"}, !.faults = {"none", "store"}]
(* Rules added, selected and deleted while others delete them, and while   *)
(* the daemon loses what it had not saved.                                 *)
Editing == [Base EXCEPT
  !.daemon = Busy, !.presses = 4, !.budget = 1, !.tray = FALSE,
  !.clicks = {Tab("Rules"), [on |-> "rule", id |-> 2],
              [on |-> "type", field |-> "executable", value |-> PathB],
              [on |-> "type", field |-> "id", value |-> 1], [on |-> "add-verdict", verdict |-> "allow"]}
             \cup Simple({"add-rule", "cancel-rule", "save-rule", "delete-rule"}),
  !.changes = {"ctl"}, !.faults = {"none", "store"}, !.inTime = {TRUE, FALSE},
  !.ctl = { << <<"rules">>, <<"delete">>, <<"2">> >> }]
Lost == [Base EXCEPT
  !.daemon = Busy, !.presses = 3, !.budget = 1, !.tray = FALSE, !.changes = {"down"},
  !.clicks = {Tab("Rules"), Tab("Applications"), [on |-> "rule", id |-> 2],
              [on |-> "process", key |-> <<1, 1>>]} \cup Simple({"delete-rule"})]
(* The toolbar, the Traffic and Network panels. *)
Firewall == [Base EXCEPT
  !.presses = 6, !.tray = FALSE, !.granted = BOOLEAN,
  !.clicks = {[on |-> "traffic-scope", machine |-> b] : b \in BOOLEAN}
             \cup {[on |-> "traffic-direction", direction |-> "in"]}
             \cup Simple({"traffic-btn", "traffic-block", "traffic-unblock", "rules-btn", "daemon-btn",
                          "confirm-cancel"})]
Failing == [Firewall EXCEPT !.presses = 4, !.faults = {"none", "store", "apply"}]
Panel == [Base EXCEPT
  !.presses = 4, !.tray = FALSE, !.faults = {"none", "apply"}, !.budget = 1, !.changes = {"ctl"},
  !.clicks = Simple({"app-menu", "menu-network", "network-install", "network-remove", "network-refresh"}),
  !.ctl = { << <<"pause">> >>, << <<"traffic">>, <<"block">>, <<"--direction=", "in">> >> }]
(* The tray's menu, and windows closed and opened while the daemon stops,  *)
(* starts and is paused by others.                                         *)
Trayed == [Base EXCEPT
  !.presses = 3, !.items = TrayActions, !.budget = 1, !.closes = TRUE,
  !.changes = {"ctl", "down"}, !.ctl = { << <<"pause">> >> }]
Reopened == [Base EXCEPT
  !.presses = 2, !.closes = TRUE, !.items = {"Show", "DaemonStart"}, !.budget = 2,
  !.changes = {"down", "prompt"}]
(* The log: full, across sessions of the audit stream, without a daemon,   *)
(* and filtered.                                                           *)
Logging == [Base EXCEPT
  !.presses = 1, !.budget = 4, !.tasks = {"audit"}, !.tray = FALSE,
  !.clicks = {[on |-> "event", row |-> 1]}, !.changes = {"audit", "close"}]
LogLost == [Logging EXCEPT !.presses = 0, !.budget = 2, !.changes = {"audit", "down"}]
LogFiltered == [Logging EXCEPT
  !.presses = 3, !.budget = 2, !.changes = {"audit"},
  !.clicks = {[on |-> "event", row |-> 0], [on |-> "verdict-option", verdict |-> "Deny"]}
             \cup Simple({"verdict-select"})]
(* The menu, the overlays and the filter bar. *)
Browsing == [Base EXCEPT
  !.daemon = Busy, !.presses = 4, !.tray = FALSE, !.closes = TRUE,
  !.clicks = {Tab("Rules"), Tab("Hosts"), [on |-> "filter-text", text |-> "a"],
              [on |-> "limit-option", limit |-> [kind |-> "custom", n |-> 0]],
              [on |-> "limit-option", limit |-> [kind |-> "all", n |-> 0]],
              [on |-> "verdict-option", verdict |-> "Allow"]}
             \cup {[on |-> "apply-limit", n |-> n] : n \in {NotANumber, 0, 9}}
             \cup Simple(MenuItems \cup Selects \cup {"app-menu", "filter-clear", "close-prefs", "close-about"})]
Scenarios == {Cards, Reborn, Editing, Lost, Firewall, Failing, Panel, Trayed, Reopened, Logging, LogLost, LogFiltered, Browsing}
=============================================================================
