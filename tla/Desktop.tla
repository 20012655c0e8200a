------------------------------- MODULE Desktop ------------------------------
(***************************************************************************)
(* The desktop client at work (src/ui main.rs, app.rs, ipc_poll.rs,        *)
(* service.rs, audit_host.rs, tray_host.rs, confirm_queue.rs).  The UI     *)
(* thread polls the daemon every second, handles clicks and takes what the *)
(* tray's menu sends, one at a time: while a poll or a request waits for   *)
(* the daemon nothing else is handled.  A thread follows the audit stream, *)
(* and the tray draws the state it was last told in a thread of its own.   *)
(*                                                                         *)
(* Each request of a poll is a step, so the daemon may change, stop or     *)
(* start between two of them.                                              *)
(***************************************************************************)
EXTENDS DesktopApp, World

CONSTANTS Uid,        \* who runs the client
          MaxEvents   \* bound: audit events waiting, and tray actions waiting

VARIABLES app, window, running,
          ui,        \* the poll in progress: the request it is at, 0 if none, and what it has
          slot,      \* PENDING of confirm_queue
          events,    \* AuditHost's channel
          audit,     \* the audit thread: [open, since, last]
          tray,      \* [shown, inbox]: the state drawn, and set_state calls under way
          actions,   \* tray menu to action loop
          clicks,
          chosen     \* history: what was clicked on the cards: <<prompt id, executable, scope>>

deskVars == <<app, window, running, ui, slot, events, audit, tray, actions, clicks, chosen>>
allVars == <<deskVars, worldVars>>

NoSession == [open |-> FALSE, since |-> 0, last |-> 0]
NoPoll == [at |-> 0, snap |-> EmptySnapshot]
Idle == running /\ window /\ ui.at = 0

TrayStates == {"Unavailable", "Prompting", "Blocked", "Paused", "Degraded", "Protected"}
TrayActions == {"Show", "Quit", "RulesPause", "RulesResume", "OpenTraffic", "DaemonStop", "DaemonStart"}

DeskTypeOK ==
  /\ app.section \in Primary \cup Secondary /\ {app.tray, tray.shown} \subseteq TrayStates
  /\ Len(app.log.lines) <= MaxAuditLines
  /\ app.log.selected < Len(app.log.lines) \/ app.log.selected = 0
  /\ ToSet(actions) \subseteq TrayActions
  /\ audit.since <= audit.last /\ audit.last <= Len(log)
  /\ ~window => app = NewApp /\ ui = NoPoll /\ audit = NoSession

DeskInit ==
  /\ WorldInit
  /\ app = NewApp /\ window = TRUE /\ running = TRUE /\ ui = NoPoll /\ slot = None
  /\ events = <<>> /\ audit = NoSession /\ tray = [shown |-> "Unavailable", inbox |-> <<>>]
  /\ actions = <<>> /\ clicks = 0 /\ chosen = {}

-----------------------------------------------------------------------------
(* refresh_from_daemon: begun by the timer or by what a click did.         *)

Begin(a) ==
  /\ app' = BeforePoll(a, slot, events)
  /\ slot' = None /\ events' = <<>> /\ ui' = [at |-> 1, snap |-> EmptySnapshot]
Stay(a) == app' = a /\ UNCHANGED <<slot, events, ui>>

TimerFires ==
  /\ Idle /\ Begin(app)
  /\ UNCHANGED <<window, running, audit, tray, actions, clicks, chosen, worldVars>>

(* poll_snapshot: a list that cannot be fetched or read is an empty one. *)
Requests == <<"status", "prompt-list", "rule-list", "process-list", "network-status",
              "stats-summary", "stats">>
Asked(what) == AskAs(Uid, Frame(<< <<what>> >>), "none").reply
RowsOf(read) == IF read.ok THEN read.rows ELSE <<>>
Fetched(snap, what) ==
  CASE what = "status" ->
         LET frame == Asked(what)
         IN IF StatusReadable(frame) THEN [snap EXCEPT !.link = Up(ReadStatus(frame), 0)] ELSE snap
    [] what = "prompt-list" ->
         LET rows == RowsOf(ReadPrompts(Asked(what)))
         IN [snap EXCEPT !.prompts = rows, !.link.pending = Len(rows)]
    [] what = "rule-list" -> [snap EXCEPT !.rules = RowsOf(ReadRules(Asked(what)))]
    [] what = "process-list" -> [snap EXCEPT !.processes = RowsOf(ReadProcesses(Asked(what)))]
    [] what = "network-status" ->
         LET frame == Asked(what)
         IN IF NetworkReadable(frame) THEN [snap EXCEPT !.network = Some(ReadNetwork(frame))] ELSE snap
    [] what = "stats-summary" ->
         LET frame == Asked(what)
         IN IF SummaryReadable(frame) THEN [snap EXCEPT !.summary = Some(ReadSummary(frame))] ELSE snap
    [] what = "stats" ->
         [snap EXCEPT !.stats = [label \in StatsLabels |-> RowsOf(ReadStats(Asked(label), label))]]

Announced(inbox, old, new) == IF new # old THEN Append(inbox, new) ELSE inbox

Finish(snap) ==
  /\ app' = AfterPoll(app, snap) /\ ui' = NoPoll
  /\ tray' = IF limit.tray THEN [tray EXCEPT !.inbox = Announced(@, app.tray, app'.tray)] ELSE tray

PollNext ==
  /\ running /\ window /\ ui.at # 0
  /\ LET snap == Fetched(ui.snap, Requests[ui.at])
     IN IF ~snap.link.up \/ ui.at = Len(Requests) THEN Finish(snap)
        ELSE ui' = [at |-> ui.at + 1, snap |-> snap] /\ UNCHANGED <<app, tray>>
  /\ UNCHANGED <<window, running, slot, events, audit, actions, clicks, chosen, worldVars>>

-----------------------------------------------------------------------------
(* Clicks                                                                  *)

Click(c) ==
  /\ Idle /\ clicks < limit.presses /\ Offered(app, c)
  /\ clicks' = clicks + 1

(* What stays inside the client; Quit ends it. *)
ClickLocally(c) ==
  /\ c.on \in LocalClicks /\ Click(c) /\ Stay(LocalClick(app, c))
  /\ running' = (c.on # "menu-quit")
  /\ chosen' = IF c.on = "scope"
               THEN chosen \cup {<<app.alert[1].prompt.id, app.alert[1].prompt.executable, c.scope>>}
               ELSE chosen
  /\ UNCHANGED <<window, audit, tray, actions, worldVars>>

(* send_expect_pong: the answer may come too late for the client. *)
Request(frame, ok, failed) ==
  \E fault \in limit.faults, inTime \in limit.inTime :
    LET done == AskAs(Uid, frame, fault)
    IN /\ daemon' = done.daemon
       /\ IF IsPong(done.reply) /\ inTime THEN Begin(ok) ELSE Stay(failed)
       /\ UNCHANGED <<up, log, limit, changes>>

Told(a, what) == [a EXCEPT !.told = what]
Unsent(a) == Stay(a) /\ UNCHANGED worldVars

(* Defect: the card is closed although the answer was not taken. *)
BugClosedOnError(a) == [a EXCEPT !.alert = None]
(* submit_verdict's error arm *)
NotAnswered(a) == [a EXCEPT !.alert[1].failed = TRUE]
SubmitVerdict(answer) ==
  Request(Frame(<< <<"prompt-answer">>, Numeral(app.alert[1].prompt.id), <<answer>>,
                   <<app.alert[1].scope>> >>),
          [app EXCEPT !.alert = None], NotAnswered(app))

SubmitAddRule ==
  LET form == app.addForm[1]
      failed == [app EXCEPT !.addForm[1].failed = TRUE]
  IN IF ~ValidRule(form) THEN Unsent(failed)
     ELSE Request(Frame(<< <<"rule-add">>, Numeral(form.id), form.executable, <<form.verdict>>,
                           Numeral(form.port)>>),
                  [app EXCEPT !.addForm = None, !.selectedRule = Some(form.id)], failed)

DeleteSelectedRule ==
  Request(Frame(<< <<"rule-delete">>, Numeral(app.selectedRule[1])>>),
          [app EXCEPT !.selectedRule = None], app)

NetworkTable(verb, said) ==
  Request(Frame(<< <<verb>> >>), Told(app, said), Told(app, "failed"))

ClickRequest(c) ==
  /\ Click(c)
  /\ \/ c.on = "verdict" /\ SubmitVerdict(c.verdict)
     \/ c.on = "save-rule" /\ SubmitAddRule
     \/ c.on = "delete-rule" /\ DeleteSelectedRule
     \/ c.on = "network-install" /\ NetworkTable("network-install", "installed")
     \/ c.on = "network-remove" /\ NetworkTable("network-remove", "removed")
     \/ c.on = "network-refresh" /\ Begin(Told(app, "nothing")) /\ UNCHANGED worldVars
  /\ UNCHANGED <<window, running, audit, tray, actions, chosen>>

-----------------------------------------------------------------------------
(* confirm_fw_action: the question is taken down, then acted on with the   *)
(* scope and the direction the Traffic panel shows now.                    *)

Unasked == [app EXCEPT !.confirm = None]

SocketFrame(kind) ==
  Frame(CASE kind = "RulesPause" -> << <<"pause">> >>
          [] kind = "RulesResume" -> << <<"resume">> >>
          [] kind = "TrafficBlock" ->
               << <<"traffic-block">>, <<"scope=", "user">>, <<"direction=", app.direction>> >>
          [] kind = "TrafficUnblock" -> << <<"traffic-unblock">>, <<"scope=", "user">> >>)
Saying == [RulesPause |-> "paused", RulesResume |-> "started", TrafficBlock |-> "blocked",
           TrafficUnblock |-> "unblocked"]
ConfirmBySocket(kind) ==
  /\ kind \in DOMAIN Saying /\ (kind \in {"TrafficBlock", "TrafficUnblock"} => ~app.machine)
  /\ Request(SocketFrame(kind), Told(Unasked, Saying[kind]), Told(Unasked, "failed"))

(* Defect: the direction picked in the panel is not passed on. *)
BugNoDirection(kind) ==
  << <<"traffic">>, <<IF kind = "TrafficBlock" THEN "block" ELSE "unblock">>, <<"--scope=", "machine">> >>
(* pkexec interfirectl: the dialog may be dismissed.  interfirectl fails   *)
(* without a daemon, and exits with success whatever the daemon answered.  *)
MachineArgs(kind) ==
  IF kind = "TrafficBlock"
  THEN << <<"traffic">>, <<"block">>, <<"--scope=", "machine">>, <<"--direction=", app.direction>> >>
  ELSE << <<"traffic">>, <<"unblock">>, <<"--scope=", "machine">> >>
ConfirmByCtl(kind) ==
  /\ kind \in {"TrafficBlock", "TrafficUnblock"} /\ app.machine
  /\ \E granted \in limit.granted, fault \in limit.faults :
       LET frame == CtlFrame(MachineArgs(kind))
           ran == granted /\ up /\ frame # NoCommand
       IN /\ daemon' = IF ran THEN AskAs(0, frame, fault).daemon ELSE daemon
          /\ IF ran THEN Begin(Told(Unasked, Saying[kind])) ELSE Stay(Told(Unasked, "failed"))
  /\ UNCHANGED <<up, log, limit, changes>>

(* pkexec systemctl: start returns before the daemon listens, or after. *)
ConfirmByService(kind) ==
  /\ kind \in {"DaemonStop", "DaemonStart"}
  /\ \E granted \in limit.granted :
       /\ up' \in IF ~granted THEN {up} ELSE IF kind = "DaemonStop" THEN {FALSE} ELSE {up, TRUE}
       /\ daemon' = IF up' /\ ~up THEN Restarted(daemon) ELSE daemon
       /\ IF granted THEN Begin(Told(Unasked, "requested")) ELSE Stay(Told(Unasked, "failed"))
  /\ UNCHANGED <<log, limit, changes>>

Confirm ==
  /\ Click([on |-> "confirm-ok"])
  /\ LET kind == app.confirm[1]
     IN ConfirmBySocket(kind) \/ ConfirmByCtl(kind) \/ ConfirmByService(kind)
  /\ UNCHANGED <<window, running, audit, tray, actions, chosen>>

-----------------------------------------------------------------------------
(* The window and the tray                                                 *)

(* The App and its audit thread go with the window, the process only when  *)
(* there is no tray.                                                       *)
CloseWindow ==
  /\ Idle /\ clicks < limit.presses /\ limit.closes
  /\ clicks' = clicks + 1 /\ window' = FALSE /\ running' = limit.tray
  /\ app' = NewApp /\ events' = <<>> /\ audit' = NoSession
  /\ UNCHANGED <<ui, slot, tray, actions, chosen, worldVars>>

TrayDraws ==
  /\ running /\ tray.inbox # <<>>
  /\ tray' = [shown |-> Head(tray.inbox), inbox |-> Tail(tray.inbox)]
  /\ UNCHANGED <<app, window, running, ui, slot, events, audit, actions, clicks, chosen, worldVars>>

(* The menu is built from the state drawn. *)
TrayMenu ==
  {"Show", "Quit"} \cup
  IF tray.shown = "Unavailable" THEN {"DaemonStart"}
  ELSE {"DaemonStop", "OpenTraffic", IF tray.shown = "Paused" THEN "RulesResume" ELSE "RulesPause"}
TrayClick(item) ==
  /\ running /\ limit.tray /\ clicks < limit.presses /\ Len(actions) < MaxEvents
  /\ item \in TrayMenu \cap limit.items
  /\ clicks' = clicks + 1 /\ actions' = Append(actions, item)
  /\ UNCHANGED <<app, window, running, ui, slot, events, audit, tray, chosen, worldVars>>

(* spawn_tray_action_loop: all actions up to the first Quit.  Each push    *)
(* overwrites the slot; a window is opened when there is none.             *)
Pushed(pending, old) ==
  LET pushes == SelectSeq(pending, LAMBDA x : x # "Show")
  IN IF pushes = <<>> THEN old ELSE Some(Last(pushes))
TrayLoop ==
  /\ running /\ ui.at = 0 /\ actions # <<>>
  /\ actions' = <<>>
  /\ LET quits == {i \in DOMAIN actions : actions[i] = "Quit"}
         taken == IF quits = {} THEN actions
                  ELSE SubSeq(actions, 1, (CHOOSE i \in quits : \A j \in quits : i <= j) - 1)
     IN /\ slot' = Pushed(taken, slot)
        /\ running' = (quits = {})
        /\ window' = (window \/ quits = {})
  /\ UNCHANGED <<app, ui, events, audit, tray, clicks, chosen, worldVars>>

-----------------------------------------------------------------------------
(* The audit thread                                                        *)

Heard(event) == Len(events) < MaxEvents /\ events' = Append(events, event)
Listening == running /\ window /\ "audit" \in limit.tasks
RestAudit == <<app, window, running, ui, slot, tray, actions, clicks, chosen>>

Subscribe ==
  /\ Listening /\ up /\ ~audit.open
  /\ audit' = [audit EXCEPT !.open = TRUE, !.last = audit.since]
  /\ Heard([is |-> "ready"]) /\ UNCHANGED <<RestAudit, worldVars>>
NotConnected ==
  /\ Listening /\ ~up /\ ~audit.open
  /\ Heard([is |-> "down"]) /\ UNCHANGED <<RestAudit, audit, worldVars>>
ReadRecord ==
  /\ Listening /\ up /\ audit.open /\ audit.last < Len(log)
  /\ LET line == AuditFrame(log[audit.last + 1])
     IN /\ AuditReadable(line) /\ Heard([is |-> "record", record |-> ReadAudit(line)])
        /\ audit' = [audit EXCEPT !.last = ReadAudit(line).seq]
  /\ UNCHANGED <<RestAudit, worldVars>>

NextSince(last) == last
Ended(since) == audit' = [open |-> FALSE, since |-> since, last |-> since]
(* The stream ends after a line: no event, the next session goes on there. *)
(* It ends otherwise (a reset, a line cut by the read timeout): the client *)
(* is told, and the next session starts where this one started.            *)
EndSession ==
  /\ Listening /\ audit.open
  /\ up => "close" \in limit.changes /\ changes < limit.budget
  /\ changes' = IF up THEN changes + 1 ELSE changes
  /\ \/ Ended(NextSince(audit.last)) /\ UNCHANGED events
     \/ Ended(audit.since) /\ Heard([is |-> "down"])
  /\ UNCHANGED <<RestAudit, daemon, up, log, limit>>

-----------------------------------------------------------------------------
DeskNext ==
  \/ TimerFires \/ PollNext
  \/ \E c \in limit.clicks : ClickLocally(c) \/ ClickRequest(c)
  \/ Confirm
  \/ CloseWindow \/ TrayDraws \/ TrayLoop \/ \E item \in TrayActions : TrayClick(item)
  \/ Subscribe \/ NotConnected \/ ReadRecord \/ EndSession
  \/ WorldNext /\ UNCHANGED deskVars

(* The timer keeps firing and each request ends within its timeouts; the   *)
(* audit thread, the action loop and the tray run whenever they have       *)
(* something to do.                                                        *)
AuditReady ==
  /\ Listening
  /\ IF audit.open THEN ~up \/ audit.last < Len(log) ELSE up
DeskFairness ==
  /\ <>[](running /\ window) => []<><<ui' # ui>>_allVars
  /\ <>[]AuditReady => []<><<audit' # audit>>_allVars
  /\ WF_allVars(TrayDraws)

DeskSpec == DeskInit /\ [][DeskNext]_allVars /\ DeskFairness

-----------------------------------------------------------------------------
(* Properties                                                              *)

(* A selected rule or process is one the client lists: what a poll drops   *)
(* takes its selection along, so Delete never names a rule that is not on  *)
(* screen (refresh_from_daemon).  A rule just added is selected before the *)
(* poll that lists it has ended.                                           *)
SelectionsListed ==
  Idle =>
    /\ app.selectedRule # None => \E i \in DOMAIN app.rules : app.rules[i].id = app.selectedRule[1]
    /\ app.selectedProcess # None =>
         \E i \in DOMAIN app.processes :
           <<app.processes[i].pid, app.processes[i].start>> = app.selectedProcess[1]

(* A card that takes an answer shows the prompt as the last poll listed    *)
(* it, never a row from before (sync_from_list).                           *)
CardMatchesList ==
  Idle /\ app.alert # None /\ CanSubmit(app.alert[1]) => app.alert[1].prompt \in ToSet(app.prompts)

(* While the daemon runs on, the scope of a card is "once" or was clicked  *)
(* on a card of this very prompt: a card that replaces another under the   *)
(* pointer never inherits "permanent" (advance).  After a restart prompt   *)
(* ids are given out again and the choice does carry over.                 *)
ScopeWasChosen ==
  app.alert # None /\ "down" \notin limit.changes =>
    LET card == app.alert[1]
    IN card.scope = "once" \/ <<card.prompt.id, card.prompt.executable, card.scope>> \in chosen

(* The tray shows the state of the open window once it drew what it was    *)
(* told.  A window that has not reached the daemon yet claims nothing: it  *)
(* starts as Unavailable and tells the tray only what differs.             *)
TrayFollows ==
  window /\ limit.tray /\ tray.inbox = <<>> => app.tray \in {tray.shown, "Unavailable"}

(* At most one of the menu and the selects is open, and the Preferences    *)
(* section, which draws nothing itself, is never left without its overlay. *)
ChromeConsistent ==
  /\ Cardinality(app.open \cap (Selects \cup {"menu"})) <= 1
  /\ app.section = "Preferences" => "prefs" \in app.open

(* Whatever limit is typed, a list with matching rows shows at least one   *)
(* and at most FILTER_HARD_CAP of them (apply_custom_limit, apply_rows).   *)
FilterNeverBlanks ==
  UsesFilter(app.section) =>
    LET counts == FilterCounts(app)
    IN counts.total > 0 => Len(counts.shown) \in 1 .. HardCap

(* As long as no word and no verdict is filtered for, the text below the   *)
(* Events table is that of the row drawn as selected, however the log      *)
(* grows and rolls over (events_body).  With a filter it need not be.      *)
DetailIsSelected ==
  app.filter.text = "" /\ app.filter.verdict = "All" /\ EventsHighlight(app) # None
    => EventsDetail(app) = EventsHighlight(app)

(* No audit record is missing between two lines of the log, across the     *)
(* sessions of the audit thread and however they ended.                    *)
DeskAuditNoGaps ==
  /\ app.log.lines # <<>> /\ Len(app.log.lines) < MaxAuditLines => app.log.lines[1].seq = 1
  /\ \A i \in 1 .. Len(app.log.lines) - 1 : app.log.lines[i + 1].seq <= app.log.lines[i].seq + 1

(* After every poll, click and record the parts of the window agree with   *)
(* each other, with what was listed and with the tray.                     *)
DeskConsistent ==
  /\ DeskTypeOK /\ SelectionsListed /\ CardMatchesList /\ TrayFollows
  /\ ChromeConsistent /\ FilterNeverBlanks /\ DetailIsSelected /\ DeskAuditNoGaps

(* The line the user selected stays selected while the events of the       *)
(* stream are drained into the log, however many at once, unless it is     *)
(* itself among the lines dropped for them (LogBuffer::push).              *)
EventsSelectionSticks ==
  [][\/ app.log.lines = <<>> \/ clicks' # clicks \/ events' # <<>>
     \/ LET pushed == Len(SelectSeq(events, LAMBDA e : e.is = "record"))
            dropped == Len(app.log.lines) + pushed - Len(app'.log.lines)
            at == app.log.selected + 1
        IN at <= dropped \/ app'.log.lines[app'.log.selected + 1] = app.log.lines[at]]_allVars

(* A card closes because the daemon has settled its prompt: an error, a    *)
(* timeout or a refusal keeps it open (submit_verdict).                    *)
ClosedCardSettled ==
  [][(app.alert # None /\ app'.alert = None /\ window') =>
       \E i \in DOMAIN daemon'.prompts :
         daemon'.prompts[i].id = app.alert[1].prompt.id /\ daemon'.prompts[i].state \in {"allow", "deny"}]_allVars

(* Nothing that arrives takes from the user the line or the card they are  *)
(* at.                                                                     *)
DeskKeepsPlace == EventsSelectionSticks /\ ClosedCardSettled

(* What the client says was done is what the daemon has: paused, started,  *)
(* blocked in the direction and scope picked, unblocked.  For the machine  *)
(* scope it holds only while the daemon refuses nothing, because           *)
(* interfirectl does not report a refusal in its exit status.              *)
ToldIsTrue ==
  [][(app'.told # app.told /\ (app.machine => limit.faults = {"none"})) =>
       LET preference == IF app.machine THEN daemon'.machine ELSE daemon'.user[Uid]
       IN CASE app'.told \in {"paused", "removed"} -> daemon'.paused
            [] app'.told \in {"started", "installed"} -> ~daemon'.paused
            [] app'.told = "blocked" -> preference = app.direction
            [] app'.told = "unblocked" -> preference = "open"
            [] OTHER -> TRUE]_allVars

(* Once the daemon stays up and the window open, everything on screen and  *)
(* the tray become and stay what the daemon has, and a prompt that can be  *)
(* answered is on the card: neither a stale card nor an answer given       *)
(* elsewhere hides it.                                                     *)
PromptRows ==
  LET p == Pending(daemon)
  IN [i \in DOMAIN p |-> [id |-> p[i].id, executable |-> p[i].executable, left |-> p[i].left]]
UpToDate ==
  /\ app.link = Up(StatusBody(daemon, Uid), Len(PromptRows))
  /\ app.rules = daemon.rules /\ app.prompts = PromptRows /\ app.processes = daemon.processes
  /\ app.network = Some(NetworkBody(daemon)) /\ app.stats = daemon.stats
  /\ limit.tray => tray.shown = FromLink(app.link)
  /\ First(SelectSeq(PromptRows, CanAnswer)) # None => app.alert # None /\ CanSubmit(app.alert[1])
  /\ "audit" \in limit.tasks /\ log # <<>> => app.log.lines # <<>> /\ Last(app.log.lines) = Last(log)
DeskConverges == <>[](up /\ window /\ running) => <>[]UpToDate
=============================================================================
