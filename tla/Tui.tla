-------------------------------- MODULE Tui ---------------------------------
(***************************************************************************)
(* The terminal client at work (interfire-tui main.rs and ipc.rs): tasks   *)
(* that poll the status and the lists, follow the audit stream and carry   *)
(* out commands, each over connections of its own, and a loop that applies *)
(* their events and the keys to the App in the order they arrive.          *)
(*                                                                         *)
(* A request and its answer are one step of the daemon; the answer is held *)
(* by the task until it is sent on the channel, so that answers overtake   *)
(* each other.  Other clients, the clock and restarts change the daemon in *)
(* between.                                                                *)
(***************************************************************************)
EXTENDS TuiApp, World

CONSTANTS Uid,       \* who runs the client
          MaxRx      \* bound: events waiting in the channel

VARIABLES app, rx, commands,
          poll,           \* the two polling tasks: [at, held]
          command,        \* the command task: [follow, held]
          audit,          \* the audit task: [open, since, last, held]
          running, presses

clientVars == <<app, rx, commands, poll, command, audit, running, presses>>
tuiVars == <<clientVars, worldVars>>

(* Defect: a list that is not part of the round. *)
BugShortRound == [status |-> <<"status", "stats-summary">>, lists |-> <<"rule-list", "prompt-list">>]
(* What each polling task asks for in a round. *)
Rounds == [status |-> <<"status", "stats-summary">>,
           lists |-> <<"rule-list", "prompt-list", "process-list">>]
Pollers == DOMAIN Rounds

TuiTypeOK ==
  /\ app.link \in {"connecting", "up", "down"} /\ app.selected \in Nat
  /\ Len(app.audit) <= MaxAuditLines /\ Len(rx) <= MaxRx
  /\ \A t \in Pollers : poll[t].at \in DOMAIN Rounds[t] /\ Len(poll[t].held) <= 1
  /\ audit.since <= audit.last /\ audit.last <= Len(log)
  /\ app.overlay.is \in {"none", "notice", "add", "answer", "traffic"}

TuiInit ==
  /\ WorldInit
  /\ app = NewApp /\ rx = <<>> /\ commands = <<>>
  /\ poll = [t \in Pollers |-> [at |-> 1, held |-> <<>>]]
  /\ command = [follow |-> "none", held |-> <<>>]
  /\ audit = [open |-> FALSE, since |-> 0, last |-> 0, held |-> <<>>]
  /\ running = TRUE /\ presses = 0

-----------------------------------------------------------------------------
(* One connection: the daemon's answer, nothing if there is no daemon.     *)

Ask(frame, fault) == AskAs(Uid, frame, fault)
Asked(what) == AskAs(Uid, Frame(<< <<what>> >>), "none").reply

ListEvents(what, frame) ==
  LET read == CASE what = "rule-list" -> ReadRules(frame)
                [] what = "prompt-list" -> ReadPrompts(frame)
                [] what = "process-list" -> ReadProcesses(frame)
      is == CASE what = "rule-list" -> "rules"
              [] what = "prompt-list" -> "prompts"
              [] what = "process-list" -> "processes"
  IN IF read.ok THEN <<[is |-> is, rows |-> read.rows]>> ELSE <<>>

PollEvents(what, frame) ==
  CASE what = "status" ->
         IF StatusReadable(frame) THEN <<[is |-> "status", status |-> ReadStatus(frame)]>>
                                  ELSE <<[is |-> "down"]>>
    [] what = "stats-summary" ->
         IF SummaryReadable(frame)
         THEN <<[is |-> "stats-summary", summary |-> ReadSummary(frame)]>> ELSE <<>>
    [] OTHER -> ListEvents(what, frame)

(* status_loop and lists_poll_loop *)
Poll(t) ==
  /\ running /\ t \in limit.tasks /\ poll[t].held = <<>>
  /\ LET what == Rounds[t][poll[t].at]
     IN poll' = [poll EXCEPT ![t] = [at |-> (poll[t].at % Len(Rounds[t])) + 1,
                                     held |-> PollEvents(what, Asked(what))]]
  /\ UNCHANGED <<app, rx, commands, command, audit, running, presses, worldVars>>

Sent(held) == running /\ held # <<>> /\ Len(rx) < MaxRx /\ rx' = Append(rx, Head(held))

SendPolled(t) ==
  /\ Sent(poll[t].held)
  /\ poll' = [poll EXCEPT ![t].held = <<>>]
  /\ UNCHANGED <<app, commands, command, audit, running, presses, worldVars>>

-----------------------------------------------------------------------------
(* handle_command                                                          *)

CommandFrame(c) ==
  Frame(CASE c.is = "rule-delete" -> << <<c.is>>, Numeral(c.id)>>
          [] c.is = "rule-add" ->
               << <<c.is>>, Numeral(c.id), c.executable, <<c.verdict>>, Numeral(c.port)>>
          [] c.is = "prompt-answer" -> << <<c.is>>, Numeral(c.id), <<c.verdict>>, <<c.scope>> >>
          [] c.is = "traffic-block" ->
               << <<c.is>>, <<"scope=", c.scope>>, <<"direction=", c.direction>> >>
          [] c.is = "traffic-unblock" -> << <<c.is>>, <<"scope=", c.scope>> >>)

Refreshes == [c \in {"refresh-rules", "refresh-prompts"} |->
                IF c = "refresh-rules" THEN "rule-list" ELSE "prompt-list"]
FollowUp(c) == CASE c.is \in {"rule-add", "rule-delete"} -> "rule-list"
                 [] c.is = "prompt-answer" -> "prompt-list"
                 [] OTHER -> "none"

Refresh ==
  /\ running /\ commands # <<>> /\ command.held = <<>> /\ command.follow = "none"
  /\ Head(commands).is \in DOMAIN Refreshes
  /\ LET what == Refreshes[Head(commands).is]
         events == ListEvents(what, Asked(what))
     IN command' = [command EXCEPT !.held = IF events = <<>> THEN <<[is |-> "error"]>> ELSE events]
  /\ commands' = Tail(commands)
  /\ UNCHANGED <<app, rx, poll, audit, running, presses, worldVars>>

(* A mutation.  The daemon may go down after it acted, before it answered. *)
CarryOut ==
  /\ running /\ commands # <<>> /\ command.held = <<>> /\ command.follow = "none"
  /\ Head(commands).is \notin DOMAIN Refreshes
  /\ \E fault \in limit.faults :
       LET done == Ask(CommandFrame(Head(commands)), fault)
           seen == IF up' THEN done.reply ELSE <<>>
       IN /\ up' \in {up} \cup (IF "down" \in limit.changes THEN {FALSE} ELSE {})
          /\ daemon' = done.daemon
          /\ command' = IF IsPong(seen)
                        THEN [follow |-> FollowUp(Head(commands)), held |-> <<[is |-> "ok"]>>]
                        ELSE [follow |-> "none", held |-> <<[is |-> "error"]>>]
  /\ commands' = Tail(commands)
  /\ UNCHANGED <<app, rx, poll, audit, log, running, limit, presses, changes>>

FetchAfter ==
  /\ running /\ command.held = <<>> /\ command.follow # "none"
  /\ command' = [follow |-> "none", held |-> ListEvents(command.follow, Asked(command.follow))]
  /\ UNCHANGED <<app, rx, commands, poll, audit, running, presses, worldVars>>

SendDone ==
  /\ Sent(command.held)
  /\ command' = [command EXCEPT !.held = <<>>]
  /\ UNCHANGED <<app, commands, poll, audit, running, presses, worldVars>>
-----------------------------------------------------------------------------
(* audit_loop and subscribe_session                                        *)

(* Defect: the next session asks for what follows the next record. *)
BugSinceNext(last) == IF last < Len(log) THEN last + 1 ELSE last
NextSince(last) == last

Subscribe ==
  /\ running /\ "audit" \in limit.tasks /\ up /\ ~audit.open /\ audit.held = <<>>
  /\ audit' = [audit EXCEPT !.open = TRUE, !.last = audit.since, !.held = <<[is |-> "subscribed"]>>]
  /\ UNCHANGED <<app, rx, commands, poll, command, running, presses, worldVars>>

(* The daemon streams the records after since, oldest first. *)
ReadRecord ==
  /\ running /\ audit.open /\ up /\ audit.held = <<>> /\ audit.last < Len(log)
  /\ LET line == AuditFrame(log[audit.last + 1])
     IN /\ AuditReadable(line)
        /\ audit' = [audit EXCEPT !.last = ReadAudit(line).seq,
                                  !.held = <<[is |-> "audit", record |-> ReadAudit(line)]>>]
  /\ UNCHANGED <<app, rx, commands, poll, command, running, presses, worldVars>>

SendRecord ==
  /\ Sent(audit.held)
  /\ audit' = [audit EXCEPT !.held = <<>>]
  /\ UNCHANGED <<app, commands, poll, command, running, presses, worldVars>>

(* The stream ends: at a line's end, or with an error, which keeps since. *)
EndSession ==
  /\ running /\ audit.open /\ audit.held = <<>>
  /\ up => "close" \in limit.changes /\ changes < limit.budget
  /\ changes' = IF up THEN changes + 1 ELSE changes
  /\ \E since \in {audit.since, NextSince(audit.last)} :
       audit' = [open |-> FALSE, since |-> since, last |-> since, held |-> <<>>]
  /\ UNCHANGED <<app, rx, commands, poll, command, daemon, up, log, running, limit, presses>>

-----------------------------------------------------------------------------
(* run: the loop applies one event or one key at a time                    *)

ApplyNext ==
  /\ running /\ rx # <<>>
  /\ app' = Apply(app, Head(rx)) /\ rx' = Tail(rx)
  /\ UNCHANGED <<commands, poll, command, audit, running, presses, worldVars>>

Press(key) ==
  /\ running /\ presses < limit.presses /\ key \in limit.keys
  /\ presses' = presses + 1
  /\ LET did == HandleKey(app, key)
         quits == did.out # <<>> /\ did.out[1].is = "quit"
     IN /\ app' = did.app /\ running' = ~quits
        /\ commands' = IF quits THEN commands ELSE commands \o did.out
  /\ UNCHANGED <<rx, poll, command, audit, daemon, up, log, limit, changes>>

TuiNext ==
  \/ \E t \in Pollers : Poll(t) \/ SendPolled(t)
  \/ Refresh \/ CarryOut \/ FetchAfter \/ SendDone
  \/ Subscribe \/ ReadRecord \/ SendRecord \/ EndSession
  \/ ApplyNext
  \/ \E key \in limit.keys : Press(key)
  \/ WorldNext /\ UNCHANGED clientVars

(* The runtime polls every ready task, its intervals keep ticking, and     *)
(* select takes each ready branch again and again: a task that stays ready *)
(* takes steps.  A send never waits, the channel has no bound but MaxRx,   *)
(* so a task with an event to send is ready.  This is fairness of each     *)
(* task's actions with the condition that enables one of them written out. *)
PollReady(t) == running /\ t \in limit.tasks
CommandReady == running /\ (command.held # <<>> \/ command.follow # "none" \/ commands # <<>>)
AuditReady ==
  /\ running
  /\ \/ audit.held # <<>>
     \/ audit.open /\ (~up \/ audit.last < Len(log))
     \/ ~audit.open /\ up /\ "audit" \in limit.tasks
TuiFairness ==
  /\ \A t \in Pollers : <>[]PollReady(t) => []<><<poll'[t] # poll[t]>>_tuiVars
  /\ <>[]CommandReady => []<><<command' # command>>_tuiVars
  /\ <>[]AuditReady => []<><<audit' # audit>>_tuiVars
  /\ WF_tuiVars(ApplyNext)

TuiSpec == TuiInit /\ [][TuiNext]_tuiVars /\ TuiFairness

-----------------------------------------------------------------------------
(* Properties                                                              *)

(* The list on screen always has its highlighted row on screen, in a       *)
(* viewport of any height, and it is the row the keys act on, whatever was *)
(* polled, popped or filtered since (visible_list, visible_audit_window).  *)
Viewports == 0 .. 3
HighlightVisible ==
  \A rows \in Viewports :
    HasSplit(app.tab) => Screen(app, rows).highlighted = AtIndex(ListOf(app), app.selected)

(* A list that is not empty always has a selected row: every way a list    *)
(* shrinks ends in clamp_selection.                                        *)
SelectionInRange == ListOf(app) # <<>> => app.selected < Len(ListOf(app))

(* Without an Events filter the detail pane describes the highlighted row. *)
DetailMatchesHighlight ==
  app.filter = "all" =>
    \A rows \in Viewports :
      HasSplit(app.tab) => Screen(app, rows).detail = Screen(app, rows).highlighted

(* Across sessions of the audit stream, whether they ended cleanly or not, *)
(* no record is missing between two lines: a line is at most one sequence  *)
(* number ahead of the line before it.                                     *)
AuditNoGaps ==
  /\ app.audit # <<>> /\ Len(app.audit) < MaxAuditLines => app.audit[1].seq = 1
  /\ \A i \in 1 .. Len(app.audit) - 1 : app.audit[i + 1].seq <= app.audit[i].seq + 1

(* The client never asks for a machine-wide change, whatever was chosen in *)
(* the traffic form ("TUI does not elevate", app.rs:1086).                 *)
DoesNotElevate ==
  \A i \in DOMAIN commands :
    commands[i].is \in {"traffic-block", "traffic-unblock"} => commands[i].scope = "user"

(* Whatever keys, polls and records came in whatever order, the screen     *)
(* shows what the next key acts on, and that key stays within the user.    *)
TuiConsistent ==
  /\ TuiTypeOK /\ HighlightVisible /\ SelectionInRange
  /\ DetailMatchesHighlight /\ DoesNotElevate

(* When the capped Events buffer drops its oldest line, the line the user  *)
(* selected stays selected (no filter set, and it was not the one dropped). *)
SelectionSticks ==
  [][\/ rx = <<>> \/ rx' # Tail(rx) \/ Head(rx).is # "audit"
     \/ app.tab # "Events" \/ app.filter # "all" \/ app.audit = <<>>
     \/ Len(app.audit) = MaxAuditLines /\ app.selected = 0
     \/ AtIndex(app'.audit, app'.selected) = AtIndex(app.audit, app.selected)]_tuiVars

(* An open answer form keeps the prompt it was opened on while lists are   *)
(* polled underneath it: only a key, or the notice of a failed command,    *)
(* touches a form.                                                         *)
FormsKeepTheirSubject ==
  [][(presses' = presses /\ app.overlay.is \in {"add", "answer", "traffic"})
       => app'.overlay \in {app.overlay, Notice}]_tuiVars

(* Nothing that arrives from the daemon moves what the user is looking at. *)
UserKeepsPlace == SelectionSticks /\ FormsKeepTheirSubject

(* Once the daemon stays up, what the client shows becomes and stays what  *)
(* the daemon has: late answers and answers to other tasks' requests are   *)
(* always followed by fresher ones.  A list with a separator in one of its *)
(* paths is not compared: the rows are not escaped.                        *)
Unmarked(rows) ==
  \A i \in DOMAIN rows : {",", "|"} \cap ToSet(rows[i].executable) = {}
PromptRows(d) ==
  LET p == Pending(d)
  IN [i \in DOMAIN p |-> [id |-> p[i].id, executable |-> p[i].executable, left |-> p[i].left]]
ListsShown ==
  /\ Unmarked(daemon.rules) => app.rules = daemon.rules
  /\ Unmarked(daemon.prompts) => app.prompts = PromptRows(daemon)
  /\ app.processes = daemon.processes
UpToDate ==
  /\ commands = <<>>
  /\ "lists" \in limit.tasks => ListsShown
  /\ "status" \in limit.tasks => app.link = "up" /\ app.status = StatusBody(daemon, Uid)
  /\ "audit" \in limit.tasks /\ log # <<>> => app.audit # <<>> /\ Last(app.audit) = Last(log)
Converges == <>[](up /\ running) => <>[]UpToDate
=============================================================================
