-------------------------------- MODULE World -------------------------------
(***************************************************************************)
(* What a client lives with: the daemon, which may be down, and all that   *)
(* changes it behind the client's back.  Other operators use interfirectl, *)
(* applications cause prompts and audit records, prompts run out, and the  *)
(* daemon stops and starts.                                                *)
(***************************************************************************)
EXTENDS IpcService

CONSTANTS MaxLog,    \* bound: audit records
          Scenario   \* the daemon at the start, and what happens how often

VARIABLES daemon, up, log,
          limit,     \* the scenario that is played
          changes    \* how many changes it has seen

worldVars == <<daemon, up, log, limit, changes>>

WorldInit ==
  /\ limit \in Scenario
  /\ daemon = limit.daemon /\ up = TRUE /\ log = <<>> /\ changes = 0

Change(kind) ==
  /\ kind \in limit.changes /\ changes < limit.budget
  /\ changes' = changes + 1 /\ UNCHANGED limit

(* A connection of the given user: no answer if there is no daemon. *)
AskAs(uid, frame, fault) ==
  IF up THEN Handle(daemon, uid, frame, fault) ELSE Answered(daemon, <<>>)

(* Another operator, root, runs interfirectl. *)
OthersRun(args) ==
  /\ Change("ctl") /\ up /\ CtlFrame(args) # NoCommand
  /\ daemon' = AskAs(0, CtlFrame(args), "none").daemon
  /\ UNCHANGED <<up, log>>

NewPrompt(text) ==
  /\ Change("prompt") /\ up
  /\ daemon' = [daemon EXCEPT !.prompts =
       Append(@, [id |-> Len(@) + 1, executable |-> text, left |-> 1, state |-> "pending"])]
  /\ UNCHANGED <<up, log>>

(* The last second of a prompt passes, and then it expires. *)
AgePrompt(i) ==
  /\ Change("age") /\ up /\ daemon.prompts[i].state = "pending"
  /\ daemon' = [daemon EXCEPT !.prompts[i] =
       IF @.left > 0 THEN [@ EXCEPT !.left = @ - 1] ELSE [@ EXCEPT !.state = "expired"]]
  /\ UNCHANGED <<up, log>>

AppendAudit(outcome) ==
  /\ Change("audit") /\ up /\ Len(log) < MaxLog
  /\ log' = Append(log, [seq |-> Len(log) + 1, outcome |-> outcome])
  /\ UNCHANGED <<up, daemon>>

GoDown == Change("down") /\ up /\ up' = FALSE /\ UNCHANGED <<daemon, log>>

(* What was only in memory is gone; the rules, the preferences and the log *)
(* are read back.                                                          *)
Restarted(d) ==
  [d EXCEPT !.rules = d.saved, !.prompts = <<>>, !.processes = <<>>, !.connections = 0,
            !.denied = 0, !.stats = [label \in DOMAIN @ |-> <<>>]]
Restart ==
  /\ ~up /\ up' = TRUE
  /\ daemon' = Restarted(daemon)
  /\ UNCHANGED <<log, limit, changes>>

WorldNext ==
  \/ \E args \in limit.ctl : OthersRun(args)
  \/ \E text \in limit.paths : NewPrompt(text)
  \/ \E i \in DOMAIN daemon.prompts : AgePrompt(i)
  \/ \E outcome \in {"allow", "deny"} : AppendAudit(outcome)
  \/ GoDown \/ Restart
=============================================================================
