------------------------------- MODULE MCTui --------------------------------
(* Instances of Tui for TLC. *)
EXTENDS Tui

Plain == <<"/", "a">>
Comma == <<"/", ",">>
Rule(id) == [id |-> id, executable |-> Plain, verdict |-> "Deny", port |-> 1]
Prompt(id, left) == [id |-> id, executable |-> Plain, left |-> left, state |-> "pending"]
Process == [pid |-> 1, start |-> 1, uid |-> 1, verdict |-> "deny", ports |-> <<>>,
            executable |-> Plain, cmdline |-> <<>>]
Busy ==
  [rules |-> <<Rule(1), Rule(2)>>, saved |-> <<Rule(1)>>, prompts |-> <<Prompt(1, 1)>>,
   processes |-> <<Process>>, paused |-> FALSE, bind |-> "nfqueue", machine |-> "open",
   user |-> [u \in {0, 1} |-> "open"], connections |-> 1, denied |-> 0,
   stats |-> [l \in {} |-> <<>>]]
Fresh == [Busy EXCEPT !.rules = <<>>, !.saved = <<>>, !.prompts = <<>>, !.processes = <<>>]

Add(id, text) == << <<"rules">>, <<"add">>, Numeral(id), text, <<"allow">>, <<"1">> >>
Delete(id) == << <<"rules">>, <<"delete">>, Numeral(id)>>

(* Every key from every tab; a rule typed in; rules changing under the     *)
(* list; prompts changing under the form; the Events buffer overflowing;   *)
(* and traffic commands to a daemon that goes down.                        *)
Idle == [tasks |-> {}, keys |-> {}, presses |-> 0, changes |-> {}, budget |-> 0,
         faults |-> {"none"}, paths |-> {Plain}, ctl |-> {}, daemon |-> Busy]
AllKeys == ControlKeys \cup {"q", "?", "1", "2", "3", "4", "5", "6", "h", "l", "j", "k", "a", "d",
                             "r", "t", "b", "B", "u", "f", "c"}
Anything == [Idle EXCEPT !.keys = AllKeys, !.presses = 4]
Typing == [Idle EXCEPT !.keys = {"3", "a", "/", "1", " ", "Tab", "Backspace", "Enter"}, !.presses = 6]
Rules == [Idle EXCEPT !.tasks = {"lists"}, !.keys = {"3", "j", "d", "r"}, !.presses = 3,
                      !.changes = {"ctl"}, !.budget = 1, !.faults = {"none", "store"},
                      !.ctl = {Add(3, Plain), Add(3, Comma), Delete(1), Delete(2)}]
Answers == [Idle EXCEPT !.tasks = {"lists"}, !.keys = {"4", "Enter", "Tab", "a"}, !.presses = 4,
                        !.changes = {"prompt", "age"}, !.budget = 2]
Events == [Idle EXCEPT !.tasks = {"audit"}, !.keys = {"5", "j", "f"}, !.presses = 3,
                       !.changes = {"audit", "close", "down"}, !.budget = 4]
Blocks == [Idle EXCEPT !.tasks = {"status"}, !.keys = {"t", "Tab", "Enter", "b"}, !.presses = 3,
                       !.changes = {"down"}, !.budget = 1, !.faults = {"none", "apply"},
                       !.daemon = Fresh]
Scenarios == {Anything, Typing, Rules, Answers, Events, Blocks}
=============================================================================
