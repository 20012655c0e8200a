---------------------------- MODULE MCRuleStore ----------------------------
(* Instances of RuleStore for TLC. *)
EXTENDS RuleStore

CONSTANTS app, rel, p1, d1, d2

Exes  == {app, rel}
Absolute == {app}
Ports == {p1}
Daemons == {d1, d2}
=============================================================================
