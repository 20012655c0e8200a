---------------------------- MODULE MCAuditLog ----------------------------
(* Instances of AuditLog for TLC. *)
EXTENDS AuditLog

CONSTANTS s1, s2, a

TwoSessions == {s1, s2}
OneId == {a}
=============================================================================
