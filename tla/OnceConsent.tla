---------------------------- MODULE OnceConsent ----------------------------
(***************************************************************************)
(* What the prompt queue promises for one-shot answers, seen one key       *)
(* (executable, address, port) at a time and without ids, deadlines or     *)
(* tables.  A key is asked about, the operator may answer "once", and an   *)
(* "allow once" is spent by at most one connect:                           *)
(*                                                                         *)
(*        none -> asked -> allow -> (granted) none                         *)
(*                      -> deny  -> none                                   *)
(*                                                                         *)
(* Every other edge goes to "none" (a lapse) or to "asked" (a lapse and a  *)
(* new question in the same call).  No edge enters "allow" except from     *)
(* "asked", together with one more answer of the operator.                 *)
(***************************************************************************)
EXTENDS Integers

CONSTANT Key

VARIABLES consent,   \* where each key stands
          given,     \* number of "allow once" answers ever given for a key
          granted    \* number of connects accepted on such an answer

consentVars == <<consent, given, granted>>

ConsentInit ==
  /\ consent = [k \in Key |-> "none"]
  /\ given   = [k \in Key |-> 0]
  /\ granted = [k \in Key |-> 0]

Quiet(k) == given'[k] = given[k] /\ granted'[k] = granted[k]

(* Nothing happens to k, it lapses, or it is asked about (again). *)
Lapse(k) == consent'[k] \in {consent[k], "none", "asked"} /\ Quiet(k)

(* The operator answers the question about k with "once". *)
AnswerOnce(k) ==
  /\ consent[k] = "asked"
  /\ \/ consent'[k] = "deny" /\ Quiet(k)
     \/ /\ consent'[k] = "allow"
        /\ given'[k] = given[k] + 1
        /\ granted'[k] = granted[k]

(* A connect is accepted on k's answer, which is gone with it. *)
Spend(k) ==
  /\ consent[k] = "allow" /\ consent'[k] = "none"
  /\ granted'[k] = granted[k] + 1 /\ given'[k] = given[k]

(* One call may let any number of keys lapse and does more to at most one. *)
ConsentNext ==
  /\ \A k \in Key : Lapse(k) \/ AnswerOnce(k) \/ Spend(k)
  /\ \A j, k \in Key : ~Lapse(j) /\ ~Lapse(k) => j = k

ConsentSpec == ConsentInit /\ [][ConsentNext]_consentVars
=============================================================================
