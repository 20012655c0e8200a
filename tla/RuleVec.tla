------------------------------ MODULE RuleVec ------------------------------
(***************************************************************************)
(* verdict_for() as the code computes it: RuleSet is a vector in insertion *)
(* order, filtered and folded with max_by_key, which keeps the last of     *)
(* equal maxima.                                                           *)
(***************************************************************************)
EXTENDS RulesEngine, Sequences

(* Defect: the first of two equally constrained rules is kept, not the one *)
(* with the higher id.                                                     *)
BugFirstWins(s, r) == Constrained(r) > Constrained(s)
(* max_by_key replaces the maximum so far by a later element unless the    *)
(* later one is smaller.                                                   *)
Replaces(s, r) == ~Outranks(s, r)

(* The maximum of the first n rules, none or one, is {} or {r}. *)
VecVerdict(vec, conn) ==
  LET best[n \in 0 .. Len(vec)] ==
        IF n = 0 THEN {}
        ELSE IF Matches(vec[n], conn) /\ \A s \in best[n - 1] : Replaces(s, vec[n])
        THEN {vec[n]} ELSE best[n - 1]
  IN IF best[Len(vec)] = {} THEN "Prompt"
     ELSE (CHOOSE r \in best[Len(vec)] : TRUE).verdict
=============================================================================
