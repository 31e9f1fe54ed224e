--------------------------- MODULE MCChildSpawn ---------------------------
(***************************************************************************)
(* Two calls and two recoverers.  A second claim or visit, calls that      *)
(* overlap, hosts that answer and faults of recovery all happen, but not   *)
(* all of them in one behaviour: what counts as trouble is bounded by      *)
(* MaxTrouble.  None of it is under fairness.                              *)
(***************************************************************************)
EXTENDS ChildSpawn, TLC

CONSTANT MaxTrouble

Beyond(n) == IF n > 1 THEN n - 1 ELSE 0
Busy == {p \in Calls : call[p].pc # "idle"}
HostAnswers == Cardinality({g \in Groups : \E e \in finisher[g] : e.host})
               + Cardinality({l \in late : l.result # "spawned"})
Trouble == faults + Beyond(step.visit) + Beyond(Cardinality(Busy)) + Beyond(claims)
           + HostAnswers

MCFairSpec == Init /\ [][Next /\ Trouble' <= MaxTrouble]_vars /\ Fairness
===========================================================================
