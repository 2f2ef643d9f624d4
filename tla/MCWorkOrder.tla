----------------------------- MODULE MCWorkOrder -----------------------------
(* A plan of three items for TLC: a fan below the integrator, with and     *)
(* without shared write scopes.                                            *)
EXTENDS WorkOrder, TLC

CONSTANTS lead, left, right

ThreeItems == {lead, left, right}
Position == [i \in ThreeItems |-> CASE i = lead -> 0 [] i = left -> 1 [] i = right -> 2]
Fan == [i \in ThreeItems |-> IF i = lead THEN {} ELSE {lead}]
NoneAssigned == {}
NoConflict == {}
SharedScope == {<<left, right>>, <<right, left>>}

Commands == Permutations(Procs)
=============================================================================
