----------------------------- MODULE LaunchPlan -----------------------------
(***************************************************************************)
(* What the execution lane promises its user, without outbox, commands,    *)
(* events or windows: after GO the integrator is launched; another item is *)
(* launched once everything it waits for is verified, next to no active    *)
(* item it conflicts with and only into a free place; a launch that lapsed *)
(* can be repeated for the integrator alone; a bound session stays bound.  *)
(***************************************************************************)
EXTENDS Naturals, FiniteSets

CONSTANTS Items, Deps, Conflicts, Root, Places

VARIABLE stage   \* item -> "waiting", "open", "lapsed", "bound" or "verified"

Open(i) == stage' = [stage EXCEPT ![i] = "open"]

FreePlace == Cardinality({i \in Items : stage[i] \in {"open", "bound", "verified"}}) < Places

Init == stage = [i \in Items |-> "waiting"]

Go == stage = [i \in Items |-> "waiting"] /\ Open(Root)

Start(i) ==
  /\ stage[i] = "waiting"
  /\ Deps[i] # {}
  /\ \A d \in Deps[i] : stage[d] = "verified"
  /\ \A j \in Items : <<i, j>> \in Conflicts => stage[j] \in {"waiting", "verified"}
  /\ FreePlace
  /\ Open(i)

Lapse(i) == stage[i] = "open" /\ stage' = [stage EXCEPT ![i] = "lapsed"]

Repeat == stage[Root] = "lapsed" /\ FreePlace /\ Open(Root)

Bind(i) == stage[i] = "open" /\ stage' = [stage EXCEPT ![i] = "bound"]

Verify(i) == stage[i] = "bound" /\ stage' = [stage EXCEPT ![i] = "verified"]

Next ==
  \/ Go \/ Repeat
  \/ \E i \in Items : Start(i) \/ Lapse(i) \/ Bind(i) \/ Verify(i)

Spec == Init /\ [][Next]_stage
=============================================================================
