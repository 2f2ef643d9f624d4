-------------------------- MODULE WorkOrder_proofs --------------------------
(***************************************************************************)
(* What the runs of MCWorkOrder show on three items, for every plan that   *)
(* GO accepts and any number of overlapping commands.                      *)
(***************************************************************************)
EXTENDS WorkOrder, FiniteSetTheorems, TLAPS

Unchanged == UNCHANGED vars

\* The names a step writes into the tables are names of the tables.
LEMMA Names ==
  /\ Pc = {"idle", "prepared", "sealed", "marked", "advance", "advancing", "emitting"}
  /\ {"pending", "ready", "dispatched", "running", "reported", "verified"} \subseteq ItemState
  /\ {"none", "pending", "in_flight", "delivered", "failed"} \subseteq SpawnStatus
  /\ {"idle", "spawning", "hasTab", "noTab", "sentTab", "sentError", "done"} \subseteq BridgeState
BY DEF Pc, ItemState, SpawnStatus, BridgeState

LEMMA AtType ==
  ASSUME NEW pc \in Pc, NEW r \in Items \cup {NoItem}, NEW q \in Seq(Items),
         NEW n \in {"advance", "end"}
  PROVE  At(pc, r, q, n) \in Command
BY DEF At, Command

LEMMA IdleType == Idle \in Command
<1>1. "idle" \in Pc /\ <<>> \in Seq(Items)
  BY DEF Pc
<1>2. QED
  BY <1>1, AtType DEF Idle

\* What a finished command does to the process table and to the frontend.
LEMMA FinishType ==
  ASSUME TypeOK, NEW p \in Procs, NEW ok \in BOOLEAN, Finish(p, ok)
  PROVE  /\ proc' \in [Procs -> Command]
         /\ bridge' \in [Items -> BridgeState]
<1>1. proc' \in [Procs -> Command]
  BY IdleType DEF Finish, TypeOK
<1>2. \A i \in Items : Answered(i, ok) \in BridgeState
  BY Names DEF Answered
<1>3. QED
  BY <1>1, <1>2 DEF Finish, TypeOK

LEMMA GotoType ==
  ASSUME proc \in [Procs -> Command], NEW p \in Procs, NEW pc \in Pc, Goto(p, pc)
  PROVE  proc' \in [Procs -> Command]
BY DEF Goto, Command

LEMMA DispatchableItems == Dispatchable \subseteq Items
BY DEF Dispatchable

LEMMA InitType == Init => TypeOK
<1> SUFFICES ASSUME Init PROVE TypeOK
  OBVIOUS
<1>1. NoRow \in SpawnRow
  BY Names DEF NoRow, SpawnRow
<1>2. QED
  BY <1>1, IdleType, Names DEF Init, TypeOK

LEMMA StepType == TypeOK /\ [Next]_vars => TypeOK'
<1> SUFFICES ASSUME TypeOK, [Next]_vars PROVE TypeOK'
  OBVIOUS
<1>0. Integrator \in Items
  BY PlanAssumption
<1>1. ASSUME NEW p \in Procs, GoStart(p) PROVE TypeOK'
  <2>1. proc' \in [Procs -> Command]
    <3>1. <<>> \in Seq(Items) /\ "advance" \in Pc /\ "prepared" \in Pc
      BY Names
    <3>2. At(IF order = "sealed" THEN "advance" ELSE "prepared", NoItem, <<>>, "advance") \in Command
      BY <3>1, AtType
    <3>3. QED
      BY <1>1, <3>2 DEF GoStart, TypeOK
  <2>2. QED
    BY <1>1, <2>1 DEF TypeOK, GoStart
<1>2. ASSUME NEW p \in Procs, GoFail(p) PROVE TypeOK'
  BY <1>2, FinishType DEF TypeOK, GoFail
<1>3. ASSUME NEW p \in Procs, GoSeal(p) PROVE TypeOK'
  <2>1. proc' \in [Procs -> Command]
    BY <1>3, GotoType, IdleType, Names DEF GoSeal, TypeOK
  <2>2. item' \in [Items -> ItemState]
    BY <1>3, Names DEF GoSeal, TypeOK
  <2>3. spawn' \in [Items -> SpawnRow]
    BY <1>3, <1>0, Names DEF GoSeal, TypeOK, SpawnRow
  <2>4. QED
    BY <1>3, <2>1, <2>2, <2>3 DEF TypeOK, GoSeal
<1>4. ASSUME NEW p \in Procs, GoMark(p) PROVE TypeOK'
  <2>1. proc' \in [Procs -> Command]
    BY <1>4, GotoType, Names DEF GoMark, TypeOK
  <2>2. spawn' \in [Items -> SpawnRow]
    BY <1>4, <1>0, Names DEF GoMark, TypeOK, SpawnRow
  <2>3. QED
    BY <1>4, <2>1, <2>2 DEF TypeOK, GoMark
<1>5. ASSUME NEW p \in Procs, GoDispatch(p) PROVE TypeOK'
  <2>1. CASE item[Integrator] = "ready"
    <3>1. item' \in [Items -> ItemState]
      BY <1>5, <1>0, <2>1, Names DEF GoDispatch, TypeOK
    <3>2. proc' \in [Procs -> Command]
      <4>1. <<Integrator>> \in Seq(Items) /\ "emitting" \in Pc
        BY <1>0, Names
      <4>2. proc' = [proc EXCEPT ![p].pc = "emitting", ![p].queue = <<Integrator>>]
        BY <1>5, <2>1 DEF GoDispatch
      <4>3. QED
        BY <4>1, <4>2 DEF TypeOK, Command
    <3>3. QED
      BY <1>5, <2>1, <3>1, <3>2 DEF TypeOK, GoDispatch
  <2>2. CASE item[Integrator] # "ready"
    BY <1>5, <2>2, FinishType DEF TypeOK, GoDispatch
  <2>3. QED
    BY <2>1, <2>2
<1>6. ASSUME NEW p \in Procs, Emit(p) PROVE TypeOK'
  <2>1. /\ proc[p] \in Command
        /\ proc[p].queue \in Seq(Items) /\ proc[p].queue # <<>>
    BY <1>6 DEF Emit, TypeOK, Command
  <2>2. Head(proc[p].queue) \in Items /\ Tail(proc[p].queue) \in Seq(Items)
    BY <2>1
  <2>3. proc' \in [Procs -> Command]
    BY <1>6, <2>2 DEF Emit, TypeOK, Command
  <2>4. wire' \in [Items -> Nat]
    BY <1>6, <2>2 DEF Emit, TypeOK
  <2>5. QED
    BY <1>6, <2>3, <2>4 DEF TypeOK, Emit
<1>7. ASSUME NEW p \in Procs, EmitFail(p) PROVE TypeOK'
  <2>1. spawn' \in [Items -> SpawnRow]
    BY <1>7, Names DEF EmitFail, TypeOK, SpawnRow
  <2>2. QED
    BY <1>7, <2>1, FinishType DEF TypeOK, EmitFail
<1>8. ASSUME NEW p \in Procs, EmitDone(p) PROVE TypeOK'
  <2>1. CASE proc[p].next = "advance" /\ Goto(p, "advance") /\ UNCHANGED bridge
    BY <1>8, <2>1, GotoType, Names DEF TypeOK, EmitDone
  <2>2. CASE proc[p].next = "end" /\ Finish(p, TRUE)
    BY <1>8, <2>2, FinishType DEF TypeOK, EmitDone
  <2>3. QED
    BY <1>8, <2>1, <2>2 DEF EmitDone
<1>9. ASSUME NEW p \in Procs, AdvanceRead(p) PROVE TypeOK'
  <2>1. CASE Finish(p, NothingToAdvance)
    <3>1. NothingToAdvance \in BOOLEAN
      BY DEF NothingToAdvance
    <3>2. QED
      BY <1>9, <2>1, <3>1, FinishType DEF TypeOK, AdvanceRead
  <2>2. CASE /\ proc' = [proc EXCEPT ![p].pc = "advancing", ![p].todo = Dispatchable,
                                     ![p].queue = <<>>, ![p].next = "end"]
             /\ UNCHANGED bridge
    <3>1. proc' \in [Procs -> Command]
      <4>1. <<>> \in Seq(Items) /\ "advancing" \in Pc /\ Dispatchable \in SUBSET Items
        BY Names, DispatchableItems
      <4>2. \A c \in Command, D \in SUBSET Items :
              [c EXCEPT !.pc = "advancing", !.todo = D, !.queue = <<>>, !.next = "end"] \in Command
        BY <4>1 DEF Command
      <4>3. proc' = [proc EXCEPT ![p] = [proc[p] EXCEPT !.pc = "advancing", !.todo = Dispatchable,
                                                        !.queue = <<>>, !.next = "end"]]
        BY <2>2 DEF TypeOK
      <4>4. QED
        BY <4>1, <4>2, <4>3 DEF TypeOK
    <3>2. QED
      BY <1>9, <2>2, <3>1 DEF TypeOK, AdvanceRead
  <2>3. QED
    BY <1>9, <2>1, <2>2 DEF AdvanceRead
<1>10. ASSUME NEW p \in Procs, AdvanceItem(p) PROVE TypeOK'
  <2> DEFINE i == FirstOf(proc[p].todo)
  <2> HIDE DEF i
  <2>1. proc[p] \in Command
    BY DEF TypeOK
  <2>2. CASE i \in Dispatchable /\ spawn[i].status = "none"
    <3>1. i \in Items
      BY <2>2, DispatchableItems
    <3>2. /\ item' = [item EXCEPT ![i] = "dispatched"]
          /\ spawn' = [spawn EXCEPT ![i] = [status |-> "in_flight", complete |-> TRUE]]
          /\ proc' = [proc EXCEPT ![p].todo = @ \ {i}, ![p].queue = Append(@, i)]
      BY <1>10, <2>2 DEF AdvanceItem, i
    <3>3. Append(proc[p].queue, i) \in Seq(Items)
      BY <2>1, <3>1 DEF Command
    <3>4. proc' \in [Procs -> Command]
      BY <2>1, <3>2, <3>3 DEF TypeOK, Command
    <3>5. spawn' \in [Items -> SpawnRow] /\ item' \in [Items -> ItemState]
      BY <3>1, <3>2, Names DEF TypeOK, SpawnRow
    <3>6. QED
      BY <1>10, <3>4, <3>5 DEF TypeOK, AdvanceItem
  <2>3. CASE ~(i \in Dispatchable /\ spawn[i].status = "none")
    <3>1. proc' = [proc EXCEPT ![p].todo = @ \ {i}] /\ UNCHANGED <<item, spawn>>
      BY <1>10, <2>3 DEF AdvanceItem, i
    <3>2. proc' \in [Procs -> Command]
      BY <2>1, <3>1 DEF TypeOK, Command
    <3>3. QED
      BY <1>10, <3>1, <3>2 DEF TypeOK, AdvanceItem
  <2>4. QED
    BY <2>2, <2>3
<1>11. ASSUME NEW p \in Procs, AdvanceFail(p) PROVE TypeOK'
  BY <1>11, FinishType DEF TypeOK, AdvanceFail
<1>12. ASSUME NEW p \in Procs, AdvanceEnd(p) PROVE TypeOK'
  BY <1>12, GotoType, Names DEF TypeOK, AdvanceEnd
<1>13. ASSUME NEW p \in Procs, NEW i \in Items, SpawnResult(p, i) PROVE TypeOK'
  <2>1. At("advance", i, <<>>, "end") \in Command
    <3>1. "advance" \in Pc /\ <<>> \in Seq(Items)
      BY Names
    <3>2. QED
      BY <3>1, AtType
  <2>2. proc' \in [Procs -> Command]
    BY <1>13, <2>1 DEF SpawnResult, TypeOK
  <2>3. item' \in [Items -> ItemState] /\ bridge' \in [Items -> BridgeState]
    <3>1. /\ \A tab \in BOOLEAN : (IF tab THEN "sentTab" ELSE "sentError") \in BridgeState
          /\ \A tab \in BOOLEAN : (IF tab THEN "noTab" ELSE "idle") \in BridgeState
          /\ \A tab \in BOOLEAN : (IF tab THEN "running" ELSE item[i]) \in ItemState
      BY Names DEF TypeOK
    <3>2. bridge' \in [Items -> BridgeState]
      BY <1>13, <3>1 DEF SpawnResult, TypeOK
    <3>3. item' \in [Items -> ItemState]
      BY <1>13, <3>1 DEF SpawnResult, TypeOK
    <3>4. QED
      BY <3>2, <3>3
  <2>4. spawn' \in [Items -> SpawnRow]
    <3>1. \A s \in SpawnStatus : [spawn EXCEPT ![i].status = s] \in [Items -> SpawnRow]
      BY DEF TypeOK, SpawnRow
    <3>2. \/ \E s \in SpawnStatus : spawn' = [spawn EXCEPT ![i].status = s]
          \/ spawn' = spawn
      <4>1. \A tab \in BOOLEAN : (IF tab THEN "delivered" ELSE "failed") \in SpawnStatus
        BY Names
      <4>2. QED
        BY <1>13, <4>1 DEF SpawnResult
    <3>3. QED
      BY <3>1, <3>2 DEF TypeOK
  <2>5. QED
    BY <1>13, <2>2, <2>3, <2>4 DEF TypeOK, SpawnResult
<1>14. ASSUME NEW p \in Procs, Retry(p) PROVE TypeOK'
  <2>1. At("emitting", NoItem, <<Integrator>>, "end") \in Command
    <3>1. "emitting" \in Pc /\ <<Integrator>> \in Seq(Items)
      BY <1>0, Names
    <3>2. QED
      BY <3>1, AtType
  <2>2. proc' \in [Procs -> Command]
    BY <1>14, <2>1 DEF Retry, TypeOK
  <2>3. spawn' \in [Items -> SpawnRow]
    BY <1>0, <1>14, Names DEF Retry, TypeOK, SpawnRow
  <2>4. QED
    BY <1>14, <2>2, <2>3 DEF TypeOK, Retry
<1>15. ASSUME NEW i \in Items, FrontendStep(i) \/ LoseEvent(i) PROVE TypeOK'
  <2>1. wire' \in [Items -> Nat]
    BY <1>15 DEF FrontendStep, LoseEvent, Receive, OpenTab, OpenTabFail, TypeOK
  <2>2. bridge' \in [Items -> BridgeState]
    BY <1>15, Names DEF FrontendStep, LoseEvent, Receive, OpenTab, OpenTabFail, TypeOK
  <2>3. tabs' \in [Items -> Nat]
    BY <1>15 DEF FrontendStep, LoseEvent, Receive, OpenTab, OpenTabFail, TypeOK
  <2>4. QED
    BY <1>15, <2>1, <2>2, <2>3
    DEF FrontendStep, LoseEvent, Receive, OpenTab, OpenTabFail, TypeOK
<1>16. ASSUME NEW i \in Items, Report(i) \/ PassGates(i) PROVE TypeOK'
  <2>1. item' \in [Items -> ItemState]
    BY <1>16, Names DEF Report, PassGates, TypeOK
  <2>2. QED
    BY <1>16, <2>1 DEF Report, PassGates, TypeOK
<1>17. ASSUME CancelDraft \/ SetAutoAdvance PROVE TypeOK'
  BY <1>17 DEF TypeOK, CancelDraft, SetAutoAdvance
<1>18. ASSUME Reload PROVE TypeOK'
  <2>1. proc' \in [Procs -> Command]
    BY <1>18 DEF Reload, TypeOK, Command
  <2>2. QED
    BY <1>18, <2>1, Names DEF TypeOK, Reload
<1>19. ASSUME Crash PROVE TypeOK'
  BY <1>19, IdleType, Names DEF TypeOK, Crash
<1>20. ASSUME Unchanged PROVE TypeOK'
  BY <1>20 DEF TypeOK, Unchanged, vars
<1>21. QED
  BY <1>1, <1>2, <1>3, <1>4, <1>5, <1>6, <1>7, <1>8, <1>9, <1>10, <1>11, <1>12,
     <1>13, <1>14, <1>15, <1>16, <1>17, <1>18, <1>19, <1>20
     DEF Next, CommandStep, Unchanged

\* Every state of the execution lane has the declared types.
THEOREM TypeCorrect == Spec => []TypeOK
BY InitType, StepType, PTL DEF Spec

-----------------------------------------------------------------------------
(* The inductive invariant about the plan and the outbox.  What a step     *)
(* does to the three tables is one of the following statements.            *)

Seal ==
  /\ order = "draft" /\ order' = "sealed"
  /\ item' = [i \in Items |-> IF Deps[i] = {} THEN "ready" ELSE "pending"]
  /\ spawn' = [spawn EXCEPT ![Integrator].status = "pending"]

Claim ==
  /\ spawn[Integrator].status = "pending"
  /\ spawn' = [spawn EXCEPT ![Integrator] = [status |-> "in_flight", complete |-> TRUE]]
  /\ UNCHANGED <<order, item>>

Dispatch ==
  /\ item[Integrator] = "ready"
  /\ item' = [item EXCEPT ![Integrator] = "dispatched"]
  /\ UNCHANGED <<order, spawn>>

Requeue(i) ==
  /\ spawn[i].status = "in_flight"
  /\ spawn' = [spawn EXCEPT ![i].status = "pending"]
  /\ UNCHANGED <<order, item>>

Start(i) ==
  /\ order = "sealed"
  /\ spawn[i].status = "none"
  /\ \E chosen \in SUBSET Items : Eligible(i, chosen)
  /\ item' = [item EXCEPT ![i] = "dispatched"]
  /\ spawn' = [spawn EXCEPT ![i] = [status |-> "in_flight", complete |-> TRUE]]
  /\ UNCHANGED order

Bind(i) ==
  /\ spawn[i].status = "in_flight"
  /\ spawn' = [spawn EXCEPT ![i].status = "delivered"]
  /\ item' = [item EXCEPT ![i] = "running"]
  /\ UNCHANGED order

Refuse(i) ==
  /\ spawn[i].status = "in_flight"
  /\ spawn' = [spawn EXCEPT ![i].status = "failed"]
  /\ UNCHANGED <<order, item>>

Relaunch ==
  /\ order = "sealed"
  /\ spawn[Integrator].status \in {"pending", "in_flight", "failed"}
  /\ spawn[Integrator].complete
  /\ spawn' = [spawn EXCEPT ![Integrator].status = "in_flight"]
  /\ UNCHANGED <<order, item>>

Progress(i) ==
  /\ \E s \in {"reported", "verified"} :
       /\ item[i] \in {"running", "reported"}
       /\ item' = [item EXCEPT ![i] = s]
  /\ UNCHANGED <<order, spawn>>

Delete == order = "draft" /\ order' = "deleted" /\ UNCHANGED <<item, spawn>>

TableStep ==
  \/ UNCHANGED <<order, item, spawn>>
  \/ Seal \/ Claim \/ Dispatch \/ Relaunch \/ Delete
  \/ \E i \in Items : Requeue(i) \/ Start(i) \/ Bind(i) \/ Refuse(i) \/ Progress(i)

\* Nothing has happened to the plan before it is sealed.
UnsealedIsIdle ==
  order # "sealed" => \A i \in Items : item[i] = "pending" /\ spawn[i].status = "none"

\* LaunchAgreesWithItem with the requeued rows, which the seal makes too.
OpenLaunchWaits ==
  \A i \in Items :
    /\ spawn[i].status = "delivered" <=> item[i] \in {"running", "reported", "verified"}
    /\ spawn[i].status \in {"pending", "in_flight", "failed"} => item[i] \in {"ready", "dispatched"}

\* Every other launch came after the integrator's session was bound.
IntegratorFirst ==
  (\E i \in Items \ {Integrator} : spawn[i].status # "none")
    => spawn[Integrator].status = "delivered"

TablesOK ==
  /\ TypeOK
  /\ UnsealedIsIdle
  /\ DependenciesVerified
  /\ NoConflictingWriters
  /\ OpenLaunchWaits
  /\ IntegratorFirst
  /\ SpawnBudget

\* Whatever a command or the frontend does, the tables take one of those steps.
LEMMA StepOfTables == TablesOK /\ [Next]_vars => TableStep
<1> SUFFICES ASSUME TablesOK, [Next]_vars PROVE TableStep
  OBVIOUS
<1>0. TypeOK /\ Integrator \in Items
  BY PlanAssumption DEF TablesOK
<1>1. ASSUME NEW p \in Procs, GoSeal(p) PROVE TableStep
  BY <1>1 DEF GoSeal, TableStep, Seal
<1>2. ASSUME NEW p \in Procs, GoMark(p) PROVE TableStep
  BY <1>2 DEF GoMark, TableStep, Claim
<1>3. ASSUME NEW p \in Procs, GoDispatch(p) PROVE TableStep
  BY <1>3 DEF GoDispatch, TableStep, Dispatch
<1>4. ASSUME NEW p \in Procs, EmitFail(p) PROVE TableStep
  <2> DEFINE i == Head(proc[p].queue)
  <2>1. i \in Items
    <3>1. proc[p].queue \in Seq(Items) /\ proc[p].queue # <<>>
      BY <1>0, <1>4 DEF EmitFail, TypeOK, Command
    <3>2. QED
      BY <3>1
  <2> HIDE DEF i
  <2>2. /\ spawn' = [spawn EXCEPT ![i].status = IF @ = "in_flight" THEN "pending" ELSE @]
        /\ UNCHANGED <<order, item>>
    BY <1>4 DEF EmitFail, i
  <2>3. CASE spawn[i].status = "in_flight"
    <3>1. Requeue(i)
      BY <1>0, <2>1, <2>2, <2>3 DEF Requeue, TypeOK, SpawnRow
    <3>2. QED
      BY <2>1, <3>1 DEF TableStep
  <2>4. CASE spawn[i].status # "in_flight"
    <3>1. spawn' = spawn
      BY <1>0, <2>1, <2>2, <2>4 DEF TypeOK, SpawnRow
    <3>2. QED
      BY <2>2, <3>1 DEF TableStep
  <2>5. QED
    BY <2>3, <2>4
<1>5. ASSUME NEW p \in Procs, AdvanceItem(p) PROVE TableStep
  <2> DEFINE i == FirstOf(proc[p].todo)
  <2> HIDE DEF i
  <2>1. CASE i \in Dispatchable /\ spawn[i].status = "none"
    <3>1. i \in Items /\ \E chosen \in SUBSET Items : Eligible(i, chosen)
      BY <2>1 DEF Dispatchable
    <3>2. order = "sealed"
      <4>1. PICK d \in Deps[i] : item[d] = "verified"
        BY <3>1 DEF Eligible
      <4>2. d \in Items
        BY <3>1, PlanAssumption
      <4>3. QED
        BY <4>1, <4>2 DEF TablesOK, UnsealedIsIdle
    <3>3. /\ item' = [item EXCEPT ![i] = "dispatched"]
          /\ spawn' = [spawn EXCEPT ![i] = [status |-> "in_flight", complete |-> TRUE]]
          /\ UNCHANGED order
      BY <1>5, <2>1 DEF AdvanceItem, i
    <3>4. Start(i)
      BY <2>1, <3>1, <3>2, <3>3 DEF Start
    <3>5. QED
      BY <3>1, <3>4 DEF TableStep
  <2>2. CASE ~(i \in Dispatchable /\ spawn[i].status = "none")
    BY <1>5, <2>2 DEF AdvanceItem, i, TableStep
  <2>3. QED
    BY <2>1, <2>2
<1>6. ASSUME NEW p \in Procs, NEW i \in Items, SpawnResult(p, i) PROVE TableStep
  <2>1. CASE bridge[i] = "hasTab"
    <3>1. Bind(i) \/ UNCHANGED <<order, item, spawn>>
      BY <1>6, <2>1 DEF SpawnResult, Bind
    <3>2. QED
      BY <3>1 DEF TableStep
  <2>2. CASE bridge[i] # "hasTab"
    <3>1. item' = item
      BY <1>0, <1>6, <2>2 DEF SpawnResult, TypeOK
    <3>2. Refuse(i) \/ UNCHANGED <<order, item, spawn>>
      BY <1>6, <2>2, <3>1 DEF SpawnResult, Refuse
    <3>3. QED
      BY <3>2 DEF TableStep
  <2>3. QED
    BY <2>1, <2>2
<1>7. ASSUME NEW p \in Procs, Retry(p) PROVE TableStep
  BY <1>7 DEF Retry, TableStep, Relaunch
<1>8. ASSUME NEW i \in Items, Report(i) \/ PassGates(i) PROVE TableStep
  <2>1. Progress(i)
    BY <1>8 DEF Report, PassGates, Progress
  <2>2. QED
    BY <2>1 DEF TableStep
<1>9. CASE CancelDraft
  BY <1>9 DEF CancelDraft, TableStep, Delete
<1>10. ASSUME NEW p \in Procs,
               \/ GoStart(p) \/ GoFail(p) \/ Emit(p) \/ EmitDone(p)
               \/ AdvanceRead(p) \/ AdvanceFail(p) \/ AdvanceEnd(p)
        PROVE  TableStep
  BY <1>10 DEF GoStart, GoFail, Emit, EmitDone, AdvanceRead, AdvanceFail, AdvanceEnd, TableStep
<1>11. ASSUME NEW i \in Items, FrontendStep(i) \/ LoseEvent(i) PROVE TableStep
  BY <1>11 DEF FrontendStep, LoseEvent, Receive, OpenTab, OpenTabFail, TableStep
<1>12. CASE SetAutoAdvance \/ Reload \/ Crash \/ Unchanged
  BY <1>12 DEF SetAutoAdvance, Reload, Crash, Unchanged, vars, TableStep
<1>13. QED
  BY <1>1, <1>2, <1>3, <1>4, <1>5, <1>6, <1>7, <1>8, <1>9, <1>10, <1>11, <1>12
     DEF Next, CommandStep, Unchanged

\* Sets of items are finite, so their sizes can be compared.
LEMMA InUseFinite ==
  /\ InUse \in SUBSET Items /\ IsFiniteSet(InUse) /\ Cardinality(InUse) \in Nat
  /\ \A S \in SUBSET Items : IsFiniteSet(S) /\ Cardinality(S) \in Nat
<1>1. \A S \in SUBSET Items : IsFiniteSet(S) /\ Cardinality(S) \in Nat
  BY PlanAssumption, FS_Subset, FS_CardinalityType
<1>2. QED
  BY <1>1 DEF InUse

LEMMA BudgetStep == TablesOK /\ TypeOK' /\ TableStep => SpawnBudget'
<1> SUFFICES ASSUME TablesOK, TypeOK', TableStep PROVE SpawnBudget'
  OBVIOUS
<1>0. /\ TypeOK /\ Integrator \in Items /\ MaxNewPty \in Nat /\ MaxNewPty >= 1
      /\ SpawnBudget /\ OpenLaunchWaits /\ IntegratorFirst /\ UnsealedIsIdle
  BY PlanAssumption, BudgetAssumption DEF TablesOK
<1>1. ASSUME InUse' \subseteq InUse PROVE SpawnBudget'
  <2>1. Cardinality(InUse') <= Cardinality(InUse)
    BY <1>1, InUseFinite, FS_Subset
  <2>2. Cardinality(InUse') \in Nat
    BY <1>1, InUseFinite
  <2>3. QED
    BY <1>0, <2>1, <2>2, InUseFinite DEF SpawnBudget
<1>2. ASSUME InUse' \subseteq {Integrator} PROVE SpawnBudget'
  <2>1. IsFiniteSet({Integrator}) /\ Cardinality({Integrator}) = 1
    BY FS_Singleton
  <2>2. Cardinality(InUse') <= 1 /\ Cardinality(InUse') \in Nat
    <3>1. InUse' \in SUBSET Items
      BY <1>2, <1>0
    <3>2. QED
      BY <1>2, <2>1, <3>1, FS_Subset, InUseFinite
  <2>3. QED
    BY <1>0, <2>2 DEF SpawnBudget
<1>3. CASE UNCHANGED <<order, item, spawn>> \/ Delete \/ Dispatch
  BY <1>1, <1>3 DEF Delete, Dispatch, InUse
<1>4. CASE Seal
  <2>1. \A i \in Items : i # Integrator => spawn'[i].status = "none"
    BY <1>0, <1>4 DEF Seal, UnsealedIsIdle, TypeOK
  <2>2. QED
    BY <1>2, <2>1 DEF InUse
<1>5. CASE Claim
  <2>1. \A i \in Items : i # Integrator => spawn'[i] = spawn[i]
    BY <1>0, <1>5 DEF Claim, TypeOK
  <2>2. QED
    BY <1>0, <1>1, <1>5, <2>1 DEF Claim, InUse
<1>6. CASE Relaunch
  <2>1. \A i \in Items : i # Integrator => spawn'[i] = spawn[i]
    BY <1>0, <1>6 DEF Relaunch, TypeOK
  <2>2. \A i \in Items : i # Integrator => spawn[i].status = "none"
    BY <1>0, <1>6 DEF Relaunch, IntegratorFirst
  <2>3. QED
    BY <1>2, <2>1, <2>2 DEF InUse
<1>7. ASSUME NEW i \in Items, Requeue(i) \/ Bind(i) \/ Refuse(i) \/ Progress(i) PROVE SpawnBudget'
  <2>1. spawn[i].status \in {"in_flight", "delivered"} \/ spawn' = spawn
    BY <1>7 DEF Requeue, Bind, Refuse, Progress
  <2>2. \A j \in Items : j # i => spawn'[j] = spawn[j]
    BY <1>0, <1>7 DEF Requeue, Bind, Refuse, Progress, TypeOK
  <2>3. QED
    BY <1>1, <2>1, <2>2 DEF InUse
<1>8. ASSUME NEW i \in Items, Start(i) PROVE SpawnBudget'
  <2>1. PICK chosen \in SUBSET Items : Cardinality(InUse) + Cardinality(chosen) < MaxNewPty
    BY <1>8 DEF Start, Eligible
  <2>2. Cardinality(InUse) + 1 <= MaxNewPty
    BY <1>0, <2>1, InUseFinite
  <2>3. InUse' = InUse \cup {i}
    BY <1>0, <1>8 DEF Start, InUse, TypeOK
  <2>4. i \notin InUse
    BY <1>8 DEF Start, InUse
  <2>5. Cardinality(InUse') = Cardinality(InUse) + 1
    BY <2>3, <2>4, InUseFinite, FS_AddElement
  <2>6. QED
    BY <2>2, <2>5 DEF SpawnBudget
<1>9. QED
  BY <1>3, <1>4, <1>5, <1>6, <1>7, <1>8 DEF TableStep

\* An item that leaves "pending" never goes back, and "verified" is final.
LEMMA ItemsMoveOn ==
  ASSUME TablesOK, TableStep, NEW i \in Items
  PROVE  /\ item[i] # "pending" => item'[i] # "pending"
         /\ item[i] = "verified" => item'[i] = "verified"
<1>0. TypeOK /\ Integrator \in Items /\ UnsealedIsIdle /\ OpenLaunchWaits
  BY PlanAssumption DEF TablesOK
<1>1. CASE UNCHANGED item
  BY <1>1
<1>2. CASE Seal
  BY <1>0, <1>2 DEF Seal, UnsealedIsIdle
<1>3. CASE Dispatch
  BY <1>0, <1>3 DEF Dispatch, TypeOK
<1>4. ASSUME NEW j \in Items, Start(j) \/ Progress(j)
      PROVE  /\ item[i] # "pending" => item'[i] # "pending"
             /\ item[i] = "verified" => item'[i] = "verified"
  BY <1>0, <1>4 DEF Start, Eligible, Progress, TypeOK
<1>5. ASSUME NEW j \in Items, Bind(j)
      PROVE  /\ item[i] # "pending" => item'[i] # "pending"
             /\ item[i] = "verified" => item'[i] = "verified"
  BY <1>0, <1>5 DEF Bind, OpenLaunchWaits, TypeOK
<1>6. QED
  BY <1>1, <1>2, <1>3, <1>4, <1>5
     DEF TableStep, Claim, Relaunch, Delete, Requeue, Refuse

LEMMA DependenciesStep == TablesOK /\ TableStep => DependenciesVerified'
<1> SUFFICES ASSUME TablesOK, TableStep, NEW i \in Items, item'[i] # "pending",
                    NEW d \in Deps[i]
             PROVE  item'[d] = "verified"
  BY DEF DependenciesVerified
<1>0. TypeOK /\ Integrator \in Items /\ d \in Items
  BY PlanAssumption DEF TablesOK
<1>1. CASE item[i] # "pending"
  BY <1>0, <1>1, ItemsMoveOn DEF TablesOK, DependenciesVerified
<1>2. CASE item[i] = "pending"
  <2>1. Deps[i] = {} \/ Start(i)
    BY <1>0, <1>2 DEF TableStep, Seal, Claim, Dispatch, Relaunch, Delete, Requeue, Start,
                      Bind, Refuse, Progress, TypeOK, TablesOK, OpenLaunchWaits
  <2>2. item[d] = "verified"
    BY <2>1 DEF Start, Eligible
  <2>3. QED
    BY <1>0, <2>2, ItemsMoveOn
<1>3. QED
  BY <1>1, <1>2

LEMMA ConflictsStep == TablesOK /\ TableStep => NoConflictingWriters'
<1> SUFFICES ASSUME TablesOK, TableStep PROVE NoConflictingWriters'
  OBVIOUS
<1>0. TypeOK /\ Integrator \in Items /\ NoConflictingWriters /\ OpenLaunchWaits
  BY PlanAssumption DEF TablesOK
<1>1. CASE \A i \in Items : Active(i)' => Active(i)
  BY <1>0, <1>1 DEF NoConflictingWriters
<1>2. CASE Seal
  BY <1>2 DEF Seal, NoConflictingWriters, Active
<1>3. ASSUME NEW i \in Items, Start(i) PROVE NoConflictingWriters'
  <2>1. \A j \in Items : j # i => (Active(j)' <=> Active(j))
    BY <1>0, <1>3 DEF Start, Active, TypeOK
  <2>2. \A j \in Items : Active(j) => <<i, j>> \notin Conflicts /\ <<j, i>> \notin Conflicts
    BY <1>3, PlanAssumption DEF Start, Eligible
  <2>3. QED
    BY <1>0, <2>1, <2>2 DEF NoConflictingWriters
<1>4. CASE UNCHANGED item \/ Dispatch
  <2>1. \A i \in Items : Active(i)' => Active(i)
    BY <1>0, <1>4 DEF Active, Dispatch, TypeOK
  <2>2. QED
    BY <1>1, <2>1
<1>5. ASSUME NEW i \in Items, Bind(i) \/ Progress(i) PROVE NoConflictingWriters'
  <2>1. \A j \in Items : Active(j)' => Active(j)
    BY <1>0, <1>5 DEF Active, Bind, Progress, OpenLaunchWaits, TypeOK
  <2>2. QED
    BY <1>1, <2>1
<1>6. QED
  BY <1>2, <1>3, <1>4, <1>5 DEF TableStep, Claim, Relaunch, Delete, Requeue, Refuse

LEMMA LaunchStep == TablesOK /\ TableStep => (UnsealedIsIdle /\ OpenLaunchWaits)'
<1> SUFFICES ASSUME TablesOK, TableStep PROVE (UnsealedIsIdle /\ OpenLaunchWaits)'
  OBVIOUS
<1>0. TypeOK /\ Integrator \in Items /\ Deps[Integrator] = {} /\ UnsealedIsIdle /\ OpenLaunchWaits
  BY PlanAssumption DEF TablesOK
<1>1. CASE Seal
  <2>1. \A i \in Items :
          /\ item'[i] = IF Deps[i] = {} THEN "ready" ELSE "pending"
          /\ spawn'[i].status = IF i = Integrator THEN "pending" ELSE "none"
    BY <1>0, <1>1 DEF Seal, UnsealedIsIdle, TypeOK, SpawnRow
  <2>2. QED
    BY <1>0, <1>1, <2>1 DEF Seal, UnsealedIsIdle, OpenLaunchWaits
<1>2. CASE Claim \/ Relaunch
  <2>1. spawn[Integrator].status \in {"pending", "in_flight", "failed"} /\ order' = order /\ item' = item
    BY <1>2 DEF Claim, Relaunch
  <2>2. spawn'[Integrator].status = "in_flight" /\ \A i \in Items : i # Integrator => spawn'[i] = spawn[i]
    BY <1>0, <1>2 DEF Claim, Relaunch, TypeOK, SpawnRow
  <2>3. QED
    BY <1>0, <2>1, <2>2 DEF UnsealedIsIdle, OpenLaunchWaits
<1>3. CASE Dispatch
  BY <1>0, <1>3 DEF Dispatch, UnsealedIsIdle, OpenLaunchWaits, TypeOK
<1>4. CASE UNCHANGED <<order, item, spawn>> \/ Delete
  BY <1>0, <1>4 DEF Delete, UnsealedIsIdle, OpenLaunchWaits
<1>5. ASSUME NEW i \in Items, Requeue(i) \/ Bind(i) \/ Refuse(i) \/ Start(i)
      PROVE  (UnsealedIsIdle /\ OpenLaunchWaits)'
  <2>1. order = "sealed" /\ order' = order
    BY <1>0, <1>5 DEF Requeue, Bind, Refuse, Start, UnsealedIsIdle
  <2>2. \A j \in Items : j # i => spawn'[j] = spawn[j] /\ item'[j] = item[j]
    BY <1>0, <1>5 DEF Requeue, Bind, Refuse, Start, TypeOK
  <2>3. /\ spawn'[i].status = "delivered" <=> item'[i] \in {"running", "reported", "verified"}
        /\ spawn'[i].status \in {"pending", "in_flight", "failed"} => item'[i] \in {"ready", "dispatched"}
    <3>1. CASE Start(i)
      BY <1>0, <3>1 DEF Start, TypeOK
    <3>2. CASE Bind(i)
      BY <1>0, <3>2 DEF Bind, TypeOK, SpawnRow
    <3>3. CASE Requeue(i) \/ Refuse(i)
      BY <1>0, <3>3 DEF Requeue, Refuse, TypeOK, SpawnRow, OpenLaunchWaits
    <3>4. QED
      BY <1>5, <3>1, <3>2, <3>3
  <2>4. QED
    BY <1>0, <2>1, <2>2, <2>3 DEF UnsealedIsIdle, OpenLaunchWaits
<1>6. ASSUME NEW i \in Items, Progress(i) PROVE (UnsealedIsIdle /\ OpenLaunchWaits)'
  <2>1. /\ item'[i] \in {"reported", "verified"} /\ item[i] \in {"running", "reported"}
        /\ \A j \in Items : j # i => item'[j] = item[j]
    BY <1>0, <1>6 DEF Progress, TypeOK
  <2>2. QED
    BY <1>0, <1>6, <2>1 DEF Progress, UnsealedIsIdle, OpenLaunchWaits
<1>7. QED
  BY <1>1, <1>2, <1>3, <1>4, <1>5, <1>6 DEF TableStep

\* A dependent is started only after a bound session has been verified, and
\* the first bound session is the integrator's.
LEMMA IntegratorStep == TablesOK /\ TableStep => IntegratorFirst'
<1> SUFFICES ASSUME TablesOK, TableStep, NEW i \in Items, i # Integrator,
                    spawn'[i].status # "none"
             PROVE  spawn'[Integrator].status = "delivered"
  BY DEF IntegratorFirst
<1>0. /\ TypeOK /\ Integrator \in Items /\ Deps \in [Items -> SUBSET Items]
      /\ UnsealedIsIdle /\ OpenLaunchWaits /\ IntegratorFirst
  BY PlanAssumption DEF TablesOK
<1>1. spawn[Integrator].status = "delivered"
  <2>1. CASE spawn[i].status # "none"
    BY <1>0, <2>1 DEF IntegratorFirst
  <2>2. CASE spawn[i].status = "none"
    <3>1. Start(i)
      BY <1>0, <2>2 DEF TableStep, Seal, Claim, Dispatch, Relaunch, Delete, Requeue, Start,
                        Bind, Refuse, Progress, TypeOK
    <3>2. PICK d \in Deps[i] : item[d] = "verified"
      BY <3>1 DEF Start, Eligible
    <3>3. d \in Items /\ spawn[d].status = "delivered"
      BY <1>0, <3>2 DEF OpenLaunchWaits
    <3>4. QED
      BY <1>0, <3>3 DEF IntegratorFirst
  <2>3. QED
    BY <2>1, <2>2
<1>2. QED
  BY <1>0, <1>1 DEF TableStep, Seal, Claim, Dispatch, Relaunch, Delete, Requeue, Start,
                    Bind, Refuse, Progress, TypeOK, UnsealedIsIdle

LEMMA InitTables == Init => TablesOK
<1> SUFFICES ASSUME Init PROVE TablesOK
  OBVIOUS
<1>1. InUse = {} /\ Cardinality({}) = 0
  BY FS_EmptySet DEF Init, InUse, NoRow
<1>2. SpawnBudget
  BY <1>1, BudgetAssumption DEF SpawnBudget
<1>3. QED
  BY <1>2, InitType, PlanAssumption
     DEF Init, TablesOK, UnsealedIsIdle, DependenciesVerified, NoConflictingWriters, Active,
         OpenLaunchWaits, IntegratorFirst, NoRow

LEMMA TablesInductive == TablesOK /\ [Next]_vars => TablesOK'
<1> SUFFICES ASSUME TablesOK, [Next]_vars PROVE TablesOK'
  OBVIOUS
<1>1. TypeOK' /\ TableStep
  BY StepType, StepOfTables DEF TablesOK
<1>2. QED
  BY <1>1, BudgetStep, DependenciesStep, ConflictsStep, LaunchStep, IntegratorStep DEF TablesOK

LEMMA TablesInvariant == Spec => []TablesOK
BY InitTables, TablesInductive, PTL DEF Spec

\* No item starts before everything it depends on is verified, however many
\* commands decide at the same time (advance.rs).
THEOREM DependenciesCorrect == Spec => []DependenciesVerified
<1>1. TablesOK => DependenciesVerified
  BY DEF TablesOK
<1>2. QED
  BY <1>1, TablesInvariant, PTL

\* Items with overlapping write scopes are never active together, unless the
\* seal itself made both ready.
THEOREM ConflictsCorrect == Spec => []NoConflictingWriters
<1>1. TablesOK => NoConflictingWriters
  BY DEF TablesOK
<1>2. QED
  BY <1>1, TablesInvariant, PTL

\* max_new_pty holds for every plan and budget, although retry_spawn takes a
\* place without counting: only the integrator is retried, and nothing else
\* has been launched while its session is not bound.
THEOREM BudgetCorrect == Spec => []SpawnBudget
<1>1. TablesOK => SpawnBudget
  BY DEF TablesOK
<1>2. QED
  BY <1>1, TablesInvariant, PTL

\* The outbox row and the item's state agree after every statement.
THEOREM LaunchAgreementCorrect == Spec => []LaunchAgreesWithItem
<1>1. TablesOK => LaunchAgreesWithItem
  BY DEF TablesOK, OpenLaunchWaits, LaunchAgreesWithItem
<1>2. QED
  BY <1>1, TablesInvariant, PTL

\* A bound session is never bound again.
THEOREM DeliveryCorrect == Spec => DeliveredIsFinal
<1> DEFINE Final == \A i \in Items :
                     spawn[i].status = "delivered" => spawn'[i].status = "delivered"
<1>1. ASSUME TablesOK, TableStep, NEW i \in Items, spawn[i].status = "delivered"
      PROVE  spawn'[i].status = "delivered"
  <2>0. TypeOK /\ Integrator \in Items /\ UnsealedIsIdle
    BY <1>1, PlanAssumption DEF TablesOK
  <2>1. QED
    BY <1>1, <2>0 DEF TableStep, Seal, Claim, Dispatch, Relaunch, Delete, Requeue, Start,
                      Bind, Refuse, Progress, TypeOK, UnsealedIsIdle
<1>2. TablesOK /\ [Next]_vars => [Final]_vars
  BY <1>1, StepOfTables
<1>3. QED
  BY <1>2, TablesInvariant, PTL DEF Spec, DeliveredIsFinal

-----------------------------------------------------------------------------
(* Refinement: each statement about the tables is a step of LaunchPlan, or *)
(* leaves the stages alone.                                                *)

Stages == [i \in Items |-> Stage(i)]

LEMMA StageNames ==
  \A i \in Items :
    /\ Stage(i) = "waiting" <=> spawn[i].status = "none"
    /\ Stage(i) = "open" <=> spawn[i].status \in {"pending", "in_flight"}
    /\ Stage(i) = "lapsed" <=> spawn[i].status = "failed"
    /\ Stage(i) \in {"waiting", "open", "lapsed", "bound", "verified"}
BY DEF Stage

\* A place is taken by the same items on both levels.
LEMMA PlacesAgree ==
  ASSUME TypeOK
  PROVE  Plan!FreePlace <=> Cardinality(InUse) < MaxNewPty
<1>1. \A i \in Items :
        Stage(i) \in {"open", "bound", "verified"}
          <=> spawn[i].status \in {"pending", "in_flight", "delivered"}
  BY StageNames DEF TypeOK, SpawnRow, SpawnStatus, Stage
<1>2. {i \in Items : [j \in Items |-> Stage(j)][i] \in {"open", "bound", "verified"}} = InUse
  BY <1>1 DEF InUse
<1>3. \A S : Plan!Cardinality(S) = Cardinality(S)
  BY DEF Plan!Cardinality, Cardinality
<1>4. QED
  BY <1>2, <1>3 DEF Plan!FreePlace

\* A step that moves the stage of one item.
LEMMA OneStage ==
  ASSUME NEW i \in Items, NEW s,
         \A j \in Items \ {i} : Stage(j)' = Stage(j),
         Stage(i)' = s
  PROVE  Stages' = [Stages EXCEPT ![i] = s]
BY DEF Stages

LEMMA PlanStep ==
  TablesOK /\ TypeOK' /\ TableStep => [Plan!Next]_Stages
<1> SUFFICES ASSUME TablesOK, TypeOK', TableStep PROVE Plan!Next \/ Stages' = Stages
  BY DEF Stages
<1>0. TypeOK /\ Integrator \in Items
  BY PlanAssumption DEF TablesOK
<1>1. CASE UNCHANGED <<order, item, spawn>>
  BY <1>1 DEF Stages, Stage
<1>2. CASE Seal
  <2>1. \A i \in Items : spawn[i].status = "none"
    BY <1>2 DEF Seal, TablesOK, UnsealedIsIdle
  <2>2. Stages = [i \in Items |-> "waiting"]
    BY <2>1 DEF Stages, Stage
  <2>3. spawn'[Integrator].status = "pending"
    BY <1>0, <1>2 DEF Seal, TypeOK, SpawnRow
  <2>4. \A j \in Items \ {Integrator} : spawn'[j] = spawn[j]
    BY <1>0, <1>2 DEF Seal, TypeOK
  <2>5. Stage(Integrator)' = "open" /\ \A j \in Items \ {Integrator} : Stage(j)' = Stage(j)
    BY <2>1, <2>3, <2>4 DEF Stage
  <2>6. Stages' = [Stages EXCEPT ![Integrator] = "open"]
    BY <1>0, <2>5, OneStage
  <2>7. QED
    BY <2>2, <2>6 DEF Plan!Next, Plan!Go, Plan!Open, Stages
<1>3. CASE Claim
  <2>1. spawn'[Integrator].status = "in_flight" /\ \A j \in Items \ {Integrator} : spawn'[j] = spawn[j]
    BY <1>0, <1>3 DEF Claim, TypeOK
  <2>2. \A j \in Items : Stage(j)' = Stage(j)
    BY <1>0, <1>3, <2>1 DEF Claim, Stage
  <2>3. QED
    BY <2>2 DEF Stages
<1>4. CASE Dispatch
  <2>1. \A j \in Items : item'[j] = item[j] \/ (item[j] = "ready" /\ item'[j] = "dispatched")
    BY <1>0, <1>4 DEF Dispatch, TypeOK
  <2>2. \A j \in Items : Stage(j)' = Stage(j)
    BY <1>4, <2>1 DEF Dispatch, Stage
  <2>3. QED
    BY <2>2 DEF Stages
<1>5. CASE Relaunch
  <2>1. /\ spawn'[Integrator].status = "in_flight" /\ item' = item
        /\ \A j \in Items \ {Integrator} : spawn'[j] = spawn[j]
    BY <1>0, <1>5 DEF Relaunch, TypeOK, SpawnRow
  <2>2. Stage(Integrator)' = "open" /\ \A j \in Items \ {Integrator} : Stage(j)' = Stage(j)
    BY <2>1 DEF Stage
  <2>3. Stages' = [Stages EXCEPT ![Integrator] = "open"]
    BY <1>0, <2>2, OneStage
  <2>4. CASE spawn[Integrator].status \in {"pending", "in_flight"}
    <3>1. Stages[Integrator] = "open"
      BY <1>0, <2>4, StageNames DEF Stages
    <3>2. QED
      BY <1>0, <2>3, <3>1 DEF Stages
  <2>5. CASE spawn[Integrator].status = "failed"
    <3>1. \A j \in Items : spawn[j].status \notin {"pending", "in_flight", "delivered"}
      BY <1>0, <2>5 DEF TablesOK, IntegratorFirst
    <3>2. InUse = {}
      BY <3>1 DEF InUse
    <3>3. Cardinality(InUse) < MaxNewPty
      BY <3>2, FS_EmptySet, BudgetAssumption
    <3>4. Stages[Integrator] = "lapsed"
      BY <1>0, <2>5, StageNames DEF Stages
    <3>5. Plan!FreePlace
      BY <1>0, <3>3, PlacesAgree
    <3>6. QED
      BY <2>3, <3>4, <3>5 DEF Plan!Next, Plan!Repeat, Plan!Open, Stages
  <2>6. QED
    BY <1>5, <2>4, <2>5 DEF Relaunch
<1>6. CASE Delete
  BY <1>6 DEF Delete, Stages, Stage
<1>7. ASSUME NEW i \in Items, Requeue(i) PROVE Stages' = Stages
  <2>1. /\ spawn'[i].status = "pending" /\ item' = item
        /\ \A j \in Items \ {i} : spawn'[j] = spawn[j]
    BY <1>0, <1>7 DEF Requeue, TypeOK, SpawnRow
  <2>2. \A j \in Items : Stage(j)' = Stage(j)
    BY <1>7, <2>1 DEF Requeue, Stage
  <2>3. QED
    BY <2>2 DEF Stages
<1>8. ASSUME NEW i \in Items, Start(i) PROVE Plan!Next
  <2>1. PICK chosen \in SUBSET Items : Eligible(i, chosen)
    BY <1>8 DEF Start
  <2>2. /\ spawn'[i].status = "in_flight"
        /\ \A j \in Items \ {i} : spawn'[j] = spawn[j] /\ item'[j] = item[j]
    BY <1>0, <1>8 DEF Start, TypeOK
  <2>3. Stage(i)' = "open" /\ \A j \in Items \ {i} : Stage(j)' = Stage(j)
    BY <2>2 DEF Stage
  <2>4. Stages' = [Stages EXCEPT ![i] = "open"]
    BY <2>3, OneStage
  <2>5. Stages[i] = "waiting"
    BY <1>8, StageNames DEF Start, Stages
  <2>6. \A d \in Deps[i] : Stages[d] = "verified"
    <3>1. \A d \in Deps[i] : d \in Items /\ item[d] = "verified"
      BY <2>1, PlanAssumption DEF Eligible
    <3>2. \A d \in Deps[i] : spawn[d].status = "delivered"
      BY <3>1 DEF TablesOK, OpenLaunchWaits
    <3>3. QED
      BY <3>1, <3>2 DEF Stages, Stage
  <2>7. \A j \in Items : <<i, j>> \in Conflicts => Stages[j] \in {"waiting", "verified"}
    <3>1. \A j \in Items : <<i, j>> \in Conflicts => ~Active(j)
      BY <2>1 DEF Eligible
    <3>2. \A j \in Items : ~Active(j) => item[j] \in {"pending", "verified"}
      BY <1>0 DEF Active, TypeOK, ItemState
    <3>3. \A j \in Items : item[j] = "pending" => spawn[j].status = "none"
      BY <1>0 DEF TablesOK, OpenLaunchWaits, TypeOK, SpawnRow, SpawnStatus
    <3>4. \A j \in Items : item[j] = "verified" => spawn[j].status = "delivered"
      BY DEF TablesOK, OpenLaunchWaits
    <3>5. QED
      BY <3>1, <3>2, <3>3, <3>4 DEF Stages, Stage
  <2>8. Cardinality(InUse) < MaxNewPty
    <3>1. Cardinality(InUse) \in Nat /\ Cardinality(chosen) \in Nat
      BY InUseFinite
    <3>2. Cardinality(InUse) + Cardinality(chosen) < MaxNewPty
      BY <2>1 DEF Eligible
    <3>3. QED
      BY <3>1, <3>2, BudgetAssumption
  <2>9. Plan!FreePlace
    BY <1>0, <2>8, PlacesAgree
  <2>10. Deps[i] # {}
    BY <2>1 DEF Eligible
  <2>11. Plan!Start(i)
    BY <2>4, <2>5, <2>6, <2>7, <2>9, <2>10 DEF Plan!Start, Plan!Open, Stages
  <2>12. QED
    BY <2>11 DEF Plan!Next
<1>9. ASSUME NEW i \in Items, Bind(i) PROVE Plan!Next
  <2>1. /\ spawn'[i].status = "delivered" /\ item'[i] = "running"
        /\ \A j \in Items \ {i} : spawn'[j] = spawn[j] /\ item'[j] = item[j]
    BY <1>0, <1>9 DEF Bind, TypeOK, SpawnRow
  <2>2. Stage(i)' = "bound" /\ \A j \in Items \ {i} : Stage(j)' = Stage(j)
    BY <2>1 DEF Stage
  <2>3. Stages' = [Stages EXCEPT ![i] = "bound"]
    BY <2>2, OneStage
  <2>4. Stages[i] = "open"
    BY <1>9, StageNames DEF Bind, Stages
  <2>5. QED
    BY <2>3, <2>4 DEF Plan!Next, Plan!Bind, Stages
<1>10. ASSUME NEW i \in Items, Refuse(i) PROVE Plan!Next
  <2>1. /\ spawn'[i].status = "failed" /\ item' = item
        /\ \A j \in Items \ {i} : spawn'[j] = spawn[j]
    BY <1>0, <1>10 DEF Refuse, TypeOK, SpawnRow
  <2>2. Stage(i)' = "lapsed" /\ \A j \in Items \ {i} : Stage(j)' = Stage(j)
    BY <2>1 DEF Stage
  <2>3. Stages' = [Stages EXCEPT ![i] = "lapsed"]
    BY <2>2, OneStage
  <2>4. Stages[i] = "open"
    BY <1>10, StageNames DEF Refuse, Stages
  <2>5. QED
    BY <2>3, <2>4 DEF Plan!Next, Plan!Lapse, Stages
<1>11. ASSUME NEW i \in Items, Progress(i) PROVE Plan!Next \/ Stages' = Stages
  <2>1. PICK s \in {"reported", "verified"} :
          item[i] \in {"running", "reported"} /\ item' = [item EXCEPT ![i] = s]
    BY <1>11 DEF Progress
  <2>2. item'[i] = s /\ spawn' = spawn /\ \A j \in Items \ {i} : item'[j] = item[j]
    BY <1>0, <1>11, <2>1 DEF Progress, TypeOK
  <2>3. spawn[i].status = "delivered" /\ Stage(i) = "bound"
    BY <2>1 DEF TablesOK, OpenLaunchWaits, Stage
  <2>4. \A j \in Items \ {i} : Stage(j)' = Stage(j)
    BY <2>2 DEF Stage
  <2>5. CASE s = "reported"
    <3>1. \A j \in Items : Stage(j)' = Stage(j)
      BY <2>2, <2>3, <2>4, <2>5 DEF Stage
    <3>2. QED
      BY <3>1 DEF Stages
  <2>6. CASE s = "verified"
    <3>1. Stage(i)' = "verified"
      BY <2>2, <2>3, <2>6 DEF Stage
    <3>2. Stages' = [Stages EXCEPT ![i] = "verified"]
      BY <2>4, <3>1, OneStage
    <3>3. QED
      BY <2>3, <3>2 DEF Plan!Next, Plan!Verify, Stages
  <2>7. QED
    BY <2>5, <2>6
<1>12. QED
  BY <1>1, <1>2, <1>3, <1>4, <1>5, <1>6, <1>7, <1>8, <1>9, <1>10, <1>11 DEF TableStep

\* The lane implements the plan it promises: for every plan, budget and number
\* of commands its visible stages move as LaunchPlan allows.
THEOREM PlanRefined == Spec => KeepsThePlan
<1>1. Init => Plan!Init
  BY DEF Init, Plan!Init, Stage, NoRow
<1>2. TablesOK /\ [Next]_vars => [Plan!Next]_Stages
  BY StepType, StepOfTables, PlanStep DEF TablesOK
<1>3. QED
  BY <1>1, <1>2, TablesInvariant, PTL DEF Spec, KeepsThePlan, Plan!Spec, Stages

-----------------------------------------------------------------------------
(* Persist before emit.  The invariant adds what is still inside a command: *)
(* the requests it holds and the claim GO is about to dispatch.            *)

Durable(i) == spawn[i].complete /\ item[i] # "pending"

Reached(i) == wire[i] > 0 \/ bridge[i] # "idle" \/ tabs[i] > 0

Holds(p, i) == \E k \in DOMAIN proc[p].queue : proc[p].queue[k] = i

HeldIsDurable(p) ==
  /\ proc[p].pc = "marked" => spawn[Integrator].complete
  /\ \A i \in Items : Holds(p, i) => Durable(i)

LaunchesDurable ==
  /\ \A i \in Items : Reached(i) => Durable(i)
  /\ \A p \in Procs : HeldIsDurable(p)

\* What a step makes visible, or puts into a command, was durable before it
\* or becomes durable with it.
NothingNew ==
  /\ \A i \in Items : Reached(i)' => Reached(i) \/ Durable(i)
  /\ \A p \in Procs :
       /\ proc'[p].pc = "marked" => proc[p].pc = "marked" \/ spawn'[Integrator].complete
       /\ \A i \in Items : Holds(p, i)' => Holds(p, i) \/ Durable(i)'

LEMMA DurableStays ==
  ASSUME TablesOK, TableStep, NEW i \in Items, Durable(i)
  PROVE  Durable(i)'
<1>1. TypeOK /\ Integrator \in Items
  BY PlanAssumption DEF TablesOK
<1>2. spawn'[i].complete
  BY <1>1 DEF Durable, TableStep, Seal, Claim, Dispatch, Relaunch, Delete, Requeue, Start,
              Bind, Refuse, Progress, TypeOK, SpawnRow
<1>3. QED
  BY <1>2, ItemsMoveOn DEF Durable

\* A finished command leaves an empty list and wakes no idle request.
LEMMA FinishAddsNothing ==
  ASSUME TypeOK, NEW p \in Procs, NEW ok \in BOOLEAN, Finish(p, ok), UNCHANGED <<wire, tabs>>
  PROVE  NothingNew
<1>1. \A i \in Items : bridge'[i] # "idle" => bridge[i] # "idle"
  BY DEF Finish, Answered, TypeOK
<1>2. \A q \in Procs : proc'[q] = proc[q] \/ (proc'[q].pc = "idle" /\ proc'[q].queue = <<>>)
  BY DEF Finish, Idle, At, TypeOK
<1>3. QED
  BY <1>1, <1>2 DEF NothingNew, Reached, Holds

LEMMA GotoAddsNothing ==
  ASSUME TypeOK, NEW p \in Procs, NEW pc \in Pc, Goto(p, pc),
         pc = "marked" => spawn'[Integrator].complete, UNCHANGED <<wire, bridge, tabs>>
  PROVE  NothingNew
<1>1. \A q \in Procs : /\ proc'[q].queue = proc[q].queue
                       /\ proc'[q].pc = proc[q].pc \/ proc'[q].pc = pc
  BY DEF Goto, TypeOK, Command
<1>2. QED
  BY <1>1 DEF NothingNew, Reached, Holds

\* A command may drop its list, or take up a durable launch of the integrator.
LEMMA EmptyList ==
  ASSUME UNCHANGED <<wire, bridge, tabs>>,
         \A q \in Procs : \/ proc'[q] = proc[q]
                          \/ proc'[q].pc # "marked" /\ proc'[q].queue = <<>>
  PROVE  NothingNew
<1>1. DOMAIN <<>> = {}
  OBVIOUS
<1>2. ASSUME NEW q \in Procs, NEW i \in Items, Holds(q, i)' PROVE Holds(q, i)
  BY <1>1, <1>2 DEF Holds
<1>3. \A q \in Procs : proc'[q].pc = "marked" => proc[q].pc = "marked"
  OBVIOUS
<1>4. QED
  BY <1>2, <1>3 DEF NothingNew, Reached

LEMMA OneRequest ==
  ASSUME spawn'[Integrator].complete, item'[Integrator] # "pending",
         UNCHANGED <<wire, bridge, tabs>>,
         \A q \in Procs : \/ proc'[q] = proc[q]
                          \/ proc'[q].pc = "emitting" /\ proc'[q].queue = <<Integrator>>
  PROVE  NothingNew
<1>1. \A k \in DOMAIN <<Integrator>> : <<Integrator>>[k] = Integrator
  OBVIOUS
<1>2. ASSUME NEW q \in Procs, NEW i \in Items, Holds(q, i)', ~Holds(q, i) PROVE Durable(i)'
  BY <1>1, <1>2 DEF Holds, Durable
<1>3. \A q \in Procs : proc'[q].pc = "marked" => proc[q].pc = "marked"
  OBVIOUS
<1>4. QED
  BY <1>2, <1>3 DEF NothingNew, Reached

LEMMA StepAddsNothing == TablesOK /\ LaunchesDurable /\ [Next]_vars => NothingNew
<1> SUFFICES ASSUME TablesOK, LaunchesDurable, [Next]_vars PROVE NothingNew
  OBVIOUS
<1>0. TypeOK /\ Integrator \in Items /\ TypeOK'
  BY PlanAssumption, StepType DEF TablesOK
<1>1. ASSUME NEW p \in Procs, GoStart(p) PROVE NothingNew
  <2>1. \A q \in Procs : proc'[q] = proc[q] \/ (proc'[q].pc # "marked" /\ proc'[q].queue = <<>>)
    BY <1>0, <1>1 DEF GoStart, At, TypeOK
  <2>2. QED
    BY <1>1, <2>1 DEF GoStart, NothingNew, Reached, Holds
<1>2. ASSUME NEW p \in Procs, GoFail(p) \/ EmitFail(p) \/ AdvanceFail(p) PROVE NothingNew
  BY <1>0, <1>2, FinishAddsNothing DEF GoFail, EmitFail, AdvanceFail
<1>3. ASSUME NEW p \in Procs, GoSeal(p) PROVE NothingNew
  <2>1. CASE proc' = [proc EXCEPT ![p] = Idle]
    <3>1. \A q \in Procs : proc'[q] = proc[q] \/ (proc'[q].pc = "idle" /\ proc'[q].queue = <<>>)
      BY <1>0, <2>1 DEF Idle, At, TypeOK
    <3>2. QED
      BY <1>3, <3>1 DEF GoSeal, NothingNew, Reached, Holds
  <2>2. CASE Goto(p, "sealed") \/ Goto(p, "advance")
    BY <1>0, <1>3, <2>2, GotoAddsNothing, Names DEF GoSeal
  <2>3. QED
    BY <1>3, <2>1, <2>2 DEF GoSeal
<1>4. ASSUME NEW p \in Procs, GoMark(p) PROVE NothingNew
  <2>1. spawn'[Integrator].complete
    BY <1>0, <1>4 DEF GoMark, TypeOK
  <2>2. QED
    BY <1>0, <1>4, <2>1, GotoAddsNothing, Names DEF GoMark
<1>5. ASSUME NEW p \in Procs, GoDispatch(p) PROVE NothingNew
  <2>1. CASE item[Integrator] = "ready"
    <3>1. spawn'[Integrator].complete /\ item'[Integrator] # "pending"
      BY <1>0, <1>5, <2>1 DEF GoDispatch, LaunchesDurable, HeldIsDurable, TypeOK
    <3>2. /\ proc' = [proc EXCEPT ![p].pc = "emitting", ![p].queue = <<Integrator>>]
          /\ UNCHANGED <<wire, bridge, tabs>>
      BY <1>5, <2>1 DEF GoDispatch
    <3>3. \A q \in Procs : \/ proc'[q] = proc[q]
                           \/ proc'[q].pc = "emitting" /\ proc'[q].queue = <<Integrator>>
      BY <1>0, <3>2 DEF TypeOK, Command
    <3>4. QED
      BY <3>1, <3>2, <3>3, OneRequest
  <2>2. CASE item[Integrator] # "ready"
    BY <1>0, <1>5, <2>2, FinishAddsNothing DEF GoDispatch
  <2>3. QED
    BY <2>1, <2>2
<1>6. ASSUME NEW p \in Procs, Emit(p) PROVE NothingNew
  <2>q. PICK q : q = proc[p].queue
    OBVIOUS
  <2>1. q \in Seq(Items) /\ q # <<>>
    BY <1>0, <1>6, <2>q DEF Emit, TypeOK, Command
  <2>2. /\ Head(q) \in Items /\ Head(q) = q[1] /\ 1 \in DOMAIN q
        /\ \A k \in DOMAIN Tail(q) : k + 1 \in DOMAIN q /\ Tail(q)[k] = q[k + 1]
    BY <2>1
  <2>3. Durable(Head(q))
    BY <2>q, <2>2 DEF LaunchesDurable, HeldIsDurable, Holds
  <2>4. \A i \in Items : Reached(i)' => Reached(i) \/ i = Head(q)
    BY <1>0, <1>6, <2>q, <2>2 DEF Emit, Reached, TypeOK
  <2>5. \A r \in Procs : \/ proc'[r] = proc[r]
                         \/ r = p /\ proc'[r].pc = proc[r].pc /\ proc'[r].queue = Tail(q)
    BY <1>0, <1>6, <2>q DEF Emit, TypeOK, Command
  <2>6. \A r \in Procs, i \in Items : Holds(r, i)' => Holds(r, i)
    <3> SUFFICES ASSUME NEW r \in Procs, NEW i \in Items, Holds(r, i)' PROVE Holds(r, i)
      OBVIOUS
    <3>1. PICK k \in DOMAIN proc'[r].queue : proc'[r].queue[k] = i
      BY DEF Holds
    <3>2. CASE proc'[r] = proc[r]
      BY <3>1, <3>2 DEF Holds
    <3>3. CASE r = p /\ proc'[r].queue = Tail(q)
      <4>1. k \in DOMAIN Tail(q) /\ Tail(q)[k] = i
        BY <3>1, <3>3
      <4>2. k + 1 \in DOMAIN q /\ q[k + 1] = i
        BY <2>2, <4>1
      <4>3. QED
        BY <2>q, <3>3, <4>2 DEF Holds
    <3>4. QED
      BY <2>5, <3>2, <3>3
  <2>7. \A r \in Procs : proc'[r].pc = "marked" => proc[r].pc = "marked"
    BY <2>5
  <2>8. QED
    BY <2>3, <2>4, <2>6, <2>7 DEF NothingNew
<1>7. ASSUME NEW p \in Procs, EmitDone(p) PROVE NothingNew
  BY <1>0, <1>7, FinishAddsNothing, GotoAddsNothing, Names DEF EmitDone
<1>8. ASSUME NEW p \in Procs, AdvanceRead(p) PROVE NothingNew
  <2>1. CASE Finish(p, NothingToAdvance)
    <3>1. NothingToAdvance \in BOOLEAN
      BY DEF NothingToAdvance
    <3>2. QED
      BY <1>0, <1>8, <2>1, <3>1, FinishAddsNothing DEF AdvanceRead
  <2>2. CASE /\ proc' = [proc EXCEPT ![p].pc = "advancing", ![p].todo = Dispatchable,
                                     ![p].queue = <<>>, ![p].next = "end"]
             /\ UNCHANGED bridge
    <3>1. \A q \in Procs : \/ proc'[q] = proc[q]
                           \/ proc'[q].pc = "advancing" /\ proc'[q].queue = <<>>
      BY <1>0, <2>2 DEF TypeOK, Command
    <3>2. UNCHANGED <<wire, bridge, tabs>>
      BY <1>8, <2>2 DEF AdvanceRead
    <3>3. QED
      BY <3>1, <3>2, EmptyList
  <2>3. QED
    BY <1>8, <2>1, <2>2 DEF AdvanceRead
<1>9. ASSUME NEW p \in Procs, AdvanceItem(p) PROVE NothingNew
  <2>i. PICK i : i = FirstOf(proc[p].todo)
    OBVIOUS
  <2>q. PICK q : q = proc[p].queue
    OBVIOUS
  <2>0. q \in Seq(Items) /\ UNCHANGED <<wire, bridge, tabs>>
    BY <1>0, <1>9, <2>q DEF AdvanceItem, TypeOK, Command
  <2>1. CASE i \in Dispatchable /\ spawn[i].status = "none"
    <3>1. /\ item' = [item EXCEPT ![i] = "dispatched"]
          /\ spawn' = [spawn EXCEPT ![i] = [status |-> "in_flight", complete |-> TRUE]]
          /\ proc' = [proc EXCEPT ![p].todo = @ \ {i}, ![p].queue = Append(@, i)]
      BY <1>9, <2>1, <2>i DEF AdvanceItem
    <3>2. i \in Items
      BY <2>1, DispatchableItems
    <3>3. Durable(i)'
      BY <1>0, <3>1, <3>2 DEF Durable, TypeOK
    <3>4. \A k \in DOMAIN Append(q, i) :
            Append(q, i)[k] = i \/ (k \in DOMAIN q /\ Append(q, i)[k] = q[k])
      BY <2>0, <3>2
    <3>5. \A r \in Procs : \/ proc'[r] = proc[r]
                           \/ r = p /\ proc'[r].pc = proc[r].pc /\ proc'[r].queue = Append(q, i)
      BY <1>0, <2>q, <3>1 DEF TypeOK, Command
    <3>6. ASSUME NEW r \in Procs, NEW j \in Items, Holds(r, j)', ~Holds(r, j) PROVE Durable(j)'
      BY <2>q, <3>3, <3>4, <3>5, <3>6 DEF Holds
    <3>7. \A r \in Procs : proc'[r].pc = "marked" => proc[r].pc = "marked"
      BY <3>5
    <3>8. QED
      BY <2>0, <3>6, <3>7 DEF NothingNew, Reached
  <2>2. CASE ~(i \in Dispatchable /\ spawn[i].status = "none")
    <3>1. proc' = [proc EXCEPT ![p].todo = @ \ {i}] /\ UNCHANGED <<item, spawn>>
      BY <1>9, <2>2, <2>i DEF AdvanceItem
    <3>2. \A r \in Procs : proc'[r].pc = proc[r].pc /\ proc'[r].queue = proc[r].queue
      BY <1>0, <3>1 DEF TypeOK, Command
    <3>3. QED
      BY <2>0, <3>2 DEF NothingNew, Reached, Holds
  <2>3. QED
    BY <2>1, <2>2
<1>10. ASSUME NEW p \in Procs, AdvanceEnd(p) PROVE NothingNew
  BY <1>0, <1>10, GotoAddsNothing, Names DEF AdvanceEnd
<1>11. ASSUME NEW p \in Procs, NEW i \in Items, SpawnResult(p, i) PROVE NothingNew
  <2>1. /\ \A j \in Items : bridge'[j] # "idle" => bridge[j] # "idle"
        /\ UNCHANGED <<wire, tabs>>
    BY <1>0, <1>11 DEF SpawnResult, TypeOK
  <2>2. \A q \in Procs : \/ proc'[q] = proc[q]
                         \/ proc'[q].pc = "advance" /\ proc'[q].queue = <<>>
    BY <1>0, <1>11 DEF SpawnResult, At, TypeOK
  <2>3. QED
    BY <2>1, <2>2 DEF NothingNew, Reached, Holds
<1>12. ASSUME NEW p \in Procs, Retry(p) PROVE NothingNew
  <2>1. spawn'[Integrator].complete /\ item'[Integrator] # "pending"
    BY <1>0, <1>12 DEF Retry, TypeOK, SpawnRow, TablesOK, OpenLaunchWaits
  <2>2. \A q \in Procs : \/ proc'[q] = proc[q]
                         \/ proc'[q].pc = "emitting" /\ proc'[q].queue = <<Integrator>>
    BY <1>0, <1>12 DEF Retry, At, TypeOK
  <2>3. UNCHANGED <<wire, bridge, tabs>>
    BY <1>12 DEF Retry
  <2>4. QED
    BY <2>1, <2>2, <2>3, OneRequest
<1>13. ASSUME NEW i \in Items, FrontendStep(i) \/ LoseEvent(i) PROVE NothingNew
  <2>1. UNCHANGED proc
    BY <1>13 DEF FrontendStep, LoseEvent, Receive, OpenTab, OpenTabFail
  <2>2. \A j \in Items : Reached(j)' => Reached(j)
    BY <1>0, <1>13 DEF FrontendStep, LoseEvent, Receive, OpenTab, OpenTabFail, Reached, TypeOK
  <2>3. QED
    BY <2>1, <2>2 DEF NothingNew, Holds
<1>14. ASSUME NEW i \in Items, Report(i) \/ PassGates(i) PROVE NothingNew
  BY <1>14 DEF Report, PassGates, NothingNew, Reached, Holds
<1>15. CASE CancelDraft \/ SetAutoAdvance \/ Unchanged
  BY <1>15 DEF CancelDraft, SetAutoAdvance, Unchanged, vars, NothingNew, Reached, Holds
<1>16. CASE Reload
  <2>1. \A q \in Procs : proc'[q].pc = proc[q].pc /\ proc'[q].queue = proc[q].queue
    BY <1>0, <1>16 DEF Reload, TypeOK, Command
  <2>2. QED
    BY <1>16, <2>1 DEF Reload, NothingNew, Reached, Holds
<1>17. CASE Crash
  BY <1>17 DEF Crash, Idle, At, NothingNew, Reached, Holds
<1>18. QED
  BY <1>1, <1>2, <1>3, <1>4, <1>5, <1>6, <1>7, <1>8, <1>9, <1>10, <1>11, <1>12,
     <1>13, <1>14, <1>15, <1>16, <1>17 DEF Next, CommandStep, Unchanged

LEMMA DurableInductive == TablesOK /\ LaunchesDurable /\ [Next]_vars => LaunchesDurable'
<1> SUFFICES ASSUME TablesOK, LaunchesDurable, [Next]_vars PROVE LaunchesDurable'
  OBVIOUS
<1>1. TypeOK /\ TypeOK' /\ TableStep /\ NothingNew /\ Integrator \in Items
  BY PlanAssumption, StepType, StepOfTables, StepAddsNothing DEF TablesOK
<1>2. \A i \in Items : Durable(i) => Durable(i)'
  BY <1>1, DurableStays
<1>3. spawn[Integrator].complete => spawn'[Integrator].complete
  BY <1>1 DEF TableStep, Seal, Claim, Dispatch, Relaunch, Delete, Requeue, Start,
              Bind, Refuse, Progress, TypeOK, SpawnRow
<1>4. \A i \in Items : Reached(i)' => Durable(i)'
  BY <1>1, <1>2 DEF NothingNew, LaunchesDurable
<1>5. ASSUME NEW p \in Procs PROVE HeldIsDurable(p)'
  <2>1. proc'[p].pc = "marked" => spawn'[Integrator].complete
    BY <1>1, <1>3 DEF NothingNew, LaunchesDurable, HeldIsDurable
  <2>2. \A i \in Items : Holds(p, i)' => Durable(i)'
    BY <1>1, <1>2 DEF NothingNew, LaunchesDurable, HeldIsDurable
  <2>3. QED
    BY <2>1, <2>2 DEF HeldIsDurable
<1>6. QED
  BY <1>4, <1>5 DEF LaunchesDurable

\* An event, a promise or a tab exists only for a launch whose complete request
\* is already in the outbox: the executor persists before it emits.
THEOREM DurabilityCorrect == Spec => []LaunchIsDurableFirst
<1>1. Init => LaunchesDurable
  BY DEF Init, LaunchesDurable, Reached, HeldIsDurable, Holds, Idle, At
<1>2. LaunchesDurable => LaunchIsDurableFirst
  BY DEF LaunchesDurable, LaunchIsDurableFirst, Reached, Durable
<1>3. QED
  BY <1>1, <1>2, DurableInductive, TablesInvariant, PTL DEF Spec

-----------------------------------------------------------------------------
(* One tab for a bound item.  A promise that brought a session is kept as  *)
(* long as the command it waits for succeeds and the page lives.  After a  *)
(* crash there is no promise, but nothing asks for that session again.     *)

\* The commands succeed and the page of the leader lives until a crash.
Undisturbed == Faults \cap {"io", "emit", "reload"} = {}

\* A command answers the promise that called it, and only one does.
OwedOnce ==
  /\ \A p \in Procs : proc[p].reply # NoItem =>
       /\ proc[p].pc \in {"advance", "advancing", "emitting"}
       /\ bridge[proc[p].reply] \in {"sentTab", "sentError"}
  /\ \A p, q \in Procs : proc[p].reply = proc[q].reply /\ proc[p].reply # NoItem => p = q

\* Neither the frontend nor any command or event knows of the launch.
Forgotten(i) == bridge[i] = "idle" /\ wire[i] = 0 /\ \A p \in Procs : ~ Holds(p, i)

\* The promise of a bound item is not given up, or nobody asks for it again.
PromiseKept ==
  \A i \in Items : spawn[i].status = "delivered" =>
    /\ spawn[i].complete
    /\ bridge[i] \in {"sentTab", "done"} \/ Forgotten(i)

Promises == OwedOnce /\ PromiseKept

\* Nothing starts over for a bound item.
ForgottenStays ==
  \A i \in Items : spawn[i].status = "delivered" /\ Forgotten(i) => Forgotten(i)'

\* Nothing is bound by the step.
BindsNothing ==
  \A i \in Items : spawn'[i].status = "delivered" =>
    spawn[i].status = "delivered" /\ spawn'[i].complete = spawn[i].complete

LEMMA NothingTakenUp ==
  ASSUME \A i \in Items : bridge[i] = "idle" => bridge'[i] = "idle", UNCHANGED wire,
         \A q \in Procs : proc'[q].queue = proc[q].queue \/ proc'[q].queue = <<>>
  PROVE  ForgottenStays
<1>1. DOMAIN <<>> = {}
  OBVIOUS
<1>2. ASSUME NEW q \in Procs, NEW i \in Items, Holds(q, i)' PROVE Holds(q, i)
  BY <1>1, <1>2 DEF Holds
<1>3. QED
  BY <1>2 DEF ForgottenStays, Forgotten

\* Only launches that are open are taken up or sent.
LEMMA NobodyAsksAgain == TablesOK /\ [Next]_vars => ForgottenStays
<1> SUFFICES ASSUME TablesOK, [Next]_vars PROVE ForgottenStays
  OBVIOUS
<1>0. TypeOK /\ Integrator \in Items
  BY PlanAssumption DEF TablesOK
<1>1. ASSUME NEW p \in Procs, NEW ok \in BOOLEAN, Finish(p, ok), UNCHANGED wire PROVE ForgottenStays
  <2>1. \A i \in Items : bridge[i] = "idle" => bridge'[i] = "idle"
    BY <1>1 DEF Finish, Answered
  <2>2. \A q \in Procs : proc'[q].queue = proc[q].queue \/ proc'[q].queue = <<>>
    BY <1>0, <1>1 DEF Finish, Idle, At, TypeOK
  <2>3. QED
    BY <1>1, <2>1, <2>2, NothingTakenUp
<1>2. ASSUME NEW p \in Procs, NEW pc, Goto(p, pc), UNCHANGED <<wire, bridge>> PROVE ForgottenStays
  <2>1. \A q \in Procs : proc'[q].queue = proc[q].queue
    BY <1>0, <1>2 DEF Goto, TypeOK, Command
  <2>2. QED
    BY <1>2, <2>1, NothingTakenUp
<1>3. ASSUME NEW p \in Procs, GoStart(p) \/ GoSeal(p) PROVE ForgottenStays
  <2>1. UNCHANGED <<wire, bridge>>
    BY <1>3 DEF GoStart, GoSeal
  <2>2. CASE Goto(p, "sealed") \/ Goto(p, "advance")
    BY <1>2, <2>1, <2>2
  <2>3. CASE ~ (Goto(p, "sealed") \/ Goto(p, "advance"))
    <3>1. \A q \in Procs : proc'[q] = proc[q] \/ proc'[q].queue = <<>>
      BY <1>0, <1>3, <2>3 DEF GoStart, GoSeal, Idle, At, TypeOK
    <3>2. QED
      BY <2>1, <3>1, NothingTakenUp
  <2>4. QED
    BY <2>2, <2>3
<1>4. ASSUME NEW p \in Procs, GoFail(p) \/ EmitFail(p) \/ AdvanceFail(p) PROVE ForgottenStays
  BY <1>1, <1>4 DEF GoFail, EmitFail, AdvanceFail
<1>5. ASSUME NEW p \in Procs, GoMark(p) \/ AdvanceEnd(p) PROVE ForgottenStays
  BY <1>2, <1>5 DEF GoMark, AdvanceEnd
<1>6. ASSUME UNCHANGED <<wire, bridge>>, spawn[Integrator].status # "delivered",
             \A q \in Procs : proc'[q] = proc[q] \/ proc'[q].queue = <<Integrator>>
      PROVE  ForgottenStays
  <2>1. \A k \in DOMAIN <<Integrator>> : <<Integrator>>[k] = Integrator
    OBVIOUS
  <2>2. ASSUME NEW q \in Procs, NEW i \in Items, Holds(q, i)', i # Integrator PROVE Holds(q, i)
    BY <1>6, <2>1, <2>2 DEF Holds
  <2>3. QED
    BY <1>6, <2>2 DEF ForgottenStays, Forgotten
<1>7. ASSUME NEW p \in Procs, GoDispatch(p) PROVE ForgottenStays
  <2>1. CASE Finish(p, FALSE)
    BY <1>1, <1>7, <2>1 DEF GoDispatch
  <2>2. CASE ~ Finish(p, FALSE)
    <3>1. /\ item[Integrator] = "ready"
          /\ proc' = [proc EXCEPT ![p].pc = "emitting", ![p].queue = <<Integrator>>]
          /\ UNCHANGED <<wire, bridge>>
      BY <1>7, <2>2 DEF GoDispatch
    <3>2. spawn[Integrator].status # "delivered"
      BY <1>0, <3>1 DEF TablesOK, OpenLaunchWaits
    <3>3. \A q \in Procs : proc'[q] = proc[q] \/ proc'[q].queue = <<Integrator>>
      BY <1>0, <3>1 DEF TypeOK, Command
    <3>4. QED
      BY <1>6, <3>1, <3>2, <3>3
  <2>3. QED
    BY <2>1, <2>2
<1>8. ASSUME NEW p \in Procs, Retry(p) PROVE ForgottenStays
  <2>1. /\ UNCHANGED <<wire, bridge>>
        /\ spawn[Integrator].status # "delivered"
    BY <1>8 DEF Retry
  <2>2. \A q \in Procs : proc'[q] = proc[q] \/ proc'[q].queue = <<Integrator>>
    BY <1>0, <1>8 DEF Retry, At, TypeOK
  <2>3. QED
    BY <1>6, <2>1, <2>2
<1>9. ASSUME NEW p \in Procs, Emit(p) PROVE ForgottenStays
  <2>q. PICK q : q = proc[p].queue
    OBVIOUS
  <2>1. q \in Seq(Items) /\ q # <<>>
    BY <1>0, <1>9, <2>q DEF Emit, TypeOK, Command
  <2>2. /\ Head(q) \in Items /\ Head(q) = q[1] /\ 1 \in DOMAIN q
        /\ \A k \in DOMAIN Tail(q) : k + 1 \in DOMAIN q /\ Tail(q)[k] = q[k + 1]
    BY <2>1
  <2>3. \A i \in Items : i # Head(q) => wire'[i] = wire[i]
    BY <1>0, <1>9, <2>q, <2>2 DEF Emit, TypeOK
  <2>4. Holds(p, Head(q))
    BY <2>q, <2>2 DEF Holds
  <2>5. /\ UNCHANGED bridge
        /\ \A r \in Procs : proc'[r] = proc[r] \/ (r = p /\ proc'[r].queue = Tail(q))
    BY <1>0, <1>9, <2>q DEF Emit, TypeOK, Command
  <2>6. ASSUME NEW r \in Procs, NEW i \in Items, Holds(r, i)' PROVE Holds(r, i)
    <3>1. PICK k \in DOMAIN proc'[r].queue : proc'[r].queue[k] = i
      BY <2>6 DEF Holds
    <3>2. CASE proc'[r] = proc[r]
      BY <3>1, <3>2 DEF Holds
    <3>3. CASE r = p /\ proc'[r].queue = Tail(q)
      <4>1. k \in DOMAIN Tail(q) /\ Tail(q)[k] = i
        BY <3>1, <3>3
      <4>2. k + 1 \in DOMAIN q /\ q[k + 1] = i
        BY <2>2, <4>1
      <4>3. QED
        BY <2>q, <3>3, <4>2 DEF Holds
    <3>4. QED
      BY <2>5, <3>2, <3>3
  <2>7. QED
    BY <2>3, <2>4, <2>5, <2>6 DEF ForgottenStays, Forgotten
<1>10. ASSUME NEW p \in Procs, EmitDone(p) PROVE ForgottenStays
  BY <1>1, <1>2, <1>10 DEF EmitDone
<1>11. ASSUME NEW p \in Procs, AdvanceRead(p) PROVE ForgottenStays
  <2>1. CASE Finish(p, NothingToAdvance)
    <3>1. NothingToAdvance \in BOOLEAN
      BY DEF NothingToAdvance
    <3>2. QED
      BY <1>1, <1>11, <2>1, <3>1 DEF AdvanceRead
  <2>2. CASE ~ Finish(p, NothingToAdvance)
    <3>1. /\ proc' = [proc EXCEPT ![p].pc = "advancing", ![p].todo = Dispatchable,
                                  ![p].queue = <<>>, ![p].next = "end"]
          /\ UNCHANGED <<wire, bridge>>
      BY <1>11, <2>2 DEF AdvanceRead
    <3>2. \A q \in Procs : proc'[q] = proc[q] \/ proc'[q].queue = <<>>
      BY <1>0, <3>1 DEF TypeOK, Command
    <3>3. QED
      BY <3>1, <3>2, NothingTakenUp
  <2>3. QED
    BY <2>1, <2>2
<1>12. ASSUME NEW p \in Procs, AdvanceItem(p) PROVE ForgottenStays
  <2>i. PICK i : i = FirstOf(proc[p].todo)
    OBVIOUS
  <2>q. PICK q : q = proc[p].queue
    OBVIOUS
  <2>0. q \in Seq(Items) /\ UNCHANGED <<wire, bridge>>
    BY <1>0, <1>12, <2>q DEF AdvanceItem, TypeOK, Command
  <2>1. CASE i \in Dispatchable /\ spawn[i].status = "none"
    <3>1. proc' = [proc EXCEPT ![p].todo = @ \ {i}, ![p].queue = Append(@, i)]
      BY <1>12, <2>1, <2>i DEF AdvanceItem
    <3>2. \A k \in DOMAIN Append(q, i) :
            Append(q, i)[k] = i \/ (k \in DOMAIN q /\ Append(q, i)[k] = q[k])
      BY <2>0, <2>1, DispatchableItems
    <3>3. \A r \in Procs : proc'[r] = proc[r] \/ (r = p /\ proc'[r].queue = Append(q, i))
      BY <1>0, <2>q, <3>1 DEF TypeOK, Command
    <3>4. ASSUME NEW r \in Procs, NEW j \in Items, Holds(r, j)', j # i PROVE Holds(r, j)
      BY <2>q, <3>2, <3>3, <3>4 DEF Holds
    <3>5. QED
      BY <2>0, <2>1, <3>4 DEF ForgottenStays, Forgotten
  <2>2. CASE ~ (i \in Dispatchable /\ spawn[i].status = "none")
    <3>1. proc' = [proc EXCEPT ![p].todo = @ \ {i}]
      BY <1>12, <2>2, <2>i DEF AdvanceItem
    <3>2. \A r \in Procs : proc'[r].queue = proc[r].queue
      BY <1>0, <3>1 DEF TypeOK, Command
    <3>3. QED
      BY <2>0, <3>2, NothingTakenUp
  <2>3. QED
    BY <2>1, <2>2
<1>13. ASSUME NEW p \in Procs, NEW i \in Items, SpawnResult(p, i) PROVE ForgottenStays
  <2>1. /\ \A j \in Items : bridge[j] = "idle" => bridge'[j] = "idle"
        /\ UNCHANGED wire
    <3>1. bridge[i] # "idle" /\ \A j \in Items \ {i} : bridge'[j] = bridge[j]
      BY <1>0, <1>13 DEF SpawnResult, TypeOK
    <3>2. UNCHANGED wire
      BY <1>13 DEF SpawnResult
    <3>3. QED
      BY <3>1, <3>2
  <2>2. \A q \in Procs : proc'[q].queue = proc[q].queue \/ proc'[q].queue = <<>>
    <3>1. CASE proc' # proc
      <4>1. proc' = [proc EXCEPT ![p] = At("advance", i, <<>>, "end")]
        BY <1>13, <3>1 DEF SpawnResult
      <4>2. QED
        BY <1>0, <4>1 DEF At, TypeOK
    <3>2. QED
      BY <3>1
  <2>3. QED
    BY <2>1, <2>2, NothingTakenUp
<1>14. ASSUME NEW i \in Items, FrontendStep(i) \/ LoseEvent(i) PROVE ForgottenStays
  <2>1. UNCHANGED proc
    BY <1>14 DEF FrontendStep, LoseEvent, Receive, OpenTab, OpenTabFail
  <2>2. \A j \in Items : bridge[j] = "idle" /\ wire[j] = 0 => bridge'[j] = "idle" /\ wire'[j] = 0
    BY <1>0, <1>14 DEF FrontendStep, LoseEvent, Receive, OpenTab, OpenTabFail, TypeOK
  <2>3. QED
    BY <2>1, <2>2 DEF ForgottenStays, Forgotten, Holds
<1>15. ASSUME NEW i \in Items, Report(i) \/ PassGates(i) PROVE ForgottenStays
  BY <1>15 DEF Report, PassGates, ForgottenStays, Forgotten, Holds
<1>16. CASE CancelDraft \/ SetAutoAdvance \/ Unchanged
  BY <1>16 DEF CancelDraft, SetAutoAdvance, Unchanged, vars, ForgottenStays, Forgotten, Holds
<1>17. CASE Reload
  <2>1. \A q \in Procs : proc'[q].queue = proc[q].queue
    BY <1>0, <1>17 DEF Reload, TypeOK, Command
  <2>2. QED
    BY <1>17, <2>1, NothingTakenUp DEF Reload
<1>18. CASE Crash
  BY <1>18 DEF Crash, Idle, At, ForgottenStays, Forgotten, Holds
<1>19. QED
  BY <1>3, <1>4, <1>5, <1>7, <1>8, <1>9, <1>10, <1>11, <1>12, <1>13, <1>14, <1>15, <1>16,
     <1>17, <1>18 DEF Next, CommandStep, Unchanged

\* A command that ends well, or for nobody, breaks no promise.
LEMMA FinishKeeps ==
  ASSUME TypeOK, Promises, NEW p \in Procs, NEW ok \in BOOLEAN, Finish(p, ok), BindsNothing, ForgottenStays,
         ok \/ proc[p].reply = NoItem
  PROVE  Promises'
<1>0. NoItem \notin Items
  BY PlanAssumption
<1>1. /\ proc'[p].reply = NoItem
      /\ \A q \in Procs \ {p} : proc'[q] = proc[q]
  BY DEF Finish, Idle, At, TypeOK
<1>2. \A i \in Items : bridge'[i] = IF i = proc[p].reply THEN Answered(i, ok) ELSE bridge[i]
  BY DEF Finish
<1>3. \A q \in Procs : proc[q].reply \in Items \cup {NoItem}
  BY DEF TypeOK, Command
<1>4. ASSUME NEW q \in Procs, proc'[q].reply # NoItem
      PROVE  /\ proc'[q] = proc[q] /\ proc[q].reply \in Items
             /\ bridge'[proc[q].reply] = bridge[proc[q].reply]
  <2>1. q # p /\ proc'[q] = proc[q] /\ proc[q].reply \in Items
    BY <1>1, <1>3, <1>4
  <2>2. proc[q].reply # proc[p].reply
    BY <1>4, <2>1 DEF Promises, OwedOnce
  <2>3. QED
    BY <1>2, <2>1, <2>2
<1>5. OwedOnce'
  BY <1>4 DEF Promises, OwedOnce
<1>6. ASSUME NEW i \in Items, spawn'[i].status = "delivered"
      PROVE  spawn'[i].complete /\ (bridge'[i] \in {"sentTab", "done"} \/ Forgotten(i)')
  <2>1. /\ spawn[i].status = "delivered" /\ spawn'[i].complete
        /\ bridge[i] \in {"sentTab", "done"} \/ Forgotten(i)
    BY <1>6 DEF Promises, PromiseKept, BindsNothing
  <2>2. CASE i = proc[p].reply
    <3>1. ok /\ bridge[i] = "sentTab"
      BY <1>0, <2>1, <2>2 DEF Promises, OwedOnce, Forgotten
    <3>2. QED
      BY <1>2, <2>1, <2>2, <3>1 DEF Answered
  <2>3. CASE i # proc[p].reply
    BY <1>2, <2>1, <2>3 DEF ForgottenStays
  <2>4. QED
    BY <2>2, <2>3
<1>7. QED
  BY <1>5, <1>6 DEF Promises, PromiseKept

\* A command that goes on still owes what it owed, and only it.
LEMMA GoingOnKeeps ==
  ASSUME TypeOK, Promises, BindsNothing, ForgottenStays, UNCHANGED bridge,
         \A q \in Procs :
           \/ proc'[q] = proc[q]
           \/ proc'[q].reply = NoItem
           \/ /\ proc'[q].reply = proc[q].reply
              /\ proc'[q].pc \in {"advance", "advancing", "emitting"}
  PROVE  Promises'
<1>1. \A q \in Procs : proc'[q].reply # NoItem => proc'[q].reply = proc[q].reply
  OBVIOUS
<1>2. OwedOnce'
  BY <1>1 DEF Promises, OwedOnce
<1>3. PromiseKept'
  BY DEF Promises, PromiseKept, BindsNothing, ForgottenStays
<1>4. QED
  BY <1>2, <1>3 DEF Promises

\* The bridge only touches requests that are open.
LEMMA BridgeKeeps ==
  ASSUME TypeOK, Promises, ForgottenStays, UNCHANGED <<spawn, proc>>,
         \A i \in Items : bridge'[i] = bridge[i] \/ bridge[i] \in {"idle", "spawning"}
  PROVE  Promises'
<1>1. \A q \in Procs : proc[q].reply \in Items \cup {NoItem}
  BY DEF TypeOK, Command
<1>2. OwedOnce'
  BY <1>1 DEF Promises, OwedOnce
<1>3. PromiseKept'
  BY DEF Promises, PromiseKept, ForgottenStays
<1>4. QED
  BY <1>2, <1>3 DEF Promises

\* When an advance finds something to start, the integrator's row is complete.
LEMMA AdvanceHasTarget ==
  ASSUME TablesOK, PromiseKept, Dispatchable # {}
  PROVE  spawn[Integrator].complete
<1>0. Integrator \in Items /\ Deps \in [Items -> SUBSET Items]
  BY PlanAssumption
<1>1. PICK i \in Items : \E chosen : Eligible(i, chosen)
  BY DEF Dispatchable
<1>2. PICK d \in Items : item[d] = "verified"
  BY <1>0, <1>1 DEF Eligible
<1>3. spawn[d].status = "delivered"
  BY <1>2 DEF TablesOK, OpenLaunchWaits
<1>4. spawn[Integrator].status = "delivered"
  BY <1>0, <1>3 DEF TablesOK, IntegratorFirst
<1>5. QED
  BY <1>0, <1>4 DEF PromiseKept

LEMMA PromisesStep ==
  ASSUME Undisturbed, TablesOK, LaunchesDurable, Promises, [Next]_vars
  PROVE  Promises'
<1>0. /\ TypeOK /\ Integrator \in Items /\ NoItem \notin Items
      /\ "io" \notin Faults /\ "emit" \notin Faults /\ "reload" \notin Faults
      /\ ForgottenStays
  BY PlanAssumption, NobodyAsksAgain DEF TablesOK, Undisturbed
<1>1. ASSUME NEW p \in Procs, GoStart(p) PROVE Promises'
  <2>1. BindsNothing /\ UNCHANGED bridge
    BY <1>1 DEF GoStart, BindsNothing
  <2>2. \A q \in Procs : proc'[q] = proc[q] \/ proc'[q].reply = NoItem
    BY <1>0, <1>1 DEF GoStart, At, TypeOK
  <2>3. QED
    BY <1>0, <2>1, <2>2, GoingOnKeeps
<1>2. ASSUME NEW p \in Procs, GoSeal(p) \/ GoMark(p) PROVE Promises'
  <2>1. BindsNothing /\ UNCHANGED bridge
    <3>1. /\ UNCHANGED bridge
          /\ \/ UNCHANGED spawn
             \/ spawn' = [spawn EXCEPT ![Integrator].status = "pending"]
             \/ spawn' = [spawn EXCEPT ![Integrator] = [status |-> "in_flight", complete |-> TRUE]]
      BY <1>2 DEF GoSeal, GoMark
    <3>2. CASE UNCHANGED spawn
      BY <3>1, <3>2 DEF BindsNothing
    <3>3. CASE spawn' = [spawn EXCEPT ![Integrator].status = "pending"]
      BY <1>0, <3>1, <3>3 DEF BindsNothing, TypeOK, SpawnRow
    <3>4. CASE spawn' = [spawn EXCEPT ![Integrator] = [status |-> "in_flight", complete |-> TRUE]]
      BY <1>0, <3>1, <3>4 DEF BindsNothing, TypeOK, SpawnRow
    <3>5. QED
      BY <3>1, <3>2, <3>3, <3>4
  <2>2. proc[p].reply = NoItem
    BY <1>2 DEF GoSeal, GoMark, Promises, OwedOnce
  <2>3. \A q \in Procs : proc'[q] = proc[q] \/ proc'[q].reply = NoItem
    BY <1>0, <1>2, <2>2 DEF GoSeal, GoMark, Goto, Idle, At, TypeOK, Command
  <2>4. QED
    BY <1>0, <2>1, <2>3, GoingOnKeeps
<1>3. ASSUME NEW p \in Procs, GoDispatch(p) PROVE Promises'
  <2>1. BindsNothing /\ proc[p].reply = NoItem
    BY <1>3 DEF GoDispatch, BindsNothing, Promises, OwedOnce
  <2>2. CASE Finish(p, FALSE)
    BY <1>0, <2>1, <2>2, FinishKeeps
  <2>3. CASE ~ Finish(p, FALSE)
    <3>1. /\ proc' = [proc EXCEPT ![p].pc = "emitting", ![p].queue = <<Integrator>>]
          /\ UNCHANGED bridge
      BY <1>3, <2>3 DEF GoDispatch
    <3>2. \A q \in Procs : proc'[q] = proc[q] \/ proc'[q].reply = NoItem
      BY <1>0, <2>1, <3>1 DEF TypeOK, Command
    <3>3. QED
      BY <1>0, <2>1, <3>1, <3>2, GoingOnKeeps
  <2>4. QED
    BY <2>2, <2>3
<1>4. ASSUME NEW p \in Procs, Emit(p) \/ AdvanceEnd(p) PROVE Promises'
  <2>1. BindsNothing /\ UNCHANGED bridge
    BY <1>4 DEF Emit, AdvanceEnd, BindsNothing
  <2>2. \A q \in Procs \ {p} : proc'[q] = proc[q]
    BY <1>0, <1>4 DEF Emit, AdvanceEnd, Goto, TypeOK
  <2>3. proc'[p].reply = proc[p].reply /\ proc'[p].pc = "emitting"
    BY <1>0, <1>4 DEF Emit, AdvanceEnd, Goto, TypeOK, Command
  <2>4. QED
    BY <1>0, <2>1, <2>2, <2>3, GoingOnKeeps
<1>5. ASSUME NEW p \in Procs, EmitDone(p) PROVE Promises'
  <2>1. BindsNothing
    BY <1>5 DEF EmitDone, BindsNothing
  <2>2. CASE Finish(p, TRUE)
    BY <1>0, <2>1, <2>2, FinishKeeps
  <2>3. CASE Goto(p, "advance") /\ UNCHANGED bridge
    <3>1. \A q \in Procs \ {p} : proc'[q] = proc[q]
      BY <1>0, <2>3 DEF Goto, TypeOK
    <3>2. proc'[p].reply = proc[p].reply /\ proc'[p].pc = "advance"
      BY <1>0, <2>3 DEF Goto, TypeOK, Command
    <3>3. QED
      BY <1>0, <2>1, <2>3, <3>1, <3>2, GoingOnKeeps
  <2>4. QED
    BY <1>5, <2>2, <2>3 DEF EmitDone
<1>6. ASSUME NEW p \in Procs, AdvanceRead(p) PROVE Promises'
  <2>1. BindsNothing
    BY <1>6 DEF AdvanceRead, BindsNothing
  <2>2. CASE NothingToAdvance
    <3>1. Finish(p, TRUE)
      BY <1>6, <2>2 DEF AdvanceRead, Finish
    <3>2. QED
      BY <1>0, <2>1, <3>1, FinishKeeps
  <2>3. CASE ~ NothingToAdvance
    <3>1. spawn[Integrator].complete
      BY <2>3, AdvanceHasTarget DEF NothingToAdvance, Promises
    <3>2. /\ proc' = [proc EXCEPT ![p].pc = "advancing", ![p].todo = Dispatchable,
                                  ![p].queue = <<>>, ![p].next = "end"]
          /\ UNCHANGED bridge
      BY <1>6, <2>3, <3>1 DEF AdvanceRead
    <3>3. \A q \in Procs \ {p} : proc'[q] = proc[q]
      BY <1>0, <3>2 DEF TypeOK
    <3>4. proc'[p].reply = proc[p].reply /\ proc'[p].pc = "advancing"
      BY <1>0, <3>2 DEF TypeOK, Command
    <3>5. QED
      BY <1>0, <2>1, <3>2, <3>3, <3>4, GoingOnKeeps
  <2>4. QED
    BY <2>2, <2>3
<1>7. ASSUME NEW p \in Procs, AdvanceItem(p) PROVE Promises'
  <2>1. BindsNothing /\ UNCHANGED bridge
    <3>1. PICK i : i = FirstOf(proc[p].todo)
      OBVIOUS
    <3>2. /\ UNCHANGED bridge
          /\ \/ UNCHANGED spawn
             \/ spawn' = [spawn EXCEPT ![i] = [status |-> "in_flight", complete |-> TRUE]]
      BY <1>7, <3>1 DEF AdvanceItem
    <3>3. QED
      BY <1>0, <3>2 DEF BindsNothing, TypeOK, SpawnRow
  <2>2. \/ proc' = [proc EXCEPT ![p].todo = @ \ {FirstOf(proc[p].todo)},
                                ![p].queue = Append(@, FirstOf(proc[p].todo))]
        \/ proc' = [proc EXCEPT ![p].todo = @ \ {FirstOf(proc[p].todo)}]
    BY <1>7 DEF AdvanceItem
  <2>3. \A q \in Procs \ {p} : proc'[q] = proc[q]
    BY <1>0, <2>2 DEF TypeOK
  <2>4. proc'[p].reply = proc[p].reply /\ proc'[p].pc = proc[p].pc
    BY <1>0, <2>2 DEF TypeOK, Command
  <2>5. proc[p].pc = "advancing"
    BY <1>7 DEF AdvanceItem
  <2>6. QED
    BY <1>0, <2>1, <2>3, <2>4, <2>5, GoingOnKeeps
<1>8. ASSUME NEW p \in Procs, NEW i \in Items, SpawnResult(p, i) PROVE Promises'
  <2>1. /\ bridge[i] \in {"hasTab", "noTab"} /\ spawn[i].status # "delivered"
        /\ \A q \in Procs : proc[q].reply # i
    <3>1. bridge[i] \in {"hasTab", "noTab"}
      BY <1>8 DEF SpawnResult
    <3>2. QED
      BY <1>0, <3>1 DEF Promises, OwedOnce, PromiseKept, Forgotten
  <2>2. \A q \in Procs : proc[q].reply \in Items \cup {NoItem}
    BY <1>0 DEF TypeOK, Command
  <2>3. CASE UNCHANGED proc
    <3>1. /\ \A j \in Items \ {i} : bridge'[j] = bridge[j]
          /\ BindsNothing
      BY <1>0, <1>8, <2>3 DEF SpawnResult, TypeOK, SpawnRow, At, BindsNothing, Promises
    <3>2. QED
      BY <1>0, <2>1, <2>2, <2>3, <3>1 DEF Promises, OwedOnce, PromiseKept, BindsNothing, ForgottenStays
  <2>4. CASE ~ UNCHANGED proc
    <3>1. /\ proc' = [proc EXCEPT ![p] = At("advance", i, <<>>, "end")]
          /\ spawn' = [spawn EXCEPT ![i].status = IF bridge[i] = "hasTab" THEN "delivered" ELSE "failed"]
          /\ bridge' = [bridge EXCEPT ![i] = IF bridge[i] = "hasTab" THEN "sentTab" ELSE "sentError"]
      BY <1>8, <2>4 DEF SpawnResult
    <3>2. /\ proc'[p].reply = i /\ proc'[p].pc = "advance"
          /\ \A q \in Procs \ {p} : proc'[q] = proc[q]
      BY <1>0, <3>1 DEF At, TypeOK
    <3>3. /\ bridge'[i] \in {"sentTab", "sentError"}
          /\ spawn'[i].status = "delivered" => bridge'[i] = "sentTab"
          /\ spawn'[i].complete = spawn[i].complete
          /\ \A j \in Items \ {i} : bridge'[j] = bridge[j] /\ spawn'[j] = spawn[j]
      BY <1>0, <3>1 DEF TypeOK, SpawnRow
    <3>4. OwedOnce'
      BY <1>0, <2>1, <2>2, <3>2, <3>3 DEF Promises, OwedOnce
    <3>c. spawn[i].complete
      BY <2>1 DEF LaunchesDurable, Reached, Durable
    <3>5. PromiseKept'
      BY <1>0, <3>3, <3>c DEF Promises, PromiseKept, ForgottenStays
    <3>6. QED
      BY <3>4, <3>5 DEF Promises
  <2>5. QED
    BY <2>3, <2>4
<1>9. ASSUME NEW p \in Procs, Retry(p) PROVE Promises'
  <2>1. BindsNothing /\ UNCHANGED bridge
    BY <1>0, <1>9 DEF Retry, BindsNothing, TypeOK, SpawnRow
  <2>2. \A q \in Procs : proc'[q] = proc[q] \/ proc'[q].reply = NoItem
    BY <1>0, <1>9 DEF Retry, At, TypeOK
  <2>3. QED
    BY <1>0, <2>1, <2>2, GoingOnKeeps
<1>10. ASSUME NEW i \in Items, FrontendStep(i) \/ LoseEvent(i) PROVE Promises'
  <2>1. UNCHANGED <<spawn, proc>>
    BY <1>10 DEF FrontendStep, Receive, OpenTab, OpenTabFail, LoseEvent
  <2>2. \A j \in Items : bridge'[j] = bridge[j] \/ bridge[j] \in {"idle", "spawning"}
    BY <1>0, <1>10 DEF FrontendStep, Receive, OpenTab, OpenTabFail, LoseEvent, TypeOK
  <2>3. QED
    BY <1>0, <2>1, <2>2, BridgeKeeps
<1>11. CASE CancelDraft \/ SetAutoAdvance \/ Unchanged \/ \E i \in Items : Report(i) \/ PassGates(i)
  <2>1. UNCHANGED <<spawn, proc, bridge>>
    BY <1>11 DEF CancelDraft, SetAutoAdvance, Report, PassGates, Unchanged, vars
  <2>2. QED
    BY <1>0, <2>1, BridgeKeeps
<1>12. CASE Crash
  <2>1. UNCHANGED spawn /\ \A q \in Procs : proc'[q].reply = NoItem
    BY <1>12 DEF Crash, Idle, At
  <2>2. \A i \in Items : Forgotten(i)'
    BY <1>12 DEF Crash, Idle, At, Forgotten, Holds
  <2>3. QED
    BY <2>1, <2>2 DEF Promises, OwedOnce, PromiseKept
<1>13. QED
  BY <1>0, <1>1, <1>2, <1>3, <1>4, <1>5, <1>6, <1>7, <1>8, <1>9, <1>10, <1>11, <1>12
     DEF Next, CommandStep, Unchanged, GoFail, EmitFail, AdvanceFail, Reload

\* However many events the retries made, whichever of them are lost or fail to
\* open a tab, and whenever the process crashes, none opens a tab for an item
\* that has its session, while commands succeed and the page of the leader lives
\* (workOrderBridge.ts keeps the promise; workorder_retry_spawn refuses bound rows).
THEOREM BoundHasItsTab ==
  ASSUME Undisturbed
  PROVE  Spec => NoTabForBound
<1> DEFINE Kept == \A i \in Items : spawn[i].status = "delivered" => tabs'[i] <= tabs[i]
<1>1. Init => LaunchesDurable
  BY DEF Init, LaunchesDurable, Reached, HeldIsDurable, Holds, Idle, At
<1>2. Init => Promises
  BY DEF Init, Promises, OwedOnce, PromiseKept, Idle, At, NoRow
<1>3. TablesOK /\ LaunchesDurable /\ Promises /\ [Next]_vars => Promises'
  BY PromisesStep
<1>4. TablesOK /\ Promises /\ [Next]_vars => [Kept]_vars
  <2> SUFFICES ASSUME TablesOK, Promises, Next, NEW i \in Items, spawn[i].status = "delivered"
               PROVE  tabs'[i] <= tabs[i]
    OBVIOUS
  <2>1. tabs \in [Items -> Nat] /\ bridge[i] # "spawning"
    BY DEF TablesOK, TypeOK, Promises, PromiseKept, Forgotten
  <2>2. CASE \E j \in Items : OpenTab(j)
    BY <2>1, <2>2 DEF OpenTab
  <2>3. CASE ~ \E j \in Items : OpenTab(j)
    <3>1. ASSUME NEW p \in Procs, GoStart(p) \/ Retry(p) \/ CommandStep(p)
          PROVE  UNCHANGED tabs
      BY <3>1 DEF GoStart, Retry, CommandStep, GoFail, GoSeal, GoMark, GoDispatch, Emit, EmitFail,
         EmitDone, AdvanceRead, AdvanceItem, AdvanceFail, AdvanceEnd
    <3>2. ASSUME NEW p \in Procs, NEW j \in Items, SpawnResult(p, j) PROVE UNCHANGED tabs
      BY <3>2 DEF SpawnResult
    <3>3. ASSUME NEW j \in Items, Receive(j) \/ OpenTabFail(j) \/ LoseEvent(j) \/ Report(j) \/ PassGates(j)
          PROVE  UNCHANGED tabs
      BY <3>3 DEF Receive, OpenTabFail, LoseEvent, Report, PassGates
    <3>4. CASE CancelDraft \/ SetAutoAdvance \/ Reload
      BY <2>1, <3>4 DEF CancelDraft, SetAutoAdvance, Reload
    <3>5. CASE \E p \in Procs : GoStart(p) \/ Retry(p) \/ CommandStep(p) \/ \E j \in Items : SpawnResult(p, j)
      BY <2>1, <3>1, <3>2, <3>5
    <3>6. CASE \E j \in Items : FrontendStep(j) \/ LoseEvent(j) \/ Report(j) \/ PassGates(j)
      BY <2>1, <2>3, <3>3, <3>6 DEF FrontendStep
    <3>7. CASE Crash
      BY <2>1, <3>7 DEF Crash
    <3>8. QED
      BY <2>1, <3>4, <3>5, <3>6, <3>7 DEF Next
  <2>4. QED
    BY <2>2, <2>3
<1>5. QED
  BY <1>1, <1>2, <1>3, <1>4, DurableInductive, TablesInvariant, PTL DEF Spec, NoTabForBound

=============================================================================
