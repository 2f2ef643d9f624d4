------------------------------ MODULE WorkOrder ------------------------------
(***************************************************************************)
(* The execution lane of one WorkOrder: GO, the spawn outbox, dependency   *)
(* driven advancement, the Tauri event that asks the frontend for a tab,   *)
(* and the spawn result that comes back.                                   *)
(*                                                                         *)
(* Every Tauri command is an asynchronous task with a connection of its    *)
(* own, so an invocation is a process p \in Procs that takes one step per  *)
(* SQLite transaction or autocommitted statement.  Sources, plan versions  *)
(* and the draft's life are in WorkOrderContract.  record_report and       *)
(* record_gate_result have no caller but tests yet: Report and PassGates   *)
(* stand for what they will do to a running item.                          *)
(***************************************************************************)
EXTENDS Naturals, FiniteSets, Sequences

CONSTANTS
  Items,        \* the work items of the plan
  Ordinal,      \* their position in the plan, work_items.ordinal
  Deps,         \* item -> the items it depends on
  Assigned,     \* items whose plan names an assignee session
  Conflicts,    \* pairs of items whose write scopes overlap
  Integrator,   \* the one unassigned item without dependencies
  MaxNewPty,    \* budgets.max_new_pty
  Procs,        \* command invocations that may be in progress at once
  NoItem,
  Faults,       \* which failures the environment may cause
  MaxRetries,   \* bound on the user's retries
  MaxTabs       \* bound on the tabs opened for one item

ASSUME PlanAssumption ==
  /\ IsFiniteSet(Items)
  /\ Integrator \in Items
  /\ Deps \in [Items -> SUBSET Items]
  /\ Assigned \subseteq Items
  /\ {i \in Items : Deps[i] = {} /\ i \notin Assigned} = {Integrator}
  /\ Ordinal \in [Items -> Nat]
  /\ \A i, j \in Items : Ordinal[i] = Ordinal[j] => i = j
  /\ \A i, j \in Items : <<i, j>> \in Conflicts => <<j, i>> \in Conflicts
  /\ NoItem \notin Items

ASSUME BudgetAssumption == MaxNewPty \in Nat /\ MaxNewPty >= 1

ASSUME BoundAssumption == MaxRetries \in Nat /\ MaxTabs \in Nat

VARIABLES
  order,        \* "draft", "sealed" (running) or "deleted"
  item,         \* work_items.state
  spawn,        \* dispatch_outbox row of kind 'spawn': status, complete payload?
  autoAdvance,  \* the autonomy setting
  proc,         \* the command invocations in progress
  wire,         \* workorder://spawn-request events on their way, per item
  bridge,       \* the leader window's promise for the item's request
  tabs,         \* live agent tabs opened for the item
  retries       \* retries used so far

vars == <<order, item, spawn, autoAdvance, proc, wire, bridge, tabs, retries>>

ItemState == {"pending", "ready", "dispatched", "running", "reported", "verified"}
SpawnStatus == {"none", "pending", "in_flight", "delivered", "failed"}
SpawnRow == [status : SpawnStatus, complete : BOOLEAN]
BridgeState == {"idle", "spawning", "hasTab", "noTab", "sentTab", "sentError", "done"}
Pc == {"idle", "prepared", "sealed", "marked", "advance", "advancing", "emitting"}

NoRow == [status |-> "none", complete |-> FALSE]
\* An invocation: where it is, whose promise it answers, the items it has still
\* to dispatch, the requests it has still to emit, and what follows the emits.
Command == [pc : Pc, reply : Items \cup {NoItem}, todo : SUBSET Items,
            queue : Seq(Items), next : {"advance", "end"}]

At(pc, reply, queue, next) ==
  [pc |-> pc, reply |-> reply, todo |-> {}, queue |-> queue, next |-> next]

Idle == At("idle", NoItem, <<>>, "end")

TypeOK ==
  /\ order \in {"draft", "sealed", "deleted"}
  /\ item \in [Items -> ItemState]
  /\ spawn \in [Items -> SpawnRow]
  /\ autoAdvance \in BOOLEAN
  /\ proc \in [Procs -> Command]
  /\ wire \in [Items -> Nat]
  /\ bridge \in [Items -> BridgeState]
  /\ tabs \in [Items -> Nat]
  /\ retries \in Nat

Init ==
  /\ order = "draft"
  /\ item = [i \in Items |-> "pending"]
  /\ spawn = [i \in Items |-> NoRow]
  /\ autoAdvance = TRUE
  /\ proc = [p \in Procs |-> Idle]
  /\ wire = [i \in Items |-> 0]
  /\ bridge = [i \in Items |-> "idle"]
  /\ tabs = [i \in Items |-> 0]
  /\ retries = 0

-----------------------------------------------------------------------------
(* The pure decision of advance.rs.                                        *)

Active(i) == item[i] \in {"ready", "dispatched", "running", "reported"}

InUse == {i \in Items : spawn[i].status \in {"pending", "in_flight", "delivered"}}

\* Mutant: a report without its gates already releases the dependents.
EligibleOnReport(i, chosen) ==
  /\ item[i] = "pending"
  /\ Deps[i] # {}
  /\ \A d \in Deps[i] : item[d] \in {"reported", "verified"}
  /\ \A j \in Items : Active(j) \/ j \in chosen => <<i, j>> \notin Conflicts
  /\ Cardinality(InUse) + Cardinality(chosen) < MaxNewPty

\* Mutant: write scopes are compared within the round only.
EligibleThisRound(i, chosen) ==
  /\ item[i] = "pending"
  /\ Deps[i] # {}
  /\ \A d \in Deps[i] : item[d] = "verified"
  /\ \A j \in chosen : <<i, j>> \notin Conflicts
  /\ Cardinality(InUse) + Cardinality(chosen) < MaxNewPty

\* The contract lets item i start next to the items already chosen this round.
Eligible(i, chosen) ==
  /\ item[i] = "pending"
  /\ Deps[i] # {}
  /\ \A d \in Deps[i] : item[d] = "verified"
  /\ \A j \in Items : Active(j) \/ j \in chosen => <<i, j>> \notin Conflicts
  /\ Cardinality(InUse) + Cardinality(chosen) < MaxNewPty

\* Items are taken in plan order, each against those taken before it.
Dispatchable ==
  LET Earlier(i) == {j \in Items : Ordinal[j] < Ordinal[i]}
      taken[i \in Items] == Eligible(i, {j \in Earlier(i) : taken[j]})
  IN  {i \in Items : Eligible(i, {j \in Earlier(i) : taken[j]})}

-----------------------------------------------------------------------------
(* How a command ends.  A spawn-result command answers the promise that    *)
(* called it: an error sends the promise to its catch branch, which        *)
(* reports an error result, and whose own end forgets the request.         *)

\* Mutant: the promise of a delivered request is forgotten.
AnsweredForgetful(i, ok) ==
  IF bridge[i] = "sentTab" /\ ~ok THEN "noTab" ELSE "idle"

\* Mutant: the command ends without answering its caller.
AnsweredNever(i, ok) == bridge[i]

Answered(i, ok) ==
  IF bridge[i] = "sentTab" THEN IF ok THEN "done" ELSE "noTab" ELSE "idle"

Finish(p, ok) ==
  /\ proc' = [proc EXCEPT ![p] = Idle]
  /\ bridge' = [i \in Items |-> IF i = proc[p].reply THEN Answered(i, ok) ELSE bridge[i]]

Goto(p, pc) == proc' = [proc EXCEPT ![p].pc = pc]

-----------------------------------------------------------------------------
(* workorder_go.  The plan is read, then the worktree is awaited, then the *)
(* plan is sealed in one transaction; the outbox row and the item follow   *)
(* in two autocommitted statements.                                        *)

GoStart(p) ==
  /\ proc[p].pc = "idle"
  /\ order # "deleted"
  /\ proc' = [proc EXCEPT ![p] =
       At(IF order = "sealed" THEN "advance" ELSE "prepared", NoItem, <<>>, "advance")]
  /\ UNCHANGED <<order, item, spawn, autoAdvance, wire, bridge, tabs, retries>>

\* A missing source, no repository, a failed handoff or a failed worktree.
GoFail(p) ==
  /\ "io" \in Faults
  /\ proc[p].pc = "prepared"
  /\ Finish(p, FALSE)
  /\ UNCHANGED <<order, item, spawn, autoAdvance, wire, tabs, retries>>

\* store::seal_plan.  A draft deleted meanwhile is NotFound.
GoSeal(p) ==
  /\ proc[p].pc = "prepared"
  /\ \/ /\ order = "draft"
        /\ order' = "sealed"
        /\ item' = [i \in Items |-> IF Deps[i] = {} THEN "ready" ELSE "pending"]
        /\ spawn' = [spawn EXCEPT ![Integrator].status = "pending"]
        /\ Goto(p, "sealed")
     \/ /\ order = "sealed"
        /\ Goto(p, "advance")
        /\ UNCHANGED <<order, item, spawn>>
     \/ /\ order = "deleted"
        /\ proc' = [proc EXCEPT ![p] = Idle]
        /\ UNCHANGED <<order, item, spawn>>
  /\ UNCHANGED <<autoAdvance, wire, bridge, tabs, retries>>

\* Mutant: the row is claimed but the request is not stored in it.
GoMarkBare(p) ==
  /\ proc[p].pc = "sealed"
  /\ spawn[Integrator].status = "pending"
  /\ spawn' = [spawn EXCEPT ![Integrator].status = "in_flight"]
  /\ Goto(p, "marked")
  /\ UNCHANGED <<order, item, autoAdvance, wire, bridge, tabs, retries>>

\* executor::mark_spawn_in_flight stores the complete request.
GoMark(p) ==
  /\ proc[p].pc = "sealed"
  /\ spawn[Integrator].status = "pending"
  /\ spawn' = [spawn EXCEPT ![Integrator] = [status |-> "in_flight", complete |-> TRUE]]
  /\ Goto(p, "marked")
  /\ UNCHANGED <<order, item, autoAdvance, wire, bridge, tabs, retries>>

\* A retry and its result may have moved the item on already: that is an error.
GoDispatch(p) ==
  /\ proc[p].pc = "marked"
  /\ \/ /\ item[Integrator] = "ready"
        /\ item' = [item EXCEPT ![Integrator] = "dispatched"]
        /\ proc' = [proc EXCEPT ![p].pc = "emitting", ![p].queue = <<Integrator>>]
        /\ UNCHANGED bridge
     \/ /\ item[Integrator] # "ready"
        /\ Finish(p, FALSE)
        /\ UNCHANGED item
  /\ UNCHANGED <<order, spawn, autoAdvance, wire, tabs, retries>>

-----------------------------------------------------------------------------
(* emit_spawn_requests: the event of each request in turn.  A failed emit  *)
(* puts that request back to pending and drops the rest of the list.       *)

Emit(p) ==
  /\ proc[p].pc = "emitting"
  /\ proc[p].queue # <<>>
  /\ wire' = [wire EXCEPT ![Head(proc[p].queue)] = @ + 1]
  /\ proc' = [proc EXCEPT ![p].queue = Tail(@)]
  /\ UNCHANGED <<order, item, spawn, autoAdvance, bridge, tabs, retries>>

\* Mutant: requeue does not look at the status of the row.
EmitFailBlind(p) ==
  /\ "emit" \in Faults
  /\ proc[p].pc = "emitting"
  /\ proc[p].queue # <<>>
  /\ spawn' = [spawn EXCEPT ![Head(proc[p].queue)].status = "pending"]
  /\ Finish(p, FALSE)
  /\ UNCHANGED <<order, item, autoAdvance, wire, tabs, retries>>

EmitFail(p) ==
  /\ "emit" \in Faults
  /\ proc[p].pc = "emitting"
  /\ proc[p].queue # <<>>
  /\ LET i == Head(proc[p].queue)
     IN  spawn' = [spawn EXCEPT ![i].status = IF @ = "in_flight" THEN "pending" ELSE @]
  /\ Finish(p, FALSE)
  /\ UNCHANGED <<order, item, autoAdvance, wire, tabs, retries>>

EmitDone(p) ==
  /\ proc[p].pc = "emitting"
  /\ proc[p].queue = <<>>
  /\ \/ proc[p].next = "advance" /\ Goto(p, "advance") /\ UNCHANGED bridge
     \/ proc[p].next = "end" /\ Finish(p, TRUE)
  /\ UNCHANGED <<order, item, spawn, autoAdvance, wire, tabs, retries>>

-----------------------------------------------------------------------------
(* advance: a first decision outside any transaction, then a transaction   *)
(* per chosen item that decides again on what it then reads.  The launch   *)
(* target comes from the integrator's row, the first one; a row that holds *)
(* no complete request is an error.                                        *)

NothingToAdvance == ~autoAdvance \/ order # "sealed" \/ Dispatchable = {}

AdvanceRead(p) ==
  /\ proc[p].pc = "advance"
  /\ \/ /\ NothingToAdvance \/ ~spawn[Integrator].complete
        /\ Finish(p, NothingToAdvance)
     \/ /\ ~NothingToAdvance /\ spawn[Integrator].complete
        /\ proc' = [proc EXCEPT ![p].pc = "advancing", ![p].todo = Dispatchable,
                                ![p].queue = <<>>, ![p].next = "end"]
        /\ UNCHANGED bridge
  /\ UNCHANGED <<order, item, spawn, autoAdvance, wire, tabs, retries>>

FirstOf(S) == CHOOSE i \in S : \A j \in S : Ordinal[i] <= Ordinal[j]

AdvanceItem(p) ==
  /\ proc[p].pc = "advancing"
  /\ proc[p].todo # {}
  /\ LET i == FirstOf(proc[p].todo)
         starts == i \in Dispatchable /\ spawn[i].status = "none"
     IN  IF starts
           THEN /\ item' = [item EXCEPT ![i] = "dispatched"]
                /\ spawn' = [spawn EXCEPT ![i] = [status |-> "in_flight", complete |-> TRUE]]
                /\ proc' = [proc EXCEPT ![p].todo = @ \ {i}, ![p].queue = Append(@, i)]
           ELSE /\ proc' = [proc EXCEPT ![p].todo = @ \ {i}]
                /\ UNCHANGED <<item, spawn>>
  /\ UNCHANGED <<order, autoAdvance, wire, bridge, tabs, retries>>

\* The handoff file or the transaction fails: requests already committed by
\* this round are not returned to the caller, so nobody emits them.
AdvanceFail(p) ==
  /\ "io" \in Faults
  /\ proc[p].pc = "advancing"
  /\ proc[p].todo # {}
  /\ Finish(p, FALSE)
  /\ UNCHANGED <<order, item, spawn, autoAdvance, wire, tabs, retries>>

\* Mutant: the requests of the round are not handed to the emitter.
AdvanceEndSilent(p) ==
  /\ proc[p].pc = "advancing"
  /\ proc[p].todo = {}
  /\ Finish(p, TRUE)
  /\ UNCHANGED <<order, item, spawn, autoAdvance, wire, tabs, retries>>

AdvanceEnd(p) ==
  /\ proc[p].pc = "advancing"
  /\ proc[p].todo = {}
  /\ Goto(p, "emitting")
  /\ UNCHANGED <<order, item, spawn, autoAdvance, wire, bridge, tabs, retries>>

-----------------------------------------------------------------------------
(* workorder_spawn_result: record_spawn_result in one transaction, which   *)
(* only an in-flight row accepts, then advance_current.                    *)

SpawnResult(p, i) ==
  /\ proc[p].pc = "idle"
  /\ bridge[i] \in {"hasTab", "noTab"}
  /\ LET tab == bridge[i] = "hasTab"
         accepted == /\ spawn[i].status = "in_flight"
                     /\ tab => item[i] \in {"ready", "dispatched"}
     IN  \/ /\ accepted
            /\ spawn' = [spawn EXCEPT ![i].status = IF tab THEN "delivered" ELSE "failed"]
            /\ item' = [item EXCEPT ![i] = IF tab THEN "running" ELSE @]
            /\ proc' = [proc EXCEPT ![p] = At("advance", i, <<>>, "end")]
            /\ bridge' = [bridge EXCEPT ![i] = IF tab THEN "sentTab" ELSE "sentError"]
         \/ /\ ~accepted
            /\ bridge' = [bridge EXCEPT ![i] = IF tab THEN "noTab" ELSE "idle"]
            /\ UNCHANGED <<item, spawn, proc>>
  /\ UNCHANGED <<order, autoAdvance, wire, tabs, retries>>

\* Mutant: any launch can be retried.
RetryAny(p) ==
  /\ proc[p].pc = "idle"
  /\ retries < MaxRetries
  /\ order = "sealed"
  /\ \E i \in Items :
       /\ spawn[i].status \in {"pending", "in_flight", "failed"}
       /\ spawn[i].complete
       /\ spawn' = [spawn EXCEPT ![i].status = "in_flight"]
       /\ proc' = [proc EXCEPT ![p] = At("emitting", NoItem, <<i>>, "end")]
  /\ retries' = retries + 1
  /\ UNCHANGED <<order, item, autoAdvance, wire, bridge, tabs>>

\* workorder_retry_spawn: the integrator only, from the stored request.
Retry(p) ==
  /\ proc[p].pc = "idle"
  /\ retries < MaxRetries
  /\ order = "sealed"
  /\ spawn[Integrator].status \in {"pending", "in_flight", "failed"}
  /\ spawn[Integrator].complete
  /\ spawn' = [spawn EXCEPT ![Integrator].status = "in_flight"]
  /\ proc' = [proc EXCEPT ![p] = At("emitting", NoItem, <<Integrator>>, "end")]
  /\ retries' = retries + 1
  /\ UNCHANGED <<order, item, autoAdvance, wire, bridge, tabs>>

\* workorder_cancel of an unsealed order; a sealed one is left as it is.
CancelDraft ==
  /\ order = "draft"
  /\ order' = "deleted"
  /\ UNCHANGED <<item, spawn, autoAdvance, proc, wire, bridge, tabs, retries>>

SetAutoAdvance ==
  /\ autoAdvance' = ~autoAdvance
  /\ UNCHANGED <<order, item, spawn, proc, wire, bridge, tabs, retries>>

-----------------------------------------------------------------------------
(* The leader window.  handleWorkOrderSpawnRequest keeps one promise per   *)
(* request id while it runs and after it succeeded.                        *)

\* Mutant: the listener runs without an event.
ReceiveNothing(i) ==
  /\ wire' = [wire EXCEPT ![i] = @ - 1]
  /\ bridge' = [bridge EXCEPT ![i] = IF @ = "idle" THEN "spawning" ELSE @]
  /\ UNCHANGED <<order, item, spawn, autoAdvance, proc, tabs, retries>>

Receive(i) ==
  /\ wire[i] > 0
  /\ wire' = [wire EXCEPT ![i] = @ - 1]
  /\ bridge' = [bridge EXCEPT ![i] = IF @ = "idle" THEN "spawning" ELSE @]
  /\ UNCHANGED <<order, item, spawn, autoAdvance, proc, tabs, retries>>

OpenTab(i) ==
  /\ bridge[i] = "spawning"
  /\ tabs[i] < MaxTabs
  /\ tabs' = [tabs EXCEPT ![i] = @ + 1]
  /\ bridge' = [bridge EXCEPT ![i] = "hasTab"]
  /\ UNCHANGED <<order, item, spawn, autoAdvance, proc, wire, retries>>

OpenTabFail(i) ==
  /\ "spawn" \in Faults
  /\ bridge[i] = "spawning"
  /\ bridge' = [bridge EXCEPT ![i] = "noTab"]
  /\ UNCHANGED <<order, item, spawn, autoAdvance, proc, wire, tabs, retries>>

\* No window holds the leader role when the event arrives.
LoseEvent(i) ==
  /\ "lost" \in Faults
  /\ wire[i] > 0
  /\ wire' = [wire EXCEPT ![i] = @ - 1]
  /\ UNCHANGED <<order, item, spawn, autoAdvance, proc, bridge, tabs, retries>>

\* The leader's page reloads, or another window becomes leader: the map of
\* promises is empty, the tabs live on in the backend.
Reload ==
  /\ "reload" \in Faults
  /\ bridge # [i \in Items |-> "idle"]
  /\ bridge' = [i \in Items |-> "idle"]
  /\ proc' = [p \in Procs |-> [proc[p] EXCEPT !.reply = NoItem]]
  /\ UNCHANGED <<order, item, spawn, autoAdvance, wire, tabs, retries>>

\* The process dies: only the database survives.
Crash ==
  /\ "crash" \in Faults
  /\ proc' = [p \in Procs |-> Idle]
  /\ wire' = [i \in Items |-> 0]
  /\ bridge' = [i \in Items |-> "idle"]
  /\ tabs' = [i \in Items |-> 0]
  /\ UNCHANGED <<order, item, spawn, autoAdvance, retries>>

-----------------------------------------------------------------------------
(* The evidence side in summary: a running item is reported, and a report  *)
(* or a later gate result finds every gate passing.                        *)

Report(i) ==
  /\ item[i] = "running"
  /\ \E s \in {"reported", "verified"} : item' = [item EXCEPT ![i] = s]
  /\ UNCHANGED <<order, spawn, autoAdvance, proc, wire, bridge, tabs, retries>>

PassGates(i) ==
  /\ item[i] = "reported"
  /\ item' = [item EXCEPT ![i] = "verified"]
  /\ UNCHANGED <<order, spawn, autoAdvance, proc, wire, bridge, tabs, retries>>

-----------------------------------------------------------------------------
CommandStep(p) ==
  \/ GoFail(p) \/ GoSeal(p) \/ GoMark(p) \/ GoDispatch(p)
  \/ Emit(p) \/ EmitFail(p) \/ EmitDone(p)
  \/ AdvanceRead(p) \/ AdvanceItem(p) \/ AdvanceFail(p) \/ AdvanceEnd(p)

FrontendStep(i) == Receive(i) \/ OpenTab(i) \/ OpenTabFail(i)

Next ==
  \/ \E p \in Procs :
       \/ GoStart(p) \/ Retry(p) \/ CommandStep(p)
       \/ \E i \in Items : SpawnResult(p, i)
  \/ \E i \in Items :
       \/ FrontendStep(i) \/ LoseEvent(i) \/ Report(i) \/ PassGates(i)
  \/ CancelDraft \/ SetAutoAdvance \/ Reload \/ Crash

Spec == Init /\ [][Next]_vars

\* An accepted command runs to its end, a delivered event is handled, and a
\* promise that has its outcome gets its command in.  Users owe nothing.
Fairness ==
  /\ \A p \in Procs : WF_vars(CommandStep(p))
  /\ \A i \in Items : WF_vars(FrontendStep(i))
  /\ \A i \in Items : SF_vars(\E p \in Procs : SpawnResult(p, i))

FairSpec == Spec /\ Fairness

-----------------------------------------------------------------------------
(* Safety *)

\* decide_advance, run twice by each of several overlapping commands, never
\* starts an item before everything it depends on is verified.
DependenciesVerified ==
  \A i \in Items :
    item[i] # "pending" => \A d \in Deps[i] : item[d] = "verified"

\* Two items whose write scopes overlap are never active together, whichever
\* commands started them, unless both were released by the seal itself.
NoConflictingWriters ==
  \A i, j \in Items :
    (i # j /\ <<i, j>> \in Conflicts /\ Active(i) /\ Active(j))
      => Deps[i] = {} /\ Deps[j] = {}

\* Open launches and bound sessions stay within max_new_pty although a failed
\* launch gives its place back and a retry takes it again without looking.
SpawnBudget == Cardinality(InUse) <= MaxNewPty

\* The outbox row and the item tell the same story at every commit: a session
\* is bound exactly from "running" on, and an open launch has a waiting item.
LaunchAgreesWithItem ==
  \A i \in Items :
    /\ spawn[i].status = "delivered" <=> item[i] \in {"running", "reported", "verified"}
    /\ spawn[i].status \in {"in_flight", "failed"} => item[i] \in {"ready", "dispatched"}

\* Persist before emit: an event on the wire, a promise in the frontend or a
\* tab exists only for a launch whose complete request is already durable.
LaunchIsDurableFirst ==
  \A i \in Items :
    (wire[i] > 0 \/ bridge[i] # "idle" \/ tabs[i] > 0)
      => spawn[i].complete /\ item[i] # "pending"

-----------------------------------------------------------------------------
(* Action properties *)

\* A session, once bound to an item, is never bound again: late, repeated and
\* requeued launches cannot reopen a delivered row.
DeliveredIsFinal ==
  [][\A i \in Items :
       spawn[i].status = "delivered" => spawn'[i].status = "delivered"]_vars

\* No tab is opened for an item that has its session, however many events the
\* retries made and whichever attempts fail to open one, as long as the page of
\* the leader lives and the command that records the tab succeeds.  Without a
\* session a failed attempt may leave a tab behind.
NoTabForBound ==
  [][\A i \in Items : spawn[i].status = "delivered" => tabs'[i] <= tabs[i]]_vars

-----------------------------------------------------------------------------
(* Refinement.  What a user of the plan sees of an item: its outbox row,    *)
(* and of a bound one whether it is verified.                              *)

Stage(i) ==
  CASE spawn[i].status = "none" -> "waiting"
    [] spawn[i].status \in {"pending", "in_flight"} -> "open"
    [] spawn[i].status = "failed" -> "lapsed"
    [] OTHER -> IF item[i] = "verified" THEN "verified" ELSE "bound"

Plan == INSTANCE LaunchPlan
          WITH stage <- [i \in Items |-> Stage(i)], Root <- Integrator, Places <- MaxNewPty

\* Every interleaving of GO, advance, results, retries and crashes is a run of
\* the plan: in particular a retry, which counts no places, finds one free.
KeepsThePlan == Plan!Spec

-----------------------------------------------------------------------------
(* Liveness *)

\* A request the frontend took is always answered: its promise ends in
\* success or is forgotten, even when the command that records it fails.
ClaimsSettle ==
  \A i \in Items : bridge[i] # "idle" ~> bridge[i] \in {"idle", "done"}

\* A launch on its way is eventually delivered, failed or back to pending,
\* unless the user retries: an early retry may be swallowed by the promise of
\* the attempt that is just failing, and then waits for the next one.
LaunchesSettle ==
  \A i \in Items :
    spawn[i].status = "in_flight" ~> spawn[i].status # "in_flight" \/ retries > 0

=============================================================================
