-------------------------- MODULE WorkOrderContract --------------------------
(***************************************************************************)
(* The contract of one WorkOrder before it runs: plan versions, the source *)
(* snapshots collected for a version, the handoff file written from them,  *)
(* and the seal, which freezes one version and copies the event boundary   *)
(* of every source into its binding.                                       *)
(*                                                                         *)
(* GO and refresh are commands that take one step per SQL statement or     *)
(* transaction; store::record_source_snapshot checks that the version is   *)
(* not sealed in one statement and writes in another.                      *)
(***************************************************************************)
EXTENDS Naturals, FiniteSets

CONSTANTS
  Sources,      \* sessions bound to the plan in the role of a source
  Procs,        \* commands that may be in progress at once
  MaxVersion,   \* bound on the plan versions
  MaxEvent,     \* bound on the events of a source's transcript
  CanCrash      \* may the process die between two statements?

\* A plan without sources has nothing to collect, so there is at least one.
ASSUME SourcesAssumption == IsFiniteSet(Sources) /\ Sources # {} /\ CanCrash \in BOOLEAN
ASSUME BoundsAssumption == MaxVersion \in Nat \ {0} /\ MaxEvent \in Nat

Version == 1..MaxVersion
Event == 0..MaxEvent        \* 0 is a null event id
Snapshot == [status : {"none", "acquired", "failed"}, event : Event]
NoSnapshot == [status |-> "none", event |-> 0]
NoFile == [s \in Sources |-> NoSnapshot]

VARIABLES
  alive,      \* the work_orders row exists
  newest,     \* highest plan version stored
  current,    \* work_orders.plan_version
  sealed,     \* versions with a sealed_at
  snap,       \* source_snapshots rows
  binding,    \* session_bindings.snapshot_event_id of the sources
  handoff,    \* the digests the handoff file of a version was written from
  head,       \* last event of each source's transcript
  job         \* the commands in progress

vars == <<alive, newest, current, sealed, snap, binding, handoff, head, job>>

Job == [pc : {"idle", "read", "check", "write", "covered", "handed"},
        go : BOOLEAN, override : BOOLEAN, version : Version,
        digest : [Sources -> Snapshot], todo : SUBSET Sources]

NoJob == [pc |-> "idle", go |-> FALSE, override |-> FALSE, version |-> 1,
          digest |-> NoFile, todo |-> {}]

TypeOK ==
  /\ alive \in BOOLEAN
  /\ newest \in Version /\ current \in 1..newest
  /\ sealed \subseteq Version
  /\ snap \in [Version -> [Sources -> Snapshot]]
  /\ binding \in [Version -> [Sources -> Event]]
  /\ handoff \in [Version -> [Sources -> Snapshot]]
  /\ head \in [Sources -> Event]
  /\ job \in [Procs -> Job]

Init ==
  /\ alive = TRUE
  /\ newest = 1 /\ current = 1
  /\ sealed = {}
  /\ snap = [v \in Version |-> NoFile]
  /\ binding = [v \in Version |-> [s \in Sources |-> 0]]
  /\ handoff = [v \in Version |-> NoFile]
  /\ head = [s \in Sources |-> 0]
  /\ job = [p \in Procs |-> NoJob]

Acquired(v) == \A s \in Sources : snap[v][s].status = "acquired"

End(p) == job' = [job EXCEPT ![p] = NoJob]

-----------------------------------------------------------------------------
(* Commands                                                                *)

\* What livebrief tells of the sources now: a source without a healthy brief
\* is a failed digest.
Digest(acquired) ==
  [s \in Sources |-> IF s \in acquired
                       THEN [status |-> "acquired", event |-> head[s]]
                       ELSE [status |-> "failed", event |-> 0]]

NewJob(go, override, digest) ==
  [pc |-> IF go THEN "read" ELSE "check", go |-> go, override |-> override,
   version |-> current, digest |-> digest, todo |-> Sources]

\* Refresh and GO read the current version and take a digest of every source.
Start(p) ==
  /\ job[p].pc = "idle"
  /\ alive
  /\ \E go, override \in BOOLEAN, acquired \in SUBSET Sources :
       /\ override => go
       /\ job' = [job EXCEPT ![p] = NewJob(go, override, Digest(acquired))]
  /\ UNCHANGED <<alive, newest, current, sealed, snap, binding, handoff, head>>

\* GO reads the current version once more, with its digests in hand; GO of a
\* sealed version answers AlreadySealed.
Read(p) ==
  /\ job[p].pc = "read"
  /\ IF ~alive \/ current \in sealed
       THEN End(p)
       ELSE job' = [job EXCEPT ![p].version = current, ![p].pc = "check"]
  /\ UNCHANGED <<alive, newest, current, sealed, snap, binding, handoff, head>>

\* record_source_snapshot, first half: a sealed version or a source that is no
\* longer bound, because the draft is gone, is an error.
Check(p) ==
  /\ job[p].pc = "check"
  /\ IF job[p].version \in sealed \/ ~alive
       THEN End(p)
       ELSE job' = [job EXCEPT ![p].pc = "write"]
  /\ UNCHANGED <<alive, newest, current, sealed, snap, binding, handoff, head>>

\* Second half: the upsert, whatever has happened since.
Write(p) ==
  /\ job[p].pc = "write"
  /\ \E s \in job[p].todo :
       LET rest == job[p].todo \ {s}
       IN  /\ snap' = [snap EXCEPT ![job[p].version][s] = job[p].digest[s]]
           /\ IF rest = {} /\ ~job[p].go
                THEN End(p)
                ELSE job' = [job EXCEPT ![p].todo = rest,
                               ![p].pc = IF rest = {} THEN "covered" ELSE "check"]
  /\ UNCHANGED <<alive, newest, current, sealed, binding, handoff, head>>

\* GO counts the coverage and writes the handoff file.  A deleted draft has no
\* sources, so nothing is missing.
Cover(p) ==
  /\ job[p].pc = "covered"
  /\ IF alive /\ ~Acquired(job[p].version) /\ ~job[p].override
       THEN End(p) /\ UNCHANGED handoff
       ELSE /\ handoff' = [handoff EXCEPT ![job[p].version] = job[p].digest]
            /\ job' = [job EXCEPT ![p].pc = "handed"]
  /\ UNCHANGED <<alive, newest, current, sealed, snap, binding, head>>

\* The worktree cannot be prepared.
WorktreeFails(p) ==
  /\ job[p].pc = "handed"
  /\ End(p)
  /\ UNCHANGED <<alive, newest, current, sealed, snap, binding, handoff, head>>

\* The seal copies the boundary of every source into its binding.
SealCurrent ==
  /\ sealed' = sealed \cup {current}
  /\ binding' = [binding EXCEPT ![current] = [s \in Sources |-> snap[current][s].event]]

\* Mutant: a repeated GO refreshes the sealed boundary.
SealAgain(p) ==
  /\ job[p].pc = "handed"
  /\ IF ~alive \/ (~Acquired(current) /\ ~job[p].override)
       THEN UNCHANGED <<sealed, binding>>
       ELSE SealCurrent
  /\ End(p)
  /\ UNCHANGED <<alive, newest, current, snap, handoff, head>>

\* store::seal_plan: one transaction on the version that is current by now.
\* The launch that follows is WorkOrder's.
Seal(p) ==
  /\ job[p].pc = "handed"
  /\ IF ~alive \/ current \in sealed \/ (~Acquired(current) /\ ~job[p].override)
       THEN UNCHANGED <<sealed, binding>>
       ELSE SealCurrent
  /\ End(p)
  /\ UNCHANGED <<alive, newest, current, snap, handoff, head>>

\* bump_plan_version stores a proposal.
Bump ==
  /\ alive /\ newest < MaxVersion
  /\ newest' = newest + 1
  /\ UNCHANGED <<alive, current, sealed, snap, binding, handoff, head, job>>

\* Mutant: only the target version is checked.
ActivateAfterGo ==
  /\ alive
  /\ \E v \in 1..newest : v \notin sealed /\ current' = v
  /\ UNCHANGED <<alive, newest, sealed, snap, binding, handoff, head, job>>

\* Mutant: the version to activate need not be stored.
ActivateUnknown ==
  /\ alive
  /\ current \notin sealed
  /\ \E v \in 1..(newest + 1) : v \notin sealed /\ current' = v
  /\ UNCHANGED <<alive, newest, sealed, snap, binding, handoff, head, job>>

\* workorder_activate_version: neither the current version nor the stored
\* target is sealed.
Activate ==
  /\ alive
  /\ current \notin sealed
  /\ \E v \in 1..newest : v \notin sealed /\ current' = v
  /\ UNCHANGED <<alive, newest, sealed, snap, binding, handoff, head, job>>

\* workorder_cancel of a draft: its source snapshots and the order.
Cancel ==
  /\ alive
  /\ current \notin sealed
  /\ alive' = FALSE
  /\ snap' = [v \in Version |-> NoFile]
  /\ UNCHANGED <<newest, current, sealed, binding, handoff, head, job>>

\* A source session goes on working.
Advance(s) ==
  /\ head[s] < MaxEvent
  /\ head' = [head EXCEPT ![s] = @ + 1]
  /\ UNCHANGED <<alive, newest, current, sealed, snap, binding, handoff, job>>

Crash ==
  /\ CanCrash
  /\ job' = [p \in Procs |-> NoJob]
  /\ UNCHANGED <<alive, newest, current, sealed, snap, binding, handoff, head>>

JobStep(p) ==
  Read(p) \/ Check(p) \/ Write(p) \/ Cover(p) \/ WorktreeFails(p) \/ Seal(p)

Next ==
  \/ \E p \in Procs : Start(p) \/ JobStep(p)
  \/ \E s \in Sources : Advance(s)
  \/ Bump \/ Activate \/ Cancel \/ Crash

Spec == Init /\ [][Next]_vars

-----------------------------------------------------------------------------
(* Properties                                                              *)

\* Whatever is activated, cancelled or sealed by overlapping commands, a sealed
\* order exists, has one sealed version, and runs that version.
SealedIsCurrent == sealed # {} => alive /\ sealed = {current}

\* A version is sealed with every source acquired at that moment, although GO
\* looked earlier and awaited the worktree since, or by an explicit override.
SealNeedsSources ==
  [][\A v \in sealed' \ sealed :
       \/ \A s \in Sources : snap[v][s].status = "acquired"
       \/ \E p \in Procs : job[p].pc = "handed" /\ job[p].override /\ job'[p].pc = "idle"]_vars

\* Nothing that a late GO, refresh, activation or cancel does unseals a version
\* or moves the boundary sealed into its bindings.
SealIsFinal ==
  [][\A v \in sealed : v \in sealed' /\ binding'[v] = binding[v]]_vars

\* The handoff file tells the integrator where each source was cut off; the
\* sealed binding names the same event.
BoundaryMatchesHandoff ==
  \A v \in sealed : \A s \in Sources : binding[v][s] = handoff[v][s].event

=============================================================================
