----------------------- MODULE WorkOrderContract_proofs -----------------------
(***************************************************************************)
(* The seal of WorkOrderContract, for every set of sources, number of      *)
(* overlapping commands, versions and events.  SealedIsCurrent with the    *)
(* types is inductive; what a step may do to a sealed version follows.     *)
(***************************************************************************)
EXTENDS WorkOrderContract, TLAPS

ContractInv == TypeOK /\ SealedIsCurrent

LEMMA NoJobIsJob == NoJob \in Job /\ NoFile \in [Sources -> Snapshot]
  BY BoundsAssumption DEF NoJob, Job, NoFile, NoSnapshot, Snapshot, Event, Version

LEMMA InitInv == Init => ContractInv
<1> SUFFICES ASSUME Init PROVE ContractInv
  OBVIOUS
<1>1. TypeOK
  BY NoJobIsJob, BoundsAssumption DEF Init, TypeOK, Version, Event
<1>2. SealedIsCurrent
  BY DEF Init, SealedIsCurrent
<1> QED  BY <1>1, <1>2 DEF ContractInv

\* The current version is one of the versions.
LEMMA CurrentStored == TypeOK => current \in Version
  BY BoundsAssumption DEF TypeOK, Version

\* A command that ends leaves a well-typed table of commands.
LEMMA EndTypes ==
  ASSUME TypeOK, NEW p \in Procs, End(p) PROVE job' \in [Procs -> Job]
  BY NoJobIsJob DEF TypeOK, End

\* The type of the whole state is preserved: one step per action.
LEMMA NextType == TypeOK /\ [Next]_vars => TypeOK'
<1> SUFFICES ASSUME TypeOK, [Next]_vars PROVE TypeOK'
  OBVIOUS
<1>1. ASSUME NEW p \in Procs, Start(p) PROVE TypeOK'
  <2>1. PICK go \in BOOLEAN, override \in BOOLEAN, acquired \in SUBSET Sources :
          job' = [job EXCEPT ![p] = NewJob(go, override, Digest(acquired))]
    BY <1>1 DEF Start
  <2>2. Digest(acquired) \in [Sources -> Snapshot]
    BY BoundsAssumption DEF TypeOK, Snapshot, Event, Digest
  <2>3. NewJob(go, override, Digest(acquired)) \in Job
    BY <2>2, CurrentStored DEF NewJob, Job
  <2>4. job' \in [Procs -> Job]
    BY <2>1, <2>3 DEF TypeOK
  <2> QED  BY <1>1, <2>4 DEF Start, TypeOK
<1>2. ASSUME NEW p \in Procs, Read(p) PROVE TypeOK'
  <2>1. job' \in [Procs -> Job]
    BY <1>2, EndTypes DEF Read, TypeOK, Job
  <2> QED  BY <1>2, <2>1 DEF Read, TypeOK
<1>3. ASSUME NEW p \in Procs, Check(p) PROVE TypeOK'
  <2>1. CASE job[p].version \in sealed \/ ~alive
    BY <1>3, <2>1, EndTypes DEF Check, TypeOK
  <2>2. CASE ~(job[p].version \in sealed \/ ~alive)
    <3>1. job' = [job EXCEPT ![p].pc = "write"]
      BY <1>3, <2>2 DEF Check
    <3>2. job[p] \in Job
      BY DEF TypeOK
    <3>3. [job[p] EXCEPT !.pc = "write"] \in Job
      BY <3>2 DEF Job
    <3>4. job' \in [Procs -> Job]
      BY <3>1, <3>2, <3>3 DEF TypeOK
    <3> QED  BY <1>3, <2>2, <3>4 DEF Check, TypeOK
  <2> QED  BY <2>1, <2>2
<1>4. ASSUME NEW p \in Procs, Write(p) PROVE TypeOK'
  <2>1. PICK s \in job[p].todo :
          /\ snap' = [snap EXCEPT ![job[p].version][s] = job[p].digest[s]]
          /\ IF job[p].todo \ {s} = {} /\ ~job[p].go
               THEN End(p)
               ELSE job' = [job EXCEPT ![p].todo = job[p].todo \ {s},
                      ![p].pc = IF job[p].todo \ {s} = {} THEN "covered" ELSE "check"]
    BY <1>4 DEF Write
  <2>2. job[p] \in Job
    BY DEF TypeOK
  <2>3. job[p].version \in Version /\ job[p].digest \in [Sources -> Snapshot] /\ s \in Sources
    BY <2>1, <2>2 DEF Job
  <2>4. snap' \in [Version -> [Sources -> Snapshot]]
    BY <2>1, <2>3 DEF TypeOK
  <2>5. job' \in [Procs -> Job]
    <3>1. CASE job[p].todo \ {s} = {} /\ ~job[p].go
      BY <2>1, <3>1, EndTypes
    <3>2. CASE ~(job[p].todo \ {s} = {} /\ ~job[p].go)
      <4> DEFINE pc == IF job[p].todo \ {s} = {} THEN "covered" ELSE "check"
      <4>1. job' = [job EXCEPT ![p] = [job[p] EXCEPT !.pc = pc, !.todo = job[p].todo \ {s}]]
        BY <2>1, <2>2, <3>2 DEF TypeOK, Job
      <4>2. [job[p] EXCEPT !.pc = pc, !.todo = job[p].todo \ {s}] \in Job
        BY <2>2 DEF Job
      <4> QED  BY <4>1, <4>2 DEF TypeOK
    <3> QED  BY <3>1, <3>2
  <2> QED  BY <1>4, <2>4, <2>5 DEF Write, TypeOK
<1>5. ASSUME NEW p \in Procs, Cover(p) PROVE TypeOK'
  <2>1. job[p] \in Job
    BY DEF TypeOK
  <2>2. CASE alive /\ ~Acquired(job[p].version) /\ ~job[p].override
    BY <1>5, <2>2, EndTypes DEF Cover, TypeOK
  <2>3. CASE ~(alive /\ ~Acquired(job[p].version) /\ ~job[p].override)
    <3>1. handoff' = [handoff EXCEPT ![job[p].version] = job[p].digest]
          /\ job' = [job EXCEPT ![p].pc = "handed"]
      BY <1>5, <2>3 DEF Cover
    <3>2. handoff' \in [Version -> [Sources -> Snapshot]]
      BY <2>1, <3>1 DEF TypeOK, Job
    <3>3. job' \in [Procs -> Job]
      BY <2>1, <3>1 DEF TypeOK, Job
    <3> QED  BY <1>5, <3>2, <3>3 DEF Cover, TypeOK
  <2> QED  BY <2>2, <2>3
<1>6. ASSUME NEW p \in Procs, WorktreeFails(p) PROVE TypeOK'
  BY <1>6, EndTypes DEF WorktreeFails, TypeOK
<1>7. ASSUME NEW p \in Procs, Seal(p) PROVE TypeOK'
  <2>1. job' \in [Procs -> Job]
    BY <1>7, EndTypes DEF Seal
  <2>2. sealed' \subseteq Version
    BY <1>7, CurrentStored DEF Seal, SealCurrent, TypeOK
  <2>3. binding' \in [Version -> [Sources -> Event]]
    <3>1. [s \in Sources |-> snap[current][s].event] \in [Sources -> Event]
      BY CurrentStored DEF TypeOK, Snapshot
    <3> QED  BY <1>7, <3>1 DEF Seal, SealCurrent, TypeOK
  <2> QED  BY <1>7, <2>1, <2>2, <2>3 DEF Seal, TypeOK
<1>8. ASSUME NEW s \in Sources, Advance(s) PROVE TypeOK'
  BY <1>8, BoundsAssumption DEF Advance, TypeOK, Event
<1>9. ASSUME Bump PROVE TypeOK'
  BY <1>9, BoundsAssumption DEF Bump, TypeOK, Version
<1>10. ASSUME Activate PROVE TypeOK'
  BY <1>10 DEF Activate, TypeOK
<1>11. ASSUME Cancel PROVE TypeOK'
  BY <1>11, NoJobIsJob DEF Cancel, TypeOK
<1>12. ASSUME Crash PROVE TypeOK'
  BY <1>12, NoJobIsJob DEF Crash, TypeOK
<1>13. ASSUME UNCHANGED vars PROVE TypeOK'
  BY <1>13 DEF vars, TypeOK
<1> QED
  BY <1>1, <1>2, <1>3, <1>4, <1>5, <1>6, <1>7, <1>8, <1>9, <1>10, <1>11, <1>12, <1>13
     DEF Next, JobStep

\* What one step does to the seal: nothing, or it seals the current version of
\* an order that had no sealed version, or, before any seal, it activates a
\* version or deletes the order.
SealStep ==
  \/ UNCHANGED <<alive, current, sealed, binding>>
  \/ /\ alive /\ current \notin sealed
     /\ \/ Acquired(current)
        \/ \E p \in Procs : job[p].pc = "handed" /\ job[p].override /\ job'[p].pc = "idle"
     /\ SealCurrent
     /\ UNCHANGED <<alive, current>>
  \/ current \notin sealed /\ UNCHANGED <<sealed, binding>>

LEMMA NextSeals == TypeOK /\ [Next]_vars => SealStep
<1> SUFFICES ASSUME TypeOK, [Next]_vars PROVE SealStep
  OBVIOUS
<1>1. ASSUME NEW p \in Procs, Seal(p) PROVE SealStep
  <2>1. CASE ~alive \/ current \in sealed \/ (~Acquired(current) /\ ~job[p].override)
    BY <1>1, <2>1 DEF Seal, SealStep
  <2>2. CASE ~(~alive \/ current \in sealed \/ (~Acquired(current) /\ ~job[p].override))
    <3>1. SealCurrent /\ UNCHANGED <<alive, current>>
      BY <1>1, <2>2 DEF Seal
    <3>2. job[p].pc = "handed" /\ job'[p].pc = "idle"
      BY <1>1 DEF Seal, End, NoJob, TypeOK
    <3> QED  BY <2>2, <3>1, <3>2 DEF SealStep
  <2> QED  BY <2>1, <2>2
<1>2. ASSUME Activate \/ Cancel PROVE SealStep
  BY <1>2 DEF Activate, Cancel, SealStep
<1>3. ASSUME NEW p \in Procs,
             Start(p) \/ Read(p) \/ Check(p) \/ Write(p) \/ Cover(p) \/ WorktreeFails(p)
      PROVE SealStep
  BY <1>3 DEF Start, Read, Check, Write, Cover, WorktreeFails, SealStep
<1>4. ASSUME Bump \/ Crash \/ UNCHANGED vars PROVE SealStep
  BY <1>4 DEF Bump, Crash, vars, SealStep
<1>5. ASSUME NEW s \in Sources, Advance(s) PROVE SealStep
  BY <1>5 DEF Advance, SealStep
<1> QED  BY <1>1, <1>2, <1>3, <1>4, <1>5 DEF Next, JobStep

LEMMA NextInv == ContractInv /\ [Next]_vars => ContractInv'
<1> SUFFICES ASSUME ContractInv, [Next]_vars PROVE ContractInv'
  OBVIOUS
<1>1. TypeOK'
  BY NextType DEF ContractInv
<1>2. SealedIsCurrent'
  BY NextSeals DEF ContractInv, SealStep, SealCurrent, SealedIsCurrent
<1> QED  BY <1>1, <1>2 DEF ContractInv

LEMMA Invariance == Spec => []ContractInv
  BY InitInv, NextInv, PTL DEF Spec

\* Versions, snapshots, bindings, handoff files and the commands in progress
\* keep their types however record_source_snapshot, GO and cancel interleave.
THEOREM ContractTypes == Spec => []TypeOK
  BY Invariance, PTL DEF ContractInv

\* However many GO, activate and cancel commands overlap, at most one version
\* is ever sealed, it is the current one, and its order is not deleted.
THEOREM OneSealedVersion == Spec => []SealedIsCurrent
  BY Invariance, PTL DEF ContractInv

\* seal_plan counts the sources itself: a source lost while GO awaited its
\* worktree keeps the plan unsealed unless the user overrides.
THEOREM SealChecksSources == Spec => SealNeedsSources
<1>1. TypeOK /\ [Next]_vars =>
        [\A v \in sealed' \ sealed :
           \/ \A s \in Sources : snap[v][s].status = "acquired"
           \/ \E p \in Procs : job[p].pc = "handed" /\ job[p].override /\ job'[p].pc = "idle"]_vars
  BY NextSeals DEF SealStep, SealCurrent, Acquired
<1> QED  BY <1>1, ContractTypes, PTL DEF Spec, SealNeedsSources

\* No later GO, refresh, activation or cancel unseals a version or moves the
\* event boundary that the seal copied into its bindings.
THEOREM SealedForGood == Spec => SealIsFinal
<1>1. ContractInv /\ [Next]_vars =>
        [\A v \in sealed : v \in sealed' /\ binding'[v] = binding[v]]_vars
  BY NextSeals DEF ContractInv, SealedIsCurrent, SealStep, SealCurrent
<1> QED  BY <1>1, Invariance, PTL DEF Spec, SealIsFinal
=============================================================================
