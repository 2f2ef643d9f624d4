------------------------ MODULE WindowHandover_proofs ------------------------
(***************************************************************************)
(* Proofs about WindowHandover: its types, and that whatever windows boot, *)
(* dock, close and crash, a workspace is claimed by one window; then its   *)
(* steps: how a workspace may leave every window, and how it may come      *)
(* back.                                                                   *)
(***************************************************************************)
EXTENDS WindowHandover, TLAPS

\* Everything that makes a workspace appear in a window sooner or later: what
\* it holds, and what would be rescued from it.
Sent(w) == IF pub[w].on THEN pub[w].has ELSE {}
OnScreen(w) == IF Released(w) THEN {} ELSE shown[w]
claim == [w \in Windows |-> queue[w] \cup got[w] \cup OnScreen(w) \cup fragment[w] \cup Sent(w)]

Custody == \A w, x \in Live : w # x => claim[w] \cap claim[x] = {}

\* A window that was never opened left no trace, and its group is unclaimed.
AbsentIsFresh ==
  \A w \in Windows : phase[w] = "absent" =>
    /\ claim[w] = {} /\ ~ pub[w].on /\ w \notin closing
    /\ \A x \in Live : Group(w) \cap claim[x] = {}
    /\ \A s \in Workspaces : assigned[s] # w

\* A window that releases its workspace sent its last fragment, and gives the
\* workspace to a window that was opened.
DockIsQuiet ==
  \A w \in Windows :
    /\ phase[w] \in {"release", "move", "intent", "depart"} => ~ pub[w].on
    /\ phase[w] \in {"dock", "release", "move"} =>
         w # Main /\ target[w] \in Windows \ {w} /\ phase[target[w]] # "absent"

MainIsOpened == phase[Main] # "absent"

\* No fragment names a workspace that is attributed to another live window.
Routed == \A w \in Live : \A s \in fragment[w] : assigned[s] = w \/ assigned[s] \notin Live

\* What waits for a child window is not on its screen already.
InboxIsNew ==
  \A w \in Live \ {Main} :
    queue[w] \cap got[w] = {} /\ (queue[w] \cup got[w]) \cap OnScreen(w) = {}

IInv == Custody /\ AbsentIsFresh /\ DockIsQuiet /\ MainIsOpened /\ Routed /\ InboxIsNew

-----------------------------------------------------------------------------
(* What the registry's helpers return.                                       *)

LEMMA QueuedType ==
  ASSUME NEW q \in [Windows -> SUBSET Workspaces], NEW w \in Windows,
         NEW set \in SUBSET Workspaces
  PROVE  Queued(q, w, set) \in [Windows -> SUBSET Workspaces]
  BY DEF Queued

LEMMA AssignedType ==
  ASSUME NEW a \in [Workspaces -> Windows \cup {Nobody}], NEW w \in Windows \cup {Nobody},
         NEW set
  PROVE  /\ Assigned(a, w, set) \in [Workspaces -> Windows \cup {Nobody}]
         /\ Republished(a, w, set) \in [Workspaces -> Windows \cup {Nobody}]
         /\ Forgotten(a, w) \in [Workspaces -> Windows \cup {Nobody}]
  BY DEF Assigned, Republished, Forgotten

LEMMA RescueTargetsType ==
  ASSUME NEW w PROVE RescueTargets(w) \subseteq (Live \ ({w} \cup closing)) \cup {Nobody}
  BY DEF RescueTargets, Rescuers

-----------------------------------------------------------------------------
(* Types.                                                                    *)

LEMMA TypeInit == Init => TypeOK
  BY WindowsAssumption DEF Init, TypeOK, Group, Phases, Docking, Closing, Idle, SaveState, NoSave

LEMMA TypeBooting == TypeOK /\ Booting => TypeOK'
<1> SUFFICES ASSUME TypeOK, Booting PROVE TypeOK'
  OBVIOUS
<1> USE WindowsAssumption DEF TypeOK, Phases, registry, fileVars
<1>1. CASE MainLoaded
  BY <1>1 DEF MainLoaded
<1>2. ASSUME NEW w \in Windows, OpenSaved(w) PROVE TypeOK'
  BY <1>2, QueuedType, AssignedType DEF OpenSaved, Group
<1>3. ASSUME NEW w \in Windows, OpenSavedFails(w) PROVE TypeOK'
  BY <1>3, QueuedType, AssignedType DEF OpenSavedFails, Group
<1>4. ASSUME NEW w \in Windows, ChildDrains(w) PROVE TypeOK'
  BY <1>4 DEF ChildDrains
<1>5. ASSUME NEW w \in Windows, ChildHydrated(w) PROVE TypeOK'
  BY <1>5 DEF ChildHydrated
<1> QED
  BY <1>1, <1>2, <1>3, <1>4, <1>5 DEF Booting

LEMMA TypeAdopting == ASSUME NEW w \in Windows PROVE TypeOK /\ Adopting(w) => TypeOK'
<1> SUFFICES ASSUME TypeOK, Adopting(w) PROVE TypeOK'
  OBVIOUS
<1> USE DEF TypeOK, registry, fileVars
<1>1. CASE Drain(w)
  BY <1>1 DEF Drain
<1>2. CASE DrainSkipped(w)
  BY <1>2 DEF DrainSkipped
<1>3. CASE Adopt(w)
  BY <1>3 DEF Adopt
<1>4. CASE AdoptSkipped(w)
  BY <1>4 DEF AdoptSkipped
<1> QED
  BY <1>1, <1>2, <1>3, <1>4 DEF Adopting

LEMMA TypePublishing == ASSUME NEW w \in Windows PROVE TypeOK /\ Publishing(w) => TypeOK'
<1> SUFFICES ASSUME TypeOK, Publishing(w) PROVE TypeOK'
  OBVIOUS
<1> USE DEF TypeOK, registry, fileVars
<1>1. CASE Publish(w)
  BY <1>1 DEF Publish
<1>2. CASE PublishSkipped(w)
  BY <1>2 DEF PublishSkipped
<1>3. CASE Published(w)
  <2>1. fragment' \in [Windows -> SUBSET Workspaces]
    BY <1>3 DEF Published
  <2>2. assigned' \in [Workspaces -> Windows \cup {Nobody}]
    BY <1>3, AssignedType DEF Published
  <2>3. pub' \in [Windows -> [on : BOOLEAN, has : SUBSET Workspaces]]
    BY <1>3 DEF Published, Idle
  <2> QED
    BY <1>3, <2>1, <2>2, <2>3 DEF Published
<1> QED
  BY <1>1, <1>2, <1>3 DEF Publishing

LEMMA TypeDockSteps == ASSUME NEW w \in Windows PROVE TypeOK /\ DockSteps(w) => TypeOK'
<1> SUFFICES ASSUME TypeOK, DockSteps(w) PROVE TypeOK'
  OBVIOUS
<1> USE DEF TypeOK, registry, fileVars, Phases, Docking
<1>1. ASSUME NEW to \in Windows, DockStart(w, to) PROVE TypeOK'
  BY <1>1 DEF DockStart
<1>2. CASE DockPublish(w)
  BY <1>2, AssignedType DEF DockPublish
<1>3. CASE DockCheck(w)
  BY <1>3 DEF DockCheck
<1>4. CASE DockRelease(w)
  <2> DEFINE moved == fragment[w] \cap shown[w]
  <2>1. queue' \in [Windows -> SUBSET Workspaces]
    BY <1>4 DEF DockRelease, Queued
  <2>2. assigned' \in [Workspaces -> Windows \cup {Nobody}]
    BY <1>4, AssignedType DEF DockRelease
  <2>3. told' \in [Windows -> BOOLEAN]
    BY <1>4 DEF DockRelease
  <2> QED
    BY <1>4, <2>1, <2>2, <2>3 DEF DockRelease
<1>5. CASE DockRefused(w)
  BY <1>5 DEF DockRefused
<1>6. CASE DockIntent(w)
  BY <1>6 DEF DockIntent
<1> QED
  BY <1>1, <1>2, <1>3, <1>4, <1>5, <1>6 DEF DockSteps

LEMMA TypeCloseSteps == ASSUME NEW w \in Windows PROVE TypeOK /\ CloseSteps(w) => TypeOK'
<1> SUFFICES ASSUME TypeOK, CloseSteps(w) PROVE TypeOK'
  OBVIOUS
<1> USE DEF TypeOK, registry, fileVars, Phases, Closing
<1>1. CASE CloseStart(w)
  BY <1>1 DEF CloseStart
<1>2. CASE CloseIntent(w)
  BY <1>2 DEF CloseIntent
<1>3. CASE CloseDrain(w)
  BY <1>3 DEF CloseDrain
<1>4. CASE CloseKill(w)
  BY <1>4 DEF CloseKill
<1>5. CASE CloseKillFails(w)
  BY <1>5 DEF CloseKillFails
<1> QED
  BY <1>1, <1>2, <1>3, <1>4, <1>5 DEF CloseSteps

LEMMA TypeEnds == ASSUME NEW w \in Windows PROVE TypeOK /\ (Destroyed(w) \/ Crash(w)) => TypeOK'
<1> SUFFICES ASSUME TypeOK, Destroyed(w) \/ Crash(w) PROVE TypeOK'
  OBVIOUS
<1> USE DEF TypeOK, fileVars
<1>1. WindowEnds(w)
  BY DEF Destroyed, Crash
<1>2. /\ phase' \in [Windows -> Phases] /\ shown' \in [Windows -> SUBSET Workspaces]
      /\ got' \in [Windows -> SUBSET Workspaces] /\ dirty' \in [Windows -> BOOLEAN]
      /\ pub' \in [Windows -> [on : BOOLEAN, has : SUBSET Workspaces]]
      /\ target' \in [Windows -> Windows \cup {Nobody}] /\ leader' \in Windows \cup {Nobody}
  BY <1>1 DEF WindowEnds, Phases
<1>3. CASE Destroyed(w)
  BY <1>2, <1>3, AssignedType DEF Destroyed
<1>4. CASE Crash(w)
  <2>1. PICK t \in RescueTargets(w) :
          LET handed == IF t = Nobody THEN {} ELSE LeftBy(w) IN
          /\ queue' = [x \in Windows |->
                         IF x = w THEN {} ELSE IF x = t THEN queue[x] \cup handed ELSE queue[x]]
          /\ assigned' = Forgotten(Assigned(assigned, t, handed), w)
          /\ told' = [x \in Windows |->
                        IF x = w THEN FALSE ELSE told[x] \/ (x = t /\ handed # {})]
    BY <1>4 DEF Crash
  <2>2. t \in Windows \cup {Nobody}
    BY <2>1, RescueTargetsType DEF Live
  <2>3. queue' \in [Windows -> SUBSET Workspaces]
    BY <2>1 DEF LeftBy
  <2>4. assigned' \in [Workspaces -> Windows \cup {Nobody}]
    BY <2>1, <2>2, AssignedType
  <2>5. told' \in [Windows -> BOOLEAN]
    BY <2>1
  <2> QED
    BY <1>2, <1>4, <2>3, <2>4, <2>5 DEF Crash
<1> QED
  BY <1>3, <1>4

LEMMA TypeSaving == ASSUME NEW w \in Windows PROVE TypeOK /\ Saving(w) => TypeOK'
<1> SUFFICES ASSUME TypeOK, Saving(w) PROVE TypeOK'
  OBVIOUS
<1> USE DEF TypeOK, registry
<1>0. /\ PeerList \in SUBSET Workspaces /\ Pending \in SUBSET Workspaces
      /\ Held \in SUBSET Workspaces
  BY WindowsAssumption DEF PeerList, Pending, Held
<1>1. save[w].seen \in SUBSET Workspaces
  BY DEF SaveState
<1>2. NoSave \in SaveState
  BY DEF NoSave, SaveState
<1>3. CASE SaveRead(w)
  <2>1. [NoSave EXCEPT !.at = "read", !.seen = PeerList \cup Pending] \in SaveState
    BY <1>0 DEF NoSave, SaveState
  <2> QED
    BY <1>3, <2>1 DEF SaveRead
<1>4. CASE SaveBuild(w)
  <2>1. [save[w] EXCEPT !.at = "built", !.seen = @ \cup shown[w]] \in SaveState
    BY DEF SaveState
  <2>2. save' = [save EXCEPT ![w] = [save[w] EXCEPT !.at = "built", !.seen = @ \cup shown[w]]]
    BY <1>4 DEF SaveBuild, SaveState
  <2> QED
    BY <1>4, <2>1, <2>2 DEF SaveBuild
<1>5. CASE SaveAbandoned(w)
  BY <1>2, <1>5 DEF SaveAbandoned
<1>6. CASE SaveLook(w)
  <2>1. [save[w] EXCEPT !.at = "looked", !.held = Held] \in SaveState
    BY <1>0 DEF SaveState
  <2>2. save' = [save EXCEPT ![w] = [save[w] EXCEPT !.at = "looked", !.held = Held]]
    BY <1>6 DEF SaveLook, SaveState
  <2> QED
    BY <1>6, <2>1, <2>2 DEF SaveLook
<1>7. CASE SaveWrite(w)
  BY <1>1, <1>2, <1>7 DEF SaveWrite
<1> QED
  BY <1>3, <1>4, <1>5, <1>6, <1>7 DEF Saving

LEMMA TypeStep == TypeOK /\ [Next]_vars => TypeOK'
<1> SUFFICES ASSUME TypeOK, [Next]_vars PROVE TypeOK'
  OBVIOUS
<1>1. CASE Booting
  BY <1>1, TypeBooting
<1>2. ASSUME NEW w \in Windows, ClaimLeader(w) PROVE TypeOK'
  BY <1>2 DEF ClaimLeader, TypeOK, fileVars
<1>3. ASSUME NEW w \in Windows, NEW s \in Workspaces, CloseWorkspace(w, s) PROVE TypeOK'
  BY <1>3 DEF CloseWorkspace, TypeOK, registry, fileVars
<1>4. CASE UNCHANGED vars
  BY <1>4 DEF vars, TypeOK
<1> QED
  BY <1>1, <1>2, <1>3, <1>4, TypeAdopting, TypePublishing, TypeDockSteps, TypeCloseSteps,
     TypeEnds, TypeSaving DEF Next

\* The variables keep their types for any set of windows and workspaces.
THEOREM Typed == Spec => []TypeOK
  BY TypeInit, TypeStep, PTL DEF Spec

-----------------------------------------------------------------------------
(* Custody.  Most steps touch one window, which claims no more than before.  *)

Local(w) ==
  /\ phase[w] # "absent" /\ phase'[w] # "absent"
  /\ phase'[w] \notin Gone => phase[w] \notin Gone /\ claim'[w] \subseteq claim[w]
  /\ \A x \in Windows \ {w} :
       /\ phase'[x] = phase[x] /\ queue'[x] = queue[x] /\ got'[x] = got[x]
       /\ shown'[x] = shown[x] /\ fragment'[x] = fragment[x] /\ pub'[x] = pub[x]
       /\ target'[x] = target[x]
  /\ closing' \subseteq closing \cup {w}
  /\ \A s \in Workspaces :
       \/ assigned'[s] = assigned[s] \/ assigned'[s] = Nobody
       \/ assigned'[s] = w /\ (phase[w] \notin Gone => s \in claim[w])
  /\ \A s \in fragment'[w] :
       assigned'[s] = w \/ (s \in fragment[w] /\ assigned'[s] = assigned[s])
  /\ phase'[w] \in {"release", "move", "intent", "depart"} => ~ pub'[w].on
  /\ phase'[w] \in {"dock", "release", "move"} =>
       w # Main /\ target'[w] \in Windows \ {w} /\ phase'[target'[w]] # "absent"

\* What then waits for that window is new to it.
NewInbox(w) ==
  w \in Live' \ {Main} =>
    queue'[w] \cap got'[w] = {} /\ (queue'[w] \cup got'[w]) \cap OnScreen(w)' = {}

LEMMA LocalKeepsIInv ==
  ASSUME TypeOK, TypeOK', IInv, NEW w \in Windows, Local(w), NewInbox(w) PROVE IInv'
<1> USE DEF IInv
<1>1. /\ Live' \subseteq Live
      /\ w \notin Live => w \notin Live'
      /\ \A x \in Live' : claim'[x] \subseteq claim[x]
      /\ \A x \in Windows : phase'[x] = "absent" => x # w /\ phase[x] = "absent"
  BY DEF Local, Live, Gone, claim, Sent, OnScreen, Released
<1>2. Custody'
  BY <1>1 DEF Custody
<1>3. AbsentIsFresh'
  <2> SUFFICES ASSUME NEW x \in Windows, phase'[x] = "absent"
               PROVE /\ claim'[x] = {} /\ ~ pub'[x].on /\ x \notin closing'
                     /\ \A y \in Live' : Group(x) \cap claim'[y] = {}
                     /\ \A s \in Workspaces : assigned'[s] # x
    BY DEF AbsentIsFresh, Group
  <2>1. x # w /\ phase[x] = "absent"
    BY <1>1
  <2>2. claim'[x] = claim[x]
    BY <2>1 DEF Local, claim, Sent, OnScreen, Released
  <2> QED
    BY <1>1, <2>1, <2>2, WindowsAssumption DEF AbsentIsFresh, Local
<1>4. DockIsQuiet'
  <2> SUFFICES ASSUME NEW x \in Windows
               PROVE /\ phase'[x] \in {"release", "move", "intent", "depart"} => ~ pub'[x].on
                     /\ phase'[x] \in {"dock", "release", "move"} =>
                          x # Main /\ target'[x] \in Windows \ {x} /\ phase'[target'[x]] # "absent"
    BY DEF DockIsQuiet
  <2>1. CASE x = w
    BY <2>1 DEF Local
  <2>2. CASE x # w
    BY <1>1, <2>2 DEF DockIsQuiet, Local
  <2> QED
    BY <2>1, <2>2
<1>5. MainIsOpened'
  BY <1>1, WindowsAssumption DEF MainIsOpened
<1>6. Routed'
  <2> SUFFICES ASSUME NEW x \in Live', NEW s \in fragment'[x]
               PROVE assigned'[s] = x \/ assigned'[s] \notin Live'
    BY DEF Routed
  <2>0. s \in Workspaces /\ x \in Live /\ x \in Windows
    BY <1>1 DEF TypeOK, Live
  <2>1. CASE x = w
    BY <1>1, <2>0, <2>1 DEF Local, Routed
  <2>2. CASE x # w
    <3>1. s \in fragment[x] /\ s \in claim[x]
      BY <2>0, <2>2 DEF Local, claim
    <3>2. CASE assigned'[s] = assigned[s]
      BY <1>1, <2>0, <3>1, <3>2 DEF Routed
    <3>3. CASE assigned'[s] = Nobody
      BY <3>3, WindowsAssumption DEF Live
    <3>4. CASE assigned'[s] = w /\ (phase[w] \notin Gone => s \in claim[w])
      <4>1. CASE w \in Live
        BY <2>0, <2>2, <3>1, <3>4, <4>1 DEF Custody, Live
      <4>2. CASE w \notin Live
        BY <1>1, <3>4, <4>2
      <4> QED
        BY <4>1, <4>2
    <3> QED
      BY <2>0, <3>2, <3>3, <3>4 DEF Local
  <2> QED
    BY <2>1, <2>2
<1>7. InboxIsNew'
  <2> SUFFICES ASSUME NEW x \in Live' \ {Main}
               PROVE  queue'[x] \cap got'[x] = {} /\ (queue'[x] \cup got'[x]) \cap OnScreen(x)' = {}
    BY DEF InboxIsNew
  <2>1. CASE x = w
    BY <2>1 DEF NewInbox
  <2>2. CASE x # w
    BY <1>1, <2>2 DEF InboxIsNew, Local, Live, OnScreen, Released
  <2> QED
    BY <2>1, <2>2
<1> QED
  BY <1>2, <1>3, <1>4, <1>5, <1>6, <1>7

LEMMA LocalAdopting ==
  ASSUME TypeOK, IInv, NEW w \in Windows, Adopting(w) PROVE Local(w)
<1> USE DEF Local, claim, Sent, OnScreen, Released, Gone, TypeOK, IInv, AbsentIsFresh,
            DockIsQuiet, registry, fileVars
<1>1. CASE Drain(w)
  BY <1>1 DEF Drain
<1>2. CASE DrainSkipped(w)
  BY <1>2 DEF DrainSkipped, WindowClosing, Docking, Closing
<1>3. CASE Adopt(w)
  BY <1>3 DEF Adopt
<1>4. CASE AdoptSkipped(w)
  BY <1>4 DEF AdoptSkipped, WindowClosing, Docking, Closing
<1> QED
  BY <1>1, <1>2, <1>3, <1>4 DEF Adopting

\* A publish changes nothing that the registry will not hear, and else names
\* the window for exactly what it sent.
LEMMA PublishedEffect ==
  ASSUME TypeOK, NEW w \in Windows, Published(w)
  PROVE  /\ fragment'[w] \subseteq fragment[w] \cup Sent(w)
         /\ \A s \in Workspaces :
              \/ assigned'[s] = assigned[s] \/ assigned'[s] = Nobody
              \/ assigned'[s] = w /\ s \in Sent(w)
         /\ \A s \in fragment'[w] :
              assigned'[s] = w \/ (s \in fragment[w] /\ assigned'[s] = assigned[s])
<1>1. CASE w \in closing
  BY <1>1 DEF Published
<1>2. CASE w \notin closing
  <2>1. fragment'[w] = Sent(w) /\ Sent(w) \subseteq Workspaces
    BY <1>2 DEF Published, TypeOK, Sent
  <2>2. assigned' = Republished(assigned, w, Sent(w))
    BY <1>2 DEF Published, Sent
  <2>3. \A s \in Workspaces : assigned'[s] =
          IF s \in Sent(w) THEN w ELSE IF assigned[s] = w THEN Nobody ELSE assigned[s]
    BY <2>2 DEF Republished
  <2> QED
    BY <2>1, <2>3
<1> QED
  BY <1>1, <1>2

LEMMA LocalPublishing ==
  ASSUME TypeOK, IInv, NEW w \in Windows, Publishing(w) PROVE Local(w)
<1> USE DEF Local, claim, Sent, OnScreen, Released, Gone, TypeOK, IInv, AbsentIsFresh,
            DockIsQuiet, registry, fileVars
<1>1. CASE Publish(w)
  BY <1>1 DEF Publish
<1>2. CASE PublishSkipped(w)
  BY <1>2 DEF PublishSkipped, WindowClosing, Docking, Closing
<1>3. CASE Published(w)
  <2>1. phase[w] # "absent" /\ phase' = phase
    BY <1>3 DEF Published
  <2>2. /\ fragment'[w] \subseteq fragment[w] \cup Sent(w)
        /\ \A s \in Workspaces :
             \/ assigned'[s] = assigned[s] \/ assigned'[s] = Nobody
             \/ assigned'[s] = w /\ s \in Sent(w)
        /\ \A s \in fragment'[w] :
             assigned'[s] = w \/ (s \in fragment[w] /\ assigned'[s] = assigned[s])
    BY <1>3, PublishedEffect
  <2>3. claim'[w] \subseteq claim[w]
    BY <1>3, <2>1, <2>2 DEF Published, Idle
  <2> QED
    BY <1>3, <2>1, <2>2, <2>3 DEF Published, Idle
<1> QED
  BY <1>1, <1>2, <1>3 DEF Publishing

LEMMA LocalCloseSteps ==
  ASSUME TypeOK, IInv, NEW w \in Windows, CloseSteps(w) PROVE Local(w)
<1> USE DEF Local, claim, Sent, OnScreen, Released, Gone, TypeOK, IInv, AbsentIsFresh,
            DockIsQuiet, registry, fileVars
<1>1. CASE CloseStart(w)
  BY <1>1 DEF CloseStart
<1>2. CASE CloseIntent(w)
  BY <1>2 DEF CloseIntent
<1>3. CASE CloseDrain(w)
  BY <1>3 DEF CloseDrain
<1>4. CASE CloseKill(w)
  BY <1>4 DEF CloseKill
<1>5. CASE CloseKillFails(w)
  BY <1>5 DEF CloseKillFails
<1> QED
  BY <1>1, <1>2, <1>3, <1>4, <1>5 DEF CloseSteps

LEMMA LocalDockSteps ==
  ASSUME TypeOK, IInv, NEW w \in Windows, DockSteps(w)
  PROVE  DockRelease(w) \/ Local(w)
<1> USE DEF Local, claim, Sent, OnScreen, Released, Gone, TypeOK, IInv, AbsentIsFresh,
            DockIsQuiet, registry, fileVars
<1>1. ASSUME NEW to \in Windows, DockStart(w, to) PROVE Local(w)
  BY <1>1 DEF DockStart
<1>2. CASE DockPublish(w)
  <2>1. /\ \A s \in Workspaces :
             \/ assigned'[s] = assigned[s] \/ assigned'[s] = Nobody
             \/ (assigned'[s] = w /\ s \in shown[w])
        /\ \A s \in shown[w] : assigned'[s] = w
    BY <1>2 DEF DockPublish, Republished
  <2> QED
    BY <1>2, <2>1 DEF DockPublish, Idle
<1>3. CASE DockCheck(w)
  BY <1>3 DEF DockCheck
<1>4. CASE DockRefused(w)
  BY <1>4 DEF DockRefused
<1>5. CASE DockIntent(w)
  BY <1>5 DEF DockIntent
<1> QED
  BY <1>1, <1>2, <1>3, <1>4, <1>5 DEF DockSteps

LEMMA LocalRest ==
  ASSUME TypeOK, IInv, NEW w \in Windows
  PROVE  /\ Destroyed(w) => Local(w)
         /\ \A s \in Workspaces : CloseWorkspace(w, s) => Local(w)
         /\ ChildDrains(w) \/ ChildHydrated(w) => Local(w)
         /\ MainLoaded => Local(Main)
<1> USE DEF Local, claim, Sent, OnScreen, Released, Gone, TypeOK, IInv, AbsentIsFresh,
            DockIsQuiet, registry, fileVars
<1>1. ASSUME Destroyed(w) PROVE Local(w)
  <2>1. \A s \in Workspaces : assigned'[s] = assigned[s] \/ assigned'[s] = Nobody
    BY <1>1 DEF Destroyed, Forgotten
  <2> QED
    BY <1>1, <2>1 DEF Destroyed, WindowEnds
<1>2. ASSUME NEW s \in Workspaces, CloseWorkspace(w, s) PROVE Local(w)
  BY <1>2 DEF CloseWorkspace
<1>3. ASSUME ChildDrains(w) PROVE Local(w)
  BY <1>3 DEF ChildDrains
<1>4. ASSUME ChildHydrated(w) PROVE Local(w)
  BY <1>4 DEF ChildHydrated
<1>5. ASSUME MainLoaded PROVE Local(Main)
  BY <1>5, WindowsAssumption DEF MainLoaded
<1> QED
  BY <1>1, <1>2, <1>3, <1>4, <1>5

LEMMA InboxStaysNew ==
  ASSUME TypeOK, IInv, NEW w \in Windows
  PROVE  /\ Adopting(w) \/ Publishing(w) \/ CloseSteps(w) \/ Destroyed(w) => NewInbox(w)
         /\ DockSteps(w) => DockRelease(w) \/ NewInbox(w)
         /\ \A s \in Workspaces : CloseWorkspace(w, s) => NewInbox(w)
         /\ ChildDrains(w) \/ ChildHydrated(w) => NewInbox(w)
         /\ MainLoaded => NewInbox(Main)
<1> USE DEF NewInbox, OnScreen, Released, Live, Gone, registry, fileVars, TypeOK, IInv, InboxIsNew
<1>1. Adopting(w) => NewInbox(w)
  BY DEF Adopting, Drain, DrainSkipped, Adopt, AdoptSkipped
<1>2. Publishing(w) => NewInbox(w)
  BY DEF Publishing, Publish, PublishSkipped, Published
<1>3. CloseSteps(w) => NewInbox(w)
  <2>1. CloseStart(w) => NewInbox(w)
    BY DEF CloseStart
  <2>2. CloseIntent(w) => NewInbox(w)
    BY DEF CloseIntent
  <2>3. CloseDrain(w) => NewInbox(w)
    <3>1. SUFFICES ASSUME CloseDrain(w) PROVE NewInbox(w)
      OBVIOUS
    <3>2. CASE shown' = [shown EXCEPT ![w] = @ \cup queue[w]]
      BY <3>1, <3>2 DEF CloseDrain
    <3>3. CASE shown' = shown
      BY <3>1, <3>3 DEF CloseDrain
    <3> QED
      BY <3>1, <3>2, <3>3 DEF CloseDrain
  <2>4. CloseKill(w) \/ CloseKillFails(w) => NewInbox(w)
    BY DEF CloseKill, CloseKillFails
  <2> QED
    BY <2>1, <2>2, <2>3, <2>4 DEF CloseSteps
<1>4. Destroyed(w) => NewInbox(w)
  BY DEF Destroyed, WindowEnds
<1>5. DockSteps(w) => DockRelease(w) \/ NewInbox(w)
  <2>1. (\E to \in Windows : DockStart(w, to)) => NewInbox(w)
    BY DEF DockStart
  <2>2. DockPublish(w) \/ DockCheck(w) => NewInbox(w)
    BY DEF DockPublish, DockCheck
  <2>3. DockRefused(w) \/ DockIntent(w) => NewInbox(w)
    BY DEF DockRefused, DockIntent
  <2> QED
    BY <2>1, <2>2, <2>3 DEF DockSteps
<1>6. ASSUME NEW s \in Workspaces, CloseWorkspace(w, s) PROVE NewInbox(w)
  BY <1>6 DEF CloseWorkspace
<1>7. ChildDrains(w) \/ ChildHydrated(w) => NewInbox(w)
  BY DEF ChildDrains, ChildHydrated
<1>8. MainLoaded => NewInbox(Main)
  OBVIOUS
<1> QED
  BY <1>1, <1>2, <1>3, <1>4, <1>5, <1>6, <1>7, <1>8

\* The file, the leader and what is pending say nothing about custody.
LEMMA ElsewhereKeepsIInv ==
  ASSUME IInv, UNCHANGED <<fragment, queue, assigned, closing, phase, shown, got, pub, target>>
  PROVE  IInv'
  BY DEF IInv, Custody, AbsentIsFresh, DockIsQuiet, MainIsOpened, Routed, InboxIsNew, Live, claim, Sent,
         OnScreen, Released, Group

-----------------------------------------------------------------------------
(* The steps that hand a claim on.                                           *)

\* A window that was opened gains what nobody else claims from now on.
HandsOn(to, set) ==
  /\ to \in Windows /\ phase'[to] # "absent" /\ set \subseteq Workspaces
  /\ Live' \subseteq Live
  /\ \A x \in Live' \ {to} : claim'[x] \subseteq claim[x] \ set
  /\ to \in Live' => claim'[to] \subseteq claim[to] \cup set
  /\ \A x \in Windows : phase'[x] = "absent" =>
       /\ phase[x] = "absent" /\ Group(x) \cap set = {}
       /\ claim'[x] = {} /\ ~ pub'[x].on /\ x \notin closing'
  /\ \A s \in Workspaces :
       IF s \in set THEN assigned'[s] = to ELSE assigned'[s] = assigned[s] \/ assigned'[s] = Nobody
  /\ \A x \in Live' : fragment'[x] \subseteq fragment[x] /\ (x # to => fragment'[x] \cap set = {})

LEMMA HandingOnKeepsCustody ==
  ASSUME TypeOK, TypeOK', IInv, NEW to, NEW set, HandsOn(to, set)
  PROVE  Custody' /\ AbsentIsFresh' /\ MainIsOpened' /\ Routed'
<1> USE DEF IInv
<1>1. Custody'
  <2> SUFFICES ASSUME NEW x \in Live', NEW y \in Live', x # y PROVE claim'[x] \cap claim'[y] = {}
    BY DEF Custody
  <2> QED
    BY DEF Custody, HandsOn
<1>2. AbsentIsFresh'
  <2> SUFFICES ASSUME NEW x \in Windows, phase'[x] = "absent"
               PROVE /\ claim'[x] = {} /\ ~ pub'[x].on /\ x \notin closing'
                     /\ \A y \in Live' : Group(x) \cap claim'[y] = {}
                     /\ \A s \in Workspaces : assigned'[s] # x
    BY DEF AbsentIsFresh, Group
  <2> QED
    BY WindowsAssumption DEF AbsentIsFresh, HandsOn
<1>3. MainIsOpened'
  BY WindowsAssumption DEF MainIsOpened, HandsOn
<1>4. Routed'
  <2> SUFFICES ASSUME NEW x \in Live', NEW s \in fragment'[x]
               PROVE assigned'[s] = x \/ assigned'[s] \notin Live'
    BY DEF Routed
  <2>1. s \in fragment[x] /\ x \in Live /\ x \in Windows /\ s \in Workspaces
    BY DEF HandsOn, Live, TypeOK
  <2>2. assigned[s] = x \/ assigned[s] \notin Live
    BY <2>1 DEF Routed
  <2>3. s \in set => assigned'[s] = to /\ x = to
    BY <2>1 DEF HandsOn
  <2>4. s \notin set => assigned'[s] = assigned[s] \/ assigned'[s] = Nobody
    BY <2>1 DEF HandsOn
  <2>5. Live' \subseteq Live /\ Nobody \notin Live
    BY WindowsAssumption DEF HandsOn, Live
  <2> QED
    BY <2>2, <2>3, <2>4, <2>5
<1> QED
  BY <1>1, <1>2, <1>3, <1>4

LEMMA SavedFailureKeepsIInv ==
  ASSUME TypeOK, TypeOK', IInv, NEW w \in Windows, OpenSavedFails(w) PROVE IInv'
<1> USE DEF IInv
<1>1. /\ Main \in Live' /\ Main # w /\ w \notin Live' /\ Live' \subseteq Live
      /\ \A x \in Windows : phase'[x] = "absent" => x # Main /\ phase[x] = "absent" /\ x # w
      /\ Group(w) \subseteq Workspaces
  BY WindowsAssumption DEF OpenSavedFails, TypeOK, Live, Gone, Group
<1>2. /\ \A x \in Windows \ {Main} : claim'[x] = claim[x]
      /\ claim'[Main] \subseteq claim[Main] \cup Group(w)
  BY <1>1, WindowsAssumption
     DEF OpenSavedFails, TypeOK, claim, Sent, OnScreen, Released, Queued, Live
<1>3. HandsOn(Main, Group(w))
  <2>1. \A x \in Live' \ {Main} : claim'[x] \subseteq claim[x] \ Group(w)
    BY <1>1, <1>2 DEF AbsentIsFresh, OpenSavedFails, Live
  <2>2. \A x \in Windows : phase'[x] = "absent" =>
          /\ Group(x) \cap Group(w) = {}
          /\ claim'[x] = {} /\ ~ pub'[x].on /\ x \notin closing'
    BY <1>1, <1>2 DEF AbsentIsFresh, OpenSavedFails, Group
  <2>3. \A s \in Workspaces : IF s \in Group(w) THEN assigned'[s] = Main ELSE assigned'[s] = assigned[s]
    BY DEF OpenSavedFails, Assigned
  <2>4. \A x \in Live' : x # Main => fragment'[x] \cap Group(w) = {}
    BY <1>1, <2>1 DEF claim, OpenSavedFails, Live
  <2> QED
    BY <1>1, <1>2, <2>1, <2>2, <2>3, <2>4, WindowsAssumption DEF HandsOn, OpenSavedFails, MainIsOpened
<1>4. DockIsQuiet'
  BY DEF DockIsQuiet, OpenSavedFails, TypeOK
<1>5. InboxIsNew'
  BY <1>1 DEF InboxIsNew, OpenSavedFails, Queued, OnScreen, Released, TypeOK, Live
<1> QED
  BY <1>3, <1>4, <1>5, HandingOnKeepsCustody

LEMMA SavedOpenKeepsIInv ==
  ASSUME TypeOK, TypeOK', IInv, NEW w \in Windows, OpenSaved(w) PROVE IInv'
<1> USE DEF IInv
<1>1. /\ w \notin Live /\ Live' = Live \cup {w} /\ Group(w) \subseteq Workspaces
      /\ \A x \in Windows : phase'[x] = "absent" => x # Main /\ phase[x] = "absent" /\ x # w
      /\ \A s \in Workspaces : assigned[s] # w
  BY WindowsAssumption DEF OpenSaved, TypeOK, Live, Gone, Group, AbsentIsFresh
<1>2. /\ \A x \in Windows \ {w} : claim'[x] = claim[x]
      /\ claim'[w] = Group(w) /\ fragment'[w] = {} /\ got'[w] = {}
  <2>1. /\ queue[w] = {} /\ got[w] = {} /\ fragment[w] = {} /\ OnScreen(w) = {} /\ Sent(w) = {}
    BY DEF OpenSaved, TypeOK, claim, AbsentIsFresh
  <2>2. /\ \A x \in Windows : OnScreen(x)' = OnScreen(x) /\ Sent(x)' = Sent(x)
        /\ \A x \in Windows : queue'[x] = IF x = w THEN queue[x] \cup Group(w) ELSE queue[x]
    BY DEF OpenSaved, TypeOK, Sent, OnScreen, Released, Queued
  <2> QED
    BY <2>1, <2>2 DEF OpenSaved, claim
<1>3. Custody'
  BY <1>1, <1>2 DEF Custody, AbsentIsFresh, OpenSaved, Live
<1>4. AbsentIsFresh'
  <2> SUFFICES ASSUME NEW x \in Windows, phase'[x] = "absent"
               PROVE /\ claim'[x] = {} /\ ~ pub'[x].on /\ x \notin closing'
                     /\ \A y \in Live' : Group(x) \cap claim'[y] = {}
                     /\ \A s \in Workspaces : assigned'[s] # x
    BY DEF AbsentIsFresh, Group
  <2>1. Group(x) \cap Group(w) = {}
    BY <1>1 DEF Group
  <2>2. \A y \in Live' : Group(x) \cap claim'[y] = {}
    BY <1>1, <1>2, <2>1 DEF AbsentIsFresh, Live
  <2> QED
    BY <1>1, <1>2, <2>2 DEF AbsentIsFresh, OpenSaved, Assigned
<1>5. DockIsQuiet'
  BY DEF DockIsQuiet, OpenSaved, TypeOK
<1>6. MainIsOpened'
  BY <1>1, WindowsAssumption DEF MainIsOpened
<1>7. Routed'
  <2> SUFFICES ASSUME NEW x \in Live', NEW s \in fragment'[x]
               PROVE assigned'[s] = x \/ assigned'[s] \notin Live'
    BY DEF Routed
  <2>1. x \in Live /\ x # w /\ s \in fragment[x] /\ s \in claim[x] /\ s \in Workspaces
    BY <1>1, <1>2 DEF OpenSaved, claim, Live, TypeOK
  <2>2. s \notin Group(w)
    BY <2>1 DEF AbsentIsFresh, OpenSaved
  <2> QED
    BY <1>1, <2>1, <2>2 DEF Routed, OpenSaved, Assigned
<1>8. InboxIsNew'
  BY <1>1, <1>2 DEF InboxIsNew, OpenSaved, Queued, OnScreen, Released, TypeOK, Live, AbsentIsFresh,
     claim
<1> QED
  BY <1>3, <1>4, <1>5, <1>6, <1>7, <1>8

LEMMA ReleaseKeepsIInv ==
  ASSUME TypeOK, TypeOK', IInv, NEW w \in Windows, DockRelease(w) PROVE IInv'
<1> DEFINE to == target[w]
           moved == fragment[w] \cap shown[w]
<1> USE DEF IInv
<1>1. /\ to \in Windows /\ to # w /\ phase[to] # "absent" /\ w # Main /\ ~ pub[w].on
      /\ w \in Live /\ w \in Live' /\ Live' = Live /\ moved \subseteq Workspaces
      /\ \A x \in Windows : phase'[x] = "absent" <=> phase[x] = "absent"
  BY DEF DockIsQuiet, DockRelease, TypeOK, Live, Gone
<1>2. moved \subseteq claim[w] /\ \A x \in Live \ {w} : moved \cap claim[x] = {}
  BY <1>1 DEF claim, Custody
<1>3. /\ \A x \in Windows \ {w, to} : claim'[x] = claim[x]
      /\ claim'[to] \subseteq claim[to] \cup moved
  BY <1>1 DEF DockRelease, TypeOK, claim, Sent, OnScreen, Released, Queued
<1>4. claim'[w] \subseteq claim[w] \ moved
  BY <1>1 DEF DockRelease, TypeOK, claim, Sent, OnScreen, Released, Queued, InboxIsNew
<1>5. \A s \in Workspaces : IF s \in moved THEN assigned'[s] = to ELSE assigned'[s] = assigned[s]
  BY DEF DockRelease, Assigned
<1>6. \A x \in Live' : /\ fragment'[x] \subseteq fragment[x]
                       /\ x # to => fragment'[x] \cap moved = {}
  BY <1>1, <1>2 DEF DockRelease, TypeOK, claim, Live
<1>7. \A x \in Windows : phase'[x] = "absent" =>
        /\ phase[x] = "absent" /\ Group(x) \cap moved = {}
        /\ claim'[x] = {} /\ ~ pub'[x].on /\ x \notin closing'
  BY <1>1, <1>2, <1>3 DEF AbsentIsFresh, DockRelease
<1>8. HandsOn(to, moved)
  <2> HIDE DEF moved, to
  <2>1. \A x \in Live' \ {to} : claim'[x] \subseteq claim[x] \ moved
    BY <1>1, <1>2, <1>3, <1>4 DEF Live
  <2> QED
    BY <1>1, <1>3, <1>5, <1>6, <1>7, <2>1 DEF HandsOn
<1>9. DockIsQuiet'
  BY <1>1 DEF DockIsQuiet, DockRelease, TypeOK
<1>10. InboxIsNew'
  <2> SUFFICES ASSUME NEW x \in Live' \ {Main}
               PROVE  queue'[x] \cap got'[x] = {} /\ (queue'[x] \cup got'[x]) \cap OnScreen(x)' = {}
    BY DEF InboxIsNew
  <2>1. CASE x = to
    <3>1. queue'[x] = queue[x] \cup moved /\ got'[x] = got[x] /\ OnScreen(x)' = OnScreen(x)
      BY <1>1, <2>1 DEF DockRelease, Queued, OnScreen, Released, TypeOK
    <3>2. /\ moved \cap (got[x] \cup OnScreen(x)) = {} /\ queue[x] \cap got[x] = {}
          /\ (queue[x] \cup got[x]) \cap OnScreen(x) = {}
      BY <1>1, <1>2, <2>1 DEF InboxIsNew, claim, Live
    <3> QED
      BY <3>1, <3>2
  <2>2. CASE x # to
    BY <1>1, <2>2 DEF InboxIsNew, DockRelease, Queued, OnScreen, Released, TypeOK, Live
  <2> QED
    BY <2>1, <2>2
<1> QED
  BY <1>8, <1>9, <1>10, HandingOnKeepsCustody

LEMMA CrashKeepsIInv ==
  ASSUME TypeOK, TypeOK', IInv, NEW w \in Windows, Crash(w) PROVE IInv'
<1> USE DEF IInv
<1>1. PICK t \in RescueTargets(w) :
        LET handed == IF t = Nobody THEN {} ELSE LeftBy(w) IN
        /\ queue' = [x \in Windows |->
                       IF x = w THEN {} ELSE IF x = t THEN queue[x] \cup handed ELSE queue[x]]
        /\ assigned' = Forgotten(Assigned(assigned, t, handed), w)
        /\ told' = [x \in Windows |->
                      IF x = w THEN FALSE ELSE told[x] \/ (x = t /\ handed # {})]
  BY DEF Crash
<1>2. /\ w \in Live /\ Live' = Live \ {w} /\ phase'[w] = "gone"
      /\ \A x \in Windows : phase'[x] = "absent" => phase[x] = "absent" /\ x # w
      /\ LeftBy(w) \subseteq Workspaces /\ LeftBy(w) \subseteq claim[w]
  BY DEF Crash, WindowEnds, TypeOK, Live, Gone, LeftBy, claim
<1>3. CASE t = Nobody
  <2>1. queue' = [queue EXCEPT ![w] = {}]
    BY <1>1, <1>3, WindowsAssumption DEF TypeOK
  <2>2. \A s \in Workspaces : assigned'[s] = assigned[s] \/ assigned'[s] = Nobody
    BY <1>1, <1>3 DEF Assigned, Forgotten
  <2>3. Local(w)
    BY <1>2, <2>1, <2>2 DEF Crash, WindowEnds, Local, Live, Gone, TypeOK
  <2>4. NewInbox(w)
    BY <1>2 DEF NewInbox
  <2> QED
    BY <2>3, <2>4, LocalKeepsIInv
<1>4. CASE t # Nobody
  <2>1. t \in Live' /\ t \in Windows /\ t # w
    BY <1>1, <1>2, <1>4, RescueTargetsType DEF Live
  <2>2. queue' = [x \in Windows |->
          IF x = w THEN {} ELSE IF x = t THEN queue[x] \cup LeftBy(w) ELSE queue[x]]
    BY <1>1, <1>4
  <2>3. \A s \in Workspaces :
          IF s \in LeftBy(w) THEN assigned'[s] = t
          ELSE assigned'[s] = assigned[s] \/ assigned'[s] = Nobody
    BY <1>1, <1>4, <2>1 DEF Assigned, Forgotten
  <2>4. \A x \in Live' : LeftBy(w) \cap claim[x] = {}
    BY <1>2 DEF Custody
  <2>5. /\ \A x \in Windows \ {w, t} : claim'[x] = claim[x]
        /\ claim'[t] \subseteq claim[t] \cup LeftBy(w)
    BY <2>1, <2>2 DEF Crash, WindowEnds, TypeOK, claim, Sent, OnScreen, Released
  <2>6. \A x \in Windows : phase'[x] = "absent" =>
          /\ phase[x] = "absent" /\ Group(x) \cap LeftBy(w) = {}
          /\ claim'[x] = {} /\ ~ pub'[x].on /\ x \notin closing'
    BY <1>2, <2>1, <2>5 DEF AbsentIsFresh, Crash, WindowEnds, Live, Gone
  <2>7. \A x \in Live' : fragment'[x] = fragment[x] /\ fragment[x] \subseteq claim[x]
    BY <1>2 DEF Crash, TypeOK, claim, Live
  <2>8. HandsOn(t, LeftBy(w))
    BY <1>2, <2>1, <2>3, <2>4, <2>5, <2>6, <2>7 DEF HandsOn, Live, Gone
  <2>9. DockIsQuiet'
    BY <1>2 DEF DockIsQuiet, Crash, WindowEnds, TypeOK
  <2>10. InboxIsNew'
    <3> SUFFICES ASSUME NEW x \in Live' \ {Main}
                 PROVE  queue'[x] \cap got'[x] = {} /\ (queue'[x] \cup got'[x]) \cap OnScreen(x)' = {}
      BY DEF InboxIsNew
    <3>1. CASE x = t
      <4>1. /\ queue'[x] = queue[x] \cup LeftBy(w) /\ got'[x] = got[x]
            /\ OnScreen(x)' = OnScreen(x)
        BY <2>1, <2>2, <3>1 DEF Crash, WindowEnds, OnScreen, Released, TypeOK
      <4>2. /\ LeftBy(w) \cap (got[x] \cup OnScreen(x)) = {} /\ queue[x] \cap got[x] = {}
            /\ (queue[x] \cup got[x]) \cap OnScreen(x) = {}
        BY <1>2, <2>1, <2>4, <3>1 DEF InboxIsNew, claim, Live
      <4> QED
        BY <4>1, <4>2
    <3>2. CASE x # t
      BY <1>2, <2>2, <3>2 DEF InboxIsNew, Crash, WindowEnds, OnScreen, Released, TypeOK, Live
    <3> QED
      BY <3>1, <3>2
  <2> QED
    BY <2>8, <2>9, <2>10, HandingOnKeepsCustody
<1> QED
  BY <1>3, <1>4

-----------------------------------------------------------------------------
LEMMA InitIInv == Init => IInv
  BY WindowsAssumption
     DEF Init, IInv, Custody, AbsentIsFresh, DockIsQuiet, MainIsOpened, Routed, InboxIsNew, claim,
         Sent, OnScreen, Released, Live, Gone, Group, Idle

LEMMA StepKeepsIInv == TypeOK /\ TypeOK' /\ IInv /\ [Next]_vars => IInv'
<1> SUFFICES ASSUME TypeOK, TypeOK', IInv, [Next]_vars PROVE IInv'
  OBVIOUS
<1>1. CASE MainLoaded
  BY <1>1, WindowsAssumption, LocalRest, InboxStaysNew, LocalKeepsIInv
<1>2. ASSUME NEW w \in Windows,
             OpenSaved(w) \/ OpenSavedFails(w) \/ ChildDrains(w) \/ ChildHydrated(w)
      PROVE IInv'
  BY <1>2, SavedOpenKeepsIInv, SavedFailureKeepsIInv, LocalRest, InboxStaysNew, LocalKeepsIInv
<1>3. ASSUME NEW w \in Windows, Adopting(w) \/ Publishing(w) \/ CloseSteps(w) \/ Destroyed(w)
      PROVE IInv'
  BY <1>3, LocalAdopting, LocalPublishing, LocalCloseSteps, LocalRest, InboxStaysNew, LocalKeepsIInv
<1>4. ASSUME NEW w \in Windows, DockSteps(w) PROVE IInv'
  BY <1>4, LocalDockSteps, ReleaseKeepsIInv, InboxStaysNew, LocalKeepsIInv
<1>5. ASSUME NEW w \in Windows, Crash(w) PROVE IInv'
  BY <1>5, CrashKeepsIInv
<1>6. ASSUME NEW w \in Windows, NEW s \in Workspaces, CloseWorkspace(w, s) PROVE IInv'
  BY <1>6, LocalRest, InboxStaysNew, LocalKeepsIInv
<1>7. ASSUME NEW w \in Windows, ClaimLeader(w) \/ Saving(w) PROVE IInv'
  BY <1>7, ElsewhereKeepsIInv
     DEF ClaimLeader, Saving, SaveRead, SaveBuild, SaveAbandoned, SaveLook, SaveWrite, registry, fileVars
<1>8. CASE UNCHANGED vars
  BY <1>8, ElsewhereKeepsIInv DEF vars
<1> QED
  BY <1>1, <1>2, <1>3, <1>4, <1>5, <1>6, <1>7, <1>8 DEF Next, Booting

LEMMA IInvImplies == TypeOK /\ IInv => HeldOnce /\ RoutedToHolder
<1> SUFFICES ASSUME TypeOK, IInv PROVE HeldOnce /\ RoutedToHolder
  OBVIOUS
<1>1. \A w \in Windows : Holds(w) \subseteq claim[w] /\ (w \notin Live => Holds(w) = {})
  BY DEF Holds, claim, OnScreen
<1>2. HeldOnce
  BY <1>1 DEF HeldOnce, IInv, Custody
<1>3. RoutedToHolder
  BY DEF RoutedToHolder, IInv, Routed, Live, Gone
<1> QED
  BY <1>2, <1>3

\* Whatever windows boot, dock, close, crash and are rescued, at any number of
\* windows and workspaces, no two windows have the same workspace.
THEOREM OneHolder == Spec => []HeldOnce
  BY TypeInit, TypeStep, InitIInv, StepKeepsIInv, IInvImplies, PTL DEF Spec

\* No command for a shown workspace is routed to another live window.
THEOREM RoutesToHolder == Spec => []RoutedToHolder
  BY TypeInit, TypeStep, InitIInv, StepKeepsIInv, IInvImplies, PTL DEF Spec

-----------------------------------------------------------------------------
(* Steps.                                                                    *)

\* What a window gives away it has published; before it drains it has nothing.
GivesPublished ==
  \A w \in Windows :
    /\ phase[w] \in {"release", "move"} => shown[w] \subseteq fragment[w]
    /\ w # Main /\ phase[w] \in {"absent", "boot"} => got[w] = {}

\* The sessions end only after the intent is recorded, and an intent ends with
\* its window.
IntentIsTold ==
  \A w \in Windows :
    /\ phase[w] \in {"drain", "kill", "destroy"} => w \in closing
    /\ w \in closing => phase[w] \notin Gone

StepInv == GivesPublished /\ IntentIsTold

-----------------------------------------------------------------------------
LEMMA InitStepInv == Init => StepInv
  BY WindowsAssumption DEF Init, StepInv, GivesPublished, IntentIsTold

\* A step that leaves these alone cannot disturb the invariant.
LEMMA StillStepInv ==
  StepInv /\ UNCHANGED <<phase, shown, fragment, got, closing>> => StepInv'
  BY DEF StepInv, GivesPublished, IntentIsTold

LEMMA StartKeepsStepInv ==
  ASSUME TypeOK, StepInv, NEW w \in Windows,
         MainLoaded \/ OpenSaved(w) \/ OpenSavedFails(w) \/ ChildDrains(w) \/ ChildHydrated(w)
  PROVE  StepInv'
<1> USE WindowsAssumption DEF TypeOK, StepInv, GivesPublished, IntentIsTold, registry, fileVars, Gone
<1>1. CASE MainLoaded
  BY <1>1 DEF MainLoaded
<1>2. CASE OpenSaved(w)
  BY <1>2 DEF OpenSaved
<1>3. CASE OpenSavedFails(w)
  BY <1>3 DEF OpenSavedFails
<1>4. CASE ChildDrains(w)
  BY <1>4 DEF ChildDrains
<1>5. CASE ChildHydrated(w)
  BY <1>5 DEF ChildHydrated
<1> QED
  BY <1>1, <1>2, <1>3, <1>4, <1>5

LEMMA OpenKeepsStepInv ==
  ASSUME TypeOK, IInv, StepInv, NEW w \in Windows,
         Adopting(w) \/ Publishing(w) \/ \E s \in Workspaces : CloseWorkspace(w, s)
  PROVE  StepInv'
<1> USE DEF TypeOK, StepInv, GivesPublished, IntentIsTold, registry, fileVars, Docking, Closing,
        WindowClosing
<1>1. CASE Drain(w)
  BY <1>1 DEF Drain
<1>2. CASE DrainSkipped(w)
  BY <1>2 DEF DrainSkipped
<1>3. CASE Adopt(w)
  BY <1>3 DEF Adopt
<1>4. CASE AdoptSkipped(w)
  BY <1>4 DEF AdoptSkipped
<1>5. CASE Publish(w)
  BY <1>5 DEF Publish
<1>6. CASE PublishSkipped(w)
  BY <1>6 DEF PublishSkipped
<1>7. CASE Published(w)
  <2>1. phase[w] \notin {"release", "move"}
    BY <1>7 DEF Published, IInv, DockIsQuiet
  <2> QED
    BY <1>7, <2>1 DEF Published
<1>8. ASSUME NEW s \in Workspaces, CloseWorkspace(w, s) PROVE StepInv'
  BY <1>8 DEF CloseWorkspace
<1> QED
  BY <1>1, <1>2, <1>3, <1>4, <1>5, <1>6, <1>7, <1>8 DEF Adopting, Publishing

LEMMA DockKeepsStepInv ==
  ASSUME TypeOK, StepInv, NEW w \in Windows, DockSteps(w)
  PROVE  StepInv'
<1> USE DEF TypeOK, StepInv, GivesPublished, IntentIsTold, registry, fileVars, Gone
<1>1. ASSUME NEW to \in Windows, DockStart(w, to) PROVE StepInv'
  BY <1>1 DEF DockStart
<1>2. CASE DockPublish(w)
  BY <1>2 DEF DockPublish
<1>3. CASE DockCheck(w)
  BY <1>3 DEF DockCheck
<1>4. CASE DockRelease(w)
  BY <1>4 DEF DockRelease
<1>5. CASE DockRefused(w)
  BY <1>5 DEF DockRefused
<1>6. CASE DockIntent(w)
  BY <1>6 DEF DockIntent
<1> QED
  BY <1>1, <1>2, <1>3, <1>4, <1>5, <1>6 DEF DockSteps

LEMMA CloseKeepsStepInv ==
  ASSUME TypeOK, StepInv, NEW w \in Windows, CloseSteps(w) \/ Destroyed(w) \/ Crash(w)
  PROVE  StepInv'
<1> USE DEF TypeOK, StepInv, GivesPublished, IntentIsTold, registry, fileVars, Gone, Live
<1>1. CASE CloseStart(w)
  BY <1>1 DEF CloseStart
<1>2. CASE CloseIntent(w)
  BY <1>2 DEF CloseIntent
<1>3. CASE CloseDrain(w)
  BY <1>3 DEF CloseDrain
<1>4. CASE CloseKill(w)
  BY <1>4 DEF CloseKill
<1>5. CASE CloseKillFails(w)
  BY <1>5 DEF CloseKillFails
<1>6. CASE Destroyed(w)
  BY <1>6 DEF Destroyed, WindowEnds
<1>7. CASE Crash(w)
  BY <1>7 DEF Crash, WindowEnds
<1> QED
  BY <1>1, <1>2, <1>3, <1>4, <1>5, <1>6, <1>7 DEF CloseSteps

LEMMA StepKeepsStepInv == TypeOK /\ IInv /\ StepInv /\ [Next]_vars => StepInv'
<1> SUFFICES ASSUME TypeOK, IInv, StepInv, [Next]_vars PROVE StepInv'
  OBVIOUS
<1>1. CASE Booting
  BY <1>1, WindowsAssumption, StartKeepsStepInv DEF Booting
<1>2. ASSUME NEW w \in Windows,
             \/ Adopting(w) \/ Publishing(w) \/ DockSteps(w) \/ CloseSteps(w)
             \/ Destroyed(w) \/ Crash(w)
             \/ \E s \in Workspaces : CloseWorkspace(w, s)
      PROVE StepInv'
  BY <1>2, OpenKeepsStepInv, DockKeepsStepInv, CloseKeepsStepInv
<1>3. ASSUME NEW w \in Windows, ClaimLeader(w) \/ Saving(w) PROVE StepInv'
  BY <1>3, StillStepInv
     DEF ClaimLeader, Saving, SaveRead, SaveBuild, SaveAbandoned, SaveLook, SaveWrite, registry, fileVars
<1>4. CASE UNCHANGED vars
  BY <1>4, StillStepInv DEF vars
<1> QED
  BY <1>1, <1>2, <1>3, <1>4 DEF Next

-----------------------------------------------------------------------------
(* What a step does to what the windows hold.                                *)

Neutral == \A x \in Windows : Holds(x)' = Holds(x)

\* What KeptUnlessClosed and ComesBackOnlyByRescue say of one step.
LossNamed ==
  \A s \in AllHeld \ AllHeld' : \E w \in Windows :
    \/ ClosedByUser(w, s) \/ DrainDropped(w, s)
    \/ EndedWith(w, s) \/ ReceiverVanished(w, s)
ReturnNamed ==
  \A s \in AllHeld' \ AllHeld :
    \/ phase[Main] = "boot"
    \/ \E w \in Windows :
         Ends(w) /\ phase[w] \notin {"kill", "destroy"} /\ s \in fragment[w]
Named == LossNamed /\ ReturnNamed

LEMMA HeldSomewhere ==
  /\ \A s : s \in AllHeld <=> \E x \in Windows : s \in Holds(x)
  /\ \A s : s \in AllHeld' <=> \E x \in Windows : s \in Holds(x)'
  BY DEF AllHeld

LEMMA NeutralIsNamed == Neutral => Named
  BY HeldSomewhere DEF Neutral, Named, LossNamed, ReturnNamed

\* When one window holds less than before, only that can be lost.
LEMMA OneHoldsLess ==
  ASSUME NEW w \in Windows, Holds(w)' \subseteq Holds(w),
         \A x \in Windows \ {w} : Holds(x)' = Holds(x)
  PROVE  ReturnNamed /\ \A s \in AllHeld \ AllHeld' : s \in Holds(w) \ Holds(w)'
<1>1. ASSUME NEW s \in AllHeld \ AllHeld' PROVE s \in Holds(w) \ Holds(w)'
  <2>1. PICK x \in Windows : s \in Holds(x)
    BY HeldSomewhere
  <2>2. s \notin Holds(x)'
    BY HeldSomewhere
  <2> QED
    BY <2>1, <2>2
<1>2. AllHeld' \subseteq AllHeld
  <2> SUFFICES ASSUME NEW s, s \in AllHeld' PROVE s \in AllHeld
    OBVIOUS
  <2>1. PICK x \in Windows : s \in Holds(x)'
    BY HeldSomewhere
  <2>2. s \in Holds(x)
    BY <2>1
  <2> QED
    BY <2>2, HeldSomewhere
<1> QED
  BY <1>1, <1>2 DEF ReturnNamed

\* All that a workspace being held depends on.
LEMMA StillIsNeutral == UNCHANGED <<phase, shown, got, queue>> => Neutral
  BY DEF Neutral, Holds, Live, Released

LEMMA StartIsNamed ==
  ASSUME TypeOK, StepInv, NEW w \in Windows,
         MainLoaded \/ OpenSaved(w) \/ OpenSavedFails(w) \/ ChildDrains(w) \/ ChildHydrated(w)
  PROVE  Named
<1> USE WindowsAssumption DEF TypeOK, registry, fileVars, Holds, Live, Gone, Released
<1>1. CASE MainLoaded
  BY <1>1, NeutralIsNamed DEF MainLoaded, Neutral
<1>2. CASE OpenSaved(w) \/ OpenSavedFails(w)
  <2>1. ASSUME NEW x \in Windows PROVE Holds(x) \subseteq Holds(x)'
    <3>1. queue[x] \subseteq queue'[x] /\ got'[x] = got[x] /\ shown[x] \subseteq shown'[x]
      <4>1. CASE OpenSaved(w)
        BY <4>1 DEF OpenSaved, Queued
      <4>2. CASE OpenSavedFails(w)
        BY <4>2 DEF OpenSavedFails, Queued
      <4> QED
        BY <1>2, <4>1, <4>2
    <3>2. phase'[x] = phase[x] \/ phase[x] = "absent"
      BY <1>2 DEF OpenSaved, OpenSavedFails
    <3> QED
      BY <3>1, <3>2
  <2>2. phase[Main] = "boot"
    BY <1>2 DEF OpenSaved, OpenSavedFails
  <2> HIDE DEF Holds
  <2> QED
    BY <2>1, <2>2, HeldSomewhere DEF Named, LossNamed, ReturnNamed
<1>3. CASE ChildDrains(w)
  BY <1>3, NeutralIsNamed DEF ChildDrains, Neutral, StepInv, GivesPublished
<1>4. CASE ChildHydrated(w)
  BY <1>4, NeutralIsNamed DEF ChildHydrated, Neutral
<1> QED
  BY <1>1, <1>2, <1>3, <1>4

LEMMA OpenIsNamed ==
  ASSUME TypeOK, NEW w \in Windows,
         Adopting(w) \/ Publishing(w) \/ \E s \in Workspaces : CloseWorkspace(w, s)
  PROVE  Named
<1> USE DEF TypeOK, registry, fileVars, Holds, Live, Gone, Released
<1>1. CASE Drain(w)
  BY <1>1, NeutralIsNamed DEF Drain, Neutral
<1>2. CASE DrainSkipped(w) \/ Publish(w) \/ PublishSkipped(w) \/ Published(w)
  BY <1>2, StillIsNeutral, NeutralIsNamed DEF DrainSkipped, Publish, PublishSkipped, Published
<1>3. CASE Adopt(w)
  BY <1>3, NeutralIsNamed DEF Adopt, Neutral
<1>4. CASE AdoptSkipped(w)
  <2>1. /\ \A x \in Windows \ {w} : Holds(x)' = Holds(x)
        /\ Holds(w)' \subseteq Holds(w) /\ Holds(w) \ Holds(w)' \subseteq got[w]
    BY <1>4 DEF AdoptSkipped
  <2>2. WindowClosing(w)
    BY <1>4 DEF AdoptSkipped
  <2> HIDE DEF Holds
  <2> QED
    BY <2>1, <2>2, OneHoldsLess DEF Named, LossNamed, DrainDropped
<1>5. ASSUME NEW s \in Workspaces, CloseWorkspace(w, s) PROVE Named
  <2>1. /\ \A x \in Windows \ {w} : Holds(x)' = Holds(x)
        /\ Holds(w)' \subseteq Holds(w) /\ Holds(w) \ Holds(w)' \subseteq {s}
    BY <1>5 DEF CloseWorkspace
  <2>2. ClosedByUser(w, s)
    BY <1>5 DEF CloseWorkspace, ClosedByUser
  <2> HIDE DEF Holds
  <2> QED
    BY <2>1, <2>2, OneHoldsLess DEF Named, LossNamed
<1> QED
  BY <1>1, <1>2, <1>3, <1>4, <1>5 DEF Adopting, Publishing

\* What a docking window gives away waits for the receiver, if it lives.
LEMMA ReleaseIsNamed ==
  ASSUME TypeOK, IInv, StepInv, NEW w \in Windows, DockRelease(w)
  PROVE  Named
<1>0. PICK to \in Windows : to = target[w] /\ to # w
  BY DEF DockRelease, IInv, DockIsQuiet
<1> USE DEF TypeOK, Holds, Live, Gone, Released
<1>1. to \in Windows \ {w} /\ fragment[w] \cap shown[w] = shown[w]
  BY <1>0 DEF DockRelease, StepInv, GivesPublished
<1>2. queue' = [queue EXCEPT ![to] = @ \cup shown[w]]
  BY <1>0, <1>1 DEF DockRelease, Queued
<1>3. /\ phase[w] = "move" /\ phase' = [phase EXCEPT ![w] = "intent"]
      /\ shown' = shown /\ got' = got
  BY DEF DockRelease
<1>4. \A x \in Windows \ {w, to} : Holds(x)' = Holds(x)
  BY <1>1, <1>2, <1>3
<1>5. Holds(w) = queue[w] \cup got[w] \cup shown[w] /\ Holds(w)' = queue[w] \cup got[w]
  BY <1>1, <1>2, <1>3
<1>7. CASE to \notin Live
  <2>1. Holds(to)' = Holds(to)
    BY <1>1, <1>3, <1>7
  <2>2. \A s \in shown[w] : ReceiverVanished(w, s)
    BY <1>0, <1>3, <1>7 DEF ReceiverVanished
  <2> HIDE DEF Holds, Live
  <2>3. \A x \in Windows \ {w} : Holds(x)' = Holds(x)
    BY <1>4, <2>1
  <2>4. Holds(w)' \subseteq Holds(w) /\ Holds(w) \ Holds(w)' \subseteq shown[w]
    BY <1>5
  <2> QED
    BY <2>2, <2>3, <2>4, OneHoldsLess DEF Named, LossNamed
<1>8. CASE to \in Live
  <2>1. Holds(to)' = Holds(to) \cup shown[w]
    <3>1. phase'[to] = phase[to] /\ queue'[to] = queue[to] \cup shown[w]
      BY <1>1, <1>2, <1>3
    <3>2. phase[to] \notin Gone
      BY <1>8
    <3> QED
      BY <1>1, <1>3, <3>1, <3>2
  <2> HIDE DEF Holds, Live
  <2>2. ASSUME NEW s, s \in AllHeld PROVE s \in AllHeld'
    <3>1. PICK x \in Windows : s \in Holds(x)
      BY <2>2, HeldSomewhere
    <3>2. CASE x \in {w, to}
      <4>1. s \in Holds(w)' \/ s \in Holds(to)'
        BY <1>5, <2>1, <3>1, <3>2
      <4> QED
        BY <1>1, <4>1, HeldSomewhere
    <3>3. CASE x \notin {w, to}
      BY <1>4, <3>1, <3>3, HeldSomewhere
    <3> QED
      BY <3>2, <3>3
  <2>3. ASSUME NEW s, s \in AllHeld' PROVE s \in AllHeld
    <3>1. PICK x \in Windows : s \in Holds(x)'
      BY <2>3, HeldSomewhere
    <3>2. CASE x \in {w, to}
      <4>1. s \in Holds(w) \/ s \in Holds(to)
        BY <1>5, <2>1, <3>1, <3>2
      <4> QED
        BY <1>1, <4>1, HeldSomewhere
    <3>3. CASE x \notin {w, to}
      BY <1>4, <3>1, <3>3, HeldSomewhere
    <3> QED
      BY <3>2, <3>3
  <2> QED
    BY <2>2, <2>3 DEF Named, LossNamed, ReturnNamed
<1> QED
  BY <1>7, <1>8

LEMMA DockIsNamed ==
  ASSUME TypeOK, IInv, StepInv, NEW w \in Windows, DockSteps(w)
  PROVE  Named
<1>1. CASE DockRelease(w)
  BY <1>1, ReleaseIsNamed
<1>2. ASSUME ~ DockRelease(w) PROVE Neutral
  <2>1. /\ UNCHANGED <<queue, got, shown>>
        /\ phase[w] \notin Gone /\ phase'[w] \notin Gone
        /\ Released(w)' = Released(w)
        /\ \A x \in Windows \ {w} : phase'[x] = phase[x]
    BY <1>2 DEF DockSteps, DockStart, DockPublish, DockCheck, DockRefused, DockIntent,
                registry, fileVars, Released, Gone, TypeOK
  <2> QED
    BY <2>1 DEF Neutral, Holds, Live, Released
<1> QED
  BY <1>1, <1>2, NeutralIsNamed

LEMMA CloseIsNamed ==
  ASSUME TypeOK, StepInv, NEW w \in Windows, CloseSteps(w)
  PROVE  Named
<1> USE DEF TypeOK, registry, fileVars, Holds, Live, Gone, Released
<1>1. CASE CloseStart(w) \/ CloseIntent(w) \/ CloseKillFails(w)
  <2>1. /\ UNCHANGED <<queue, got, shown>>
        /\ \A x \in Windows : phase'[x] = phase[x] \/ (x = w /\
             {phase[x], phase'[x]} \cap {"absent", "gone", "intent", "depart"} = {})
    BY <1>1 DEF CloseStart, CloseIntent, CloseKillFails
  <2> QED
    BY <2>1, NeutralIsNamed DEF Neutral
<1>2. CASE CloseDrain(w)
  <2>1. /\ \A x \in Windows \ {w} : Holds(x)' = Holds(x)
        /\ Holds(w)' \subseteq Holds(w) /\ Holds(w) \ Holds(w)' \subseteq queue[w]
    BY <1>2 DEF CloseDrain
  <2>2. phase[w] = "drain" /\ phase'[w] = "kill"
    BY <1>2 DEF CloseDrain
  <2> HIDE DEF Holds
  <2> QED
    BY <2>1, <2>2, OneHoldsLess DEF Named, LossNamed, DrainDropped
<1>3. CASE CloseKill(w)
  <2>1. /\ \A x \in Windows \ {w} : Holds(x)' = Holds(x)
        /\ Holds(w)' \subseteq Holds(w) /\ Holds(w) \ Holds(w)' \subseteq shown[w]
    BY <1>3 DEF CloseKill
  <2>2. phase[w] = "kill" /\ phase'[w] = "destroy"
    BY <1>3 DEF CloseKill
  <2> HIDE DEF Holds
  <2> QED
    BY <2>1, <2>2, OneHoldsLess DEF Named, LossNamed, ClosedByUser
<1> QED
  BY <1>1, <1>2, <1>3 DEF CloseSteps

LEMMA DestroyedIsNamed ==
  ASSUME TypeOK, StepInv, NEW w \in Windows, Destroyed(w)
  PROVE  Named
<1> USE DEF TypeOK, Holds, Live, Gone, Released
<1>1. /\ \A x \in Windows \ {w} : Holds(x)' = Holds(x)
      /\ Holds(w)' = {}
  BY DEF Destroyed, WindowEnds
<1>2. Ends(w) /\ w \in closing
  BY DEF Destroyed, WindowEnds, Ends, StepInv, IntentIsTold
<1> HIDE DEF Holds
<1> QED
  BY <1>1, <1>2, OneHoldsLess DEF Named, LossNamed, EndedWith

\* The rescue hands on what was published or queued, and nothing else.
LEMMA CrashIsNamed ==
  ASSUME TypeOK, StepInv, NEW w \in Windows, Crash(w)
  PROVE  Named
<1> USE DEF TypeOK, Holds, Live, Gone, Released
<1>1. PICK t \in RescueTargets(w) :
        queue' = [x \in Windows |->
                    IF x = w THEN {}
                    ELSE IF x = t THEN queue[x] \cup (IF t = Nobody THEN {} ELSE LeftBy(w))
                    ELSE queue[x]]
  BY DEF Crash
<1>2. t = Nobody => Rescuers(w) = {}
  BY WindowsAssumption DEF RescueTargets, Rescuers
<1>3. t # Nobody => t \in Live \ {w}
  BY RescueTargetsType
<1>4. Ends(w) /\ phase[w] \notin {"kill", "destroy"}
  BY DEF Crash, WindowEnds, Ends, StepInv, IntentIsTold
<1>5. \A x \in Windows \ {w, t} : Holds(x)' = Holds(x)
  BY <1>1 DEF Crash, WindowEnds
<1>6. Holds(w)' = {}
  BY DEF Crash, WindowEnds
<1>7. t # Nobody => Holds(t)' = Holds(t) \cup LeftBy(w)
  BY <1>1, <1>3 DEF Crash, WindowEnds
<1>8. queue[w] \subseteq Holds(w)
  BY DEF Crash
<1>9. LossNamed
  <2> SUFFICES ASSUME NEW s \in AllHeld \ AllHeld' PROVE EndedWith(w, s)
    BY DEF LossNamed
  <2>1. t = Nobody \/ s \notin LeftBy(w)
    BY <1>3, <1>7, HeldSomewhere
  <2> QED
    BY <1>2, <1>4, <2>1 DEF EndedWith, LeftBy
<1>10. ReturnNamed
  <2> SUFFICES ASSUME NEW s \in AllHeld' \ AllHeld PROVE s \in fragment[w]
    BY <1>4 DEF ReturnNamed
  <2>1. t # Nobody /\ s \in LeftBy(w)
    <3>1. PICK x \in Windows : s \in Holds(x)'
      BY HeldSomewhere
    <3>2. s \notin Holds(x)
      BY HeldSomewhere
    <3>3. x = t /\ t # Nobody
      BY <1>5, <1>6, <3>1, <3>2, WindowsAssumption
    <3> QED
      BY <1>7, <3>1, <3>2, <3>3
  <2> QED
    BY <1>8, <2>1, HeldSomewhere DEF LeftBy
<1> QED
  BY <1>9, <1>10 DEF Named

LEMMA StepIsNamed == TypeOK /\ IInv /\ StepInv /\ [Next]_vars => Named
<1> SUFFICES ASSUME TypeOK, IInv, StepInv, [Next]_vars PROVE Named
  OBVIOUS
<1>1. CASE Booting
  BY <1>1, WindowsAssumption, StartIsNamed DEF Booting
<1>2. ASSUME NEW w \in Windows,
             \/ Adopting(w) \/ Publishing(w) \/ DockSteps(w) \/ CloseSteps(w)
             \/ Destroyed(w) \/ Crash(w)
             \/ \E s \in Workspaces : CloseWorkspace(w, s)
      PROVE Named
  BY <1>2, OpenIsNamed, DockIsNamed, CloseIsNamed, DestroyedIsNamed, CrashIsNamed
<1>3. ASSUME NEW w \in Windows, ClaimLeader(w) \/ Saving(w) PROVE Named
  BY <1>3, StillIsNeutral, NeutralIsNamed
     DEF ClaimLeader, Saving, SaveRead, SaveBuild, SaveAbandoned, SaveLook, SaveWrite, registry, fileVars
<1>4. CASE UNCHANGED vars
  BY <1>4, StillIsNeutral, NeutralIsNamed DEF vars
<1> QED
  BY <1>1, <1>2, <1>3, <1>4 DEF Next

-----------------------------------------------------------------------------
\* Whatever boots, docks, closes, crashes and late answers overlap, a workspace
\* is lost to every window only in one of the ways that are listed.
THEOREM LossesAreNamed == Spec => KeptUnlessClosed
<1>1. TypeOK /\ IInv /\ StepInv /\ [Next]_vars =>
        [\A s \in AllHeld \ AllHeld' : \E w \in Windows :
           \/ ClosedByUser(w, s) \/ DrainDropped(w, s)
           \/ EndedWith(w, s) \/ ReceiverVanished(w, s)]_vars
  BY StepIsNamed DEF Named, LossNamed
<1> QED
  BY <1>1, TypeInit, TypeStep, InitIInv, StepKeepsIInv, InitStepInv, StepKeepsStepInv, PTL
     DEF Spec, KeptUnlessClosed

\* A workspace comes back to the windows only at startup, or by the rescue of
\* a window that had not begun to end its sessions.
THEOREM ReturnsAreNamed == Spec => ComesBackOnlyByRescue
<1>1. TypeOK /\ IInv /\ StepInv /\ [Next]_vars =>
        [\A s \in AllHeld' \ AllHeld :
           \/ phase[Main] = "boot"
           \/ \E w \in Windows :
                Ends(w) /\ phase[w] \notin {"kill", "destroy"} /\ s \in fragment[w]]_vars
  BY StepIsNamed DEF Named, ReturnNamed
<1> QED
  BY <1>1, TypeInit, TypeStep, InitIInv, StepKeepsIInv, InitStepInv, StepKeepsStepInv, PTL
     DEF Spec, ComesBackOnlyByRescue

=============================================================================
