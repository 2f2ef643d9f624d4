--------------------------- MODULE WindowHandover ---------------------------
(***************************************************************************)
(* Which window has which workspace: the process-wide window registry      *)
(* (src-tauri/src/window_registry.rs and its commands) and the windows     *)
(* that share it (src/components/layout/SocketListener.tsx).               *)
(*                                                                         *)
(* Every window shows its own workspaces and publishes the list, some time *)
(* after it changed, as its fragment.  A workspace moves through the       *)
(* receiver's adoption queue: the sender's fragment gives it up, the queue *)
(* takes it, the receiver drains the queue and shows what it got once the  *)
(* answer arrives.  Windows boot from saved groups, dock their workspace   *)
(* into another window and close, are closed with their workspaces, and    *)
(* crash.  The leader writes data.json from its own list and everything    *)
(* the others published or have queued.                                    *)
(***************************************************************************)
EXTENDS FiniteSets

CONSTANTS
  Windows,      \* window labels; a label is used for one window only
  Main,         \* the startup window
  Workspaces,
  Nobody,       \* no window
  SavedGroup,   \* the window each workspace was saved in
  Savers,       \* windows whose autosave runs
  Faults        \* which of "crash", "kill", "spawn", "slow" happen

ASSUME WindowsAssumption == Main \in Windows /\ Nobody \notin Windows
ASSUME SavedGroupAssumption == SavedGroup \in [Workspaces -> Windows]

\* No publish, no save is under way.
\* (Mutant: the record is made without its list.)
IdleUnset == [on |-> FALSE]
Idle == [on |-> FALSE, has |-> {}]
SaveState == [at : {"idle", "read", "built", "looked"},
              seen : SUBSET Workspaces, held : SUBSET Workspaces]
NoSave == [at |-> "idle", seen |-> {}, held |-> {}]

VARIABLES
  \* The registry.
  fragment,   \* what each window published last
  queue,      \* workspaces waiting to be adopted, per window
  assigned,   \* the window each workspace is attributed to
  closing,    \* windows with a recorded close intent
  leader,
  \* The windows.
  phase,      \* life of each window, through boot, docking and closing
  shown,      \* the workspaces in its store
  got,        \* drained from the queue, the answer not handled yet
  told,       \* an adoption event, or the drain at mount, is pending
  pub,        \* the fragment on its way to the registry
  dirty,      \* the store changed since the last publish began
  target,     \* the window a docking window gives its workspace to
  \* The file.
  save,       \* the save each window has under way
  disk        \* the workspaces of data.json

registry == <<fragment, queue, assigned, closing, leader>>
fileVars == <<save, disk>>
vars == <<fragment, queue, assigned, closing, leader, phase, shown, got, told,
          pub, dirty, target, save, disk>>

\* Between these phases and the end of the window, windowClosing is set.
Docking == {"dock", "release", "move", "intent", "depart"}
Closing == {"close", "drain", "kill", "destroy"}
Gone == {"absent", "gone"}
Phases == {"absent", "boot", "hydrate", "open", "gone"} \cup Docking \cup Closing

WindowClosing(w) == phase[w] \in Docking \cup Closing
Live == {w \in Windows : phase[w] \notin Gone}

TypeOK ==
  /\ fragment \in [Windows -> SUBSET Workspaces]
  /\ queue \in [Windows -> SUBSET Workspaces]
  /\ assigned \in [Workspaces -> Windows \cup {Nobody}]
  /\ closing \in SUBSET Windows
  /\ leader \in Windows \cup {Nobody}
  /\ phase \in [Windows -> Phases]
  /\ shown \in [Windows -> SUBSET Workspaces]
  /\ got \in [Windows -> SUBSET Workspaces]
  /\ told \in [Windows -> BOOLEAN]
  /\ pub \in [Windows -> [on : BOOLEAN, has : SUBSET Workspaces]]
  /\ dirty \in [Windows -> BOOLEAN]
  /\ target \in [Windows -> Windows \cup {Nobody}]
  /\ save \in [Windows -> SaveState]
  /\ disk \in SUBSET Workspaces

Group(w) == {s \in Workspaces : SavedGroup[s] = w}

(* The startup window has loaded data.json and shows its own group; the      *)
(* other saved groups are still to be reopened.                              *)
Init ==
  /\ fragment = [w \in Windows |-> {}]
  /\ queue = [w \in Windows |-> {}]
  /\ assigned = [s \in Workspaces |-> Nobody]
  /\ closing = {}
  /\ leader = Main
  /\ phase = [w \in Windows |-> IF w = Main THEN "boot" ELSE "absent"]
  /\ shown = [w \in Windows |-> IF w = Main THEN Group(Main) ELSE {}]
  /\ got = [w \in Windows |-> {}]
  /\ told = [w \in Windows |-> FALSE]
  /\ pub = [w \in Windows |-> Idle]
  /\ dirty = [w \in Windows |-> FALSE]
  /\ target = [w \in Windows |-> Nobody]
  /\ save = [w \in Windows |-> NoSave]
  /\ disk = Workspaces

-----------------------------------------------------------------------------
(* What the registry's operations leave behind.                              *)

\* queue_adoption: append to the queue and point the workspaces at the window.
Queued(q, w, set) == [q EXCEPT ![w] = @ \cup set]
Assigned(a, w, set) == [s \in Workspaces |-> IF s \in set THEN w ELSE a[s]]

\* publish_fragment: ownership is derived again from what was published.
Republished(a, w, set) ==
  [s \in Workspaces |->
     IF s \in set THEN w ELSE IF a[s] = w THEN Nobody ELSE a[s]]

\* forget_window: nothing stays attributed to the window.
Forgotten(a, w) == [s \in Workspaces |-> IF a[s] = w THEN Nobody ELSE a[s]]

\* rescue_target: the leader if it can take them, else any other live window
\* (the code takes the first label in order).
Rescuers(w) == {x \in Live \ {w} : x \notin closing}
RescueTargets(w) ==
  IF leader \in Rescuers(w) THEN {leader}
  ELSE IF Rescuers(w) = {} THEN {Nobody} ELSE Rescuers(w)

-----------------------------------------------------------------------------
(* Startup.                                                                  *)

\* reopenSavedWindows: the group is queued before its window exists.
OpenSaved(w) ==
  /\ phase[Main] = "boot" /\ phase[w] = "absent" /\ Group(w) # {}
  /\ phase' = [phase EXCEPT ![w] = "boot"]
  /\ queue' = Queued(queue, w, Group(w))
  /\ assigned' = Assigned(assigned, w, Group(w))
  /\ UNCHANGED <<fragment, closing, leader, shown, got, told, pub, dirty, target, save, disk>>

\* The window cannot be built: its queue goes back to the caller, which also
\* adopts the stranded group itself.
OpenSavedFails(w) ==
  /\ "spawn" \in Faults
  /\ phase[Main] = "boot" /\ phase[w] = "absent" /\ Group(w) # {}
  /\ phase' = [phase EXCEPT ![w] = "gone"]
  /\ queue' = Queued(queue, Main, Group(w))
  /\ assigned' = Assigned(assigned, Main, Group(w))
  /\ shown' = [shown EXCEPT ![Main] = @ \cup Group(w)]
  /\ UNCHANGED <<fragment, closing, leader, got, told, pub, dirty, target, save, disk>>

\* The startup window is loaded: it drains its queue and publishes.
MainLoaded ==
  /\ phase[Main] = "boot"
  /\ \A w \in Windows : Group(w) # {} => phase[w] # "absent"
  /\ phase' = [phase EXCEPT ![Main] = "open"]
  /\ told' = [told EXCEPT ![Main] = TRUE]
  /\ dirty' = [dirty EXCEPT ![Main] = TRUE]
  /\ UNCHANGED <<registry, shown, got, pub, target, fileVars>>

\* hydrateChildWindow: drain the queue, then show what came.
ChildDrains(w) ==
  /\ w # Main /\ phase[w] = "boot"
  /\ phase' = [phase EXCEPT ![w] = "hydrate"]
  /\ got' = [got EXCEPT ![w] = queue[w]]
  /\ queue' = [queue EXCEPT ![w] = {}]
  /\ UNCHANGED <<fragment, assigned, closing, leader, shown, told, pub, dirty, target, fileVars>>

ChildHydrated(w) ==
  /\ phase[w] = "hydrate"
  /\ phase' = [phase EXCEPT ![w] = "open"]
  /\ shown' = [shown EXCEPT ![w] = @ \cup got[w]]
  /\ got' = [got EXCEPT ![w] = {}]
  /\ told' = [told EXCEPT ![w] = TRUE]
  /\ dirty' = [dirty EXCEPT ![w] = TRUE]
  /\ UNCHANGED <<registry, pub, target, fileVars>>

-----------------------------------------------------------------------------
(* Adoption and publication in an open window.                               *)

\* (Mutant: the event is used up while a save is under way.)
DrainUnlessBusy(w) ==
  /\ told[w] /\ phase[w] = "open"
  /\ told' = [told EXCEPT ![w] = FALSE]
  /\ IF save[w] = NoSave
     THEN /\ got' = [got EXCEPT ![w] = @ \cup queue[w]]
          /\ queue' = [queue EXCEPT ![w] = {}]
     ELSE UNCHANGED <<got, queue>>
  /\ UNCHANGED <<fragment, assigned, closing, leader, phase, shown, pub, dirty, target, fileVars>>

\* drain: take_pending_adoption empties the queue; the answer is on its way.
Drain(w) ==
  /\ told[w] /\ phase[w] = "open"
  /\ told' = [told EXCEPT ![w] = FALSE]
  /\ got' = [got EXCEPT ![w] = @ \cup queue[w]]
  /\ queue' = [queue EXCEPT ![w] = {}]
  /\ UNCHANGED <<fragment, assigned, closing, leader, phase, shown, pub, dirty, target, fileVars>>

\* A window on its way out ignores the event.
DrainSkipped(w) ==
  /\ told[w] /\ WindowClosing(w)
  /\ told' = [told EXCEPT ![w] = FALSE]
  /\ UNCHANGED <<registry, phase, shown, got, pub, dirty, target, fileVars>>

\* adoptWorkspaceConfigs skips what the window shows already.
Adopt(w) ==
  /\ got[w] # {} /\ phase[w] = "open"
  /\ shown' = [shown EXCEPT ![w] = @ \cup got[w]]
  /\ got' = [got EXCEPT ![w] = {}]
  /\ dirty' = [dirty EXCEPT ![w] = TRUE]
  /\ UNCHANGED <<registry, phase, told, pub, target, fileVars>>

\* The answer of a drain reaches a window that began to close meanwhile.
AdoptSkipped(w) ==
  /\ got[w] # {} /\ WindowClosing(w)
  /\ got' = [got EXCEPT ![w] = {}]
  /\ UNCHANGED <<registry, phase, shown, told, pub, dirty, target, fileVars>>

\* publishNow, one at a time: the fragment is built, then sent.
Publish(w) ==
  /\ phase[w] = "open" /\ dirty[w] /\ pub[w] = Idle
  /\ pub' = [pub EXCEPT ![w] = [on |-> TRUE, has |-> shown[w]]]
  /\ dirty' = [dirty EXCEPT ![w] = FALSE]
  /\ UNCHANGED <<registry, phase, shown, got, told, target, fileVars>>

\* The debounce ends while the window is on its way out.
PublishSkipped(w) ==
  /\ dirty[w] /\ WindowClosing(w)
  /\ dirty' = [dirty EXCEPT ![w] = FALSE]
  /\ UNCHANGED <<registry, phase, shown, got, told, pub, target, fileVars>>

\* publish_window_fragment; a window with a close intent is not heard.
Published(w) ==
  /\ pub[w].on
  /\ IF w \in closing
     THEN UNCHANGED <<fragment, assigned>>
     ELSE /\ fragment' = [fragment EXCEPT ![w] = pub[w].has]
          /\ assigned' = Republished(assigned, w, pub[w].has)
  /\ pub' = [pub EXCEPT ![w] = Idle]
  /\ UNCHANGED <<queue, closing, leader, phase, shown, got, told, dirty, target, fileVars>>

\* The user closes one workspace; its terminals end.
CloseWorkspace(w, s) ==
  /\ phase[w] = "open" /\ s \in shown[w]
  /\ shown' = [shown EXCEPT ![w] = @ \ {s}]
  /\ dirty' = [dirty EXCEPT ![w] = TRUE]
  /\ UNCHANGED <<registry, phase, got, told, pub, target, fileVars>>

-----------------------------------------------------------------------------
(* Docking: transferWindowWorkspacesAndClose.                                *)

DockStart(w, to) ==
  /\ w # Main /\ to # w /\ phase[w] = "open" /\ phase[to] = "open"
  /\ Cardinality(shown[w]) = 1
  /\ phase' = [phase EXCEPT ![w] = "dock"]
  /\ target' = [target EXCEPT ![w] = to]
  /\ UNCHANGED <<registry, shown, got, told, pub, dirty, fileVars>>

\* (Mutant: the publish under way is not waited for.)
DockPublishAtOnce(w) ==
  /\ phase[w] = "dock"
  /\ phase' = [phase EXCEPT ![w] = "release"]
  /\ fragment' = [fragment EXCEPT ![w] = shown[w]]
  /\ assigned' = Republished(assigned, w, shown[w])
  /\ UNCHANGED <<queue, closing, leader, shown, got, told, pub, dirty, target, fileVars>>

\* The save and the publish under way end first; then the last fragment.
DockPublish(w) ==
  /\ phase[w] = "dock" /\ pub[w] = Idle /\ save[w] = NoSave
  /\ phase' = [phase EXCEPT ![w] = "release"]
  /\ fragment' = [fragment EXCEPT ![w] = shown[w]]
  /\ assigned' = Republished(assigned, w, shown[w])
  /\ UNCHANGED <<queue, closing, leader, shown, got, told, pub, dirty, target, fileVars>>

\* release_workspaces looks for the receiver, and only then takes the lock.
DockCheck(w) ==
  /\ phase[w] = "release" /\ target[w] \in Live
  /\ phase' = [phase EXCEPT ![w] = "move"]
  /\ UNCHANGED <<registry, shown, got, told, pub, dirty, target, fileVars>>

\* release_to_open_window: into the receiver's queue, and tell it.
DockRelease(w) ==
  LET to == target[w]
      moved == fragment[w] \cap shown[w]   \* what it published, nothing else
  IN
  /\ phase[w] = "move" /\ to \notin closing
  /\ phase' = [phase EXCEPT ![w] = "intent"]
  /\ fragment' = [fragment EXCEPT ![w] = @ \ shown[w]]
  /\ queue' = Queued(queue, to, moved)
  /\ assigned' = Assigned(assigned, to, moved)
  /\ told' = [told EXCEPT ![to] = @ \/ (moved # {} /\ to \in Live)]
  /\ UNCHANGED <<closing, leader, shown, got, pub, dirty, target, fileVars>>

\* (Mutant: one handler for every error, the one of the intent too.)
DockRefusedLate(w) ==
  /\ \/ phase[w] \in {"release", "intent"}
     \/ phase[w] = "move" /\ target[w] \in closing
  /\ phase' = [phase EXCEPT ![w] = "open"]
  /\ target' = [target EXCEPT ![w] = Nobody]
  /\ UNCHANGED <<registry, shown, got, told, pub, dirty, fileVars>>

\* The receiver is gone or closing: the window stays as it was.
DockRefused(w) ==
  /\ \/ phase[w] = "release" /\ target[w] \notin Live
     \/ phase[w] = "move" /\ target[w] \in closing
  /\ phase' = [phase EXCEPT ![w] = "open"]
  /\ target' = [target EXCEPT ![w] = Nobody]
  /\ UNCHANGED <<registry, shown, got, told, pub, dirty, fileVars>>

DockIntent(w) ==
  /\ phase[w] = "intent"
  /\ phase' = [phase EXCEPT ![w] = "depart"]
  /\ closing' = closing \cup {w}
  /\ UNCHANGED <<fragment, queue, assigned, leader, shown, got, told, pub, dirty, target, fileVars>>

-----------------------------------------------------------------------------
(* Closing a window with its workspaces: closeWindowWorkspacesAndDestroy.    *)

CloseStart(w) ==
  /\ phase[w] = "open"
  /\ phase' = [phase EXCEPT ![w] = "close"]
  /\ UNCHANGED <<registry, shown, got, told, pub, dirty, target, fileVars>>

\* (Mutant: the intent is not recorded.)
CloseIntentSilent(w) ==
  /\ phase[w] = "close" /\ pub[w] = Idle /\ save[w] = NoSave
  /\ phase' = [phase EXCEPT ![w] = "drain"]
  /\ UNCHANGED <<registry, shown, got, told, pub, dirty, target, fileVars>>

\* The save and the publish under way end first (bound: before the wait
\* times out).
CloseIntent(w) ==
  /\ phase[w] = "close" /\ pub[w] = Idle /\ save[w] = NoSave
  /\ phase' = [phase EXCEPT ![w] = "drain"]
  /\ closing' = closing \cup {w}
  /\ UNCHANGED <<fragment, queue, assigned, leader, shown, got, told, pub, dirty, target, fileVars>>

\* Handoffs committed before the close intent close with the window; an
\* answer that comes too late is thrown away.
CloseDrain(w) ==
  /\ phase[w] = "drain"
  /\ phase' = [phase EXCEPT ![w] = "kill"]
  /\ \/ shown' = [shown EXCEPT ![w] = @ \cup queue[w]]
     \/ "slow" \in Faults /\ shown' = shown
  /\ queue' = [queue EXCEPT ![w] = {}]
  /\ UNCHANGED <<fragment, assigned, closing, leader, got, told, pub, dirty, target, fileVars>>

\* Every session of the window has ended.
CloseKill(w) ==
  /\ phase[w] = "kill"
  /\ phase' = [phase EXCEPT ![w] = "destroy"]
  /\ shown' = [shown EXCEPT ![w] = {}]
  /\ UNCHANGED <<registry, got, told, pub, dirty, target, fileVars>>

\* One kill is refused: the window stays open with its workspaces.
CloseKillFails(w) ==
  /\ "kill" \in Faults /\ phase[w] = "kill"
  /\ phase' = [phase EXCEPT ![w] = "open"]
  /\ closing' = closing \ {w}
  /\ UNCHANGED <<fragment, queue, assigned, leader, shown, got, told, pub, dirty, target, fileVars>>

-----------------------------------------------------------------------------
(* The end of a window: handle_window_destroyed.                             *)

\* What the window itself held is gone; a publish it sent may still arrive.
WindowEnds(w) ==
  /\ phase' = [phase EXCEPT ![w] = "gone"]
  /\ shown' = [shown EXCEPT ![w] = {}]
  /\ got' = [got EXCEPT ![w] = {}]
  /\ dirty' = [dirty EXCEPT ![w] = FALSE]
  /\ UNCHANGED pub
  /\ target' = [target EXCEPT ![w] = Nobody]
  /\ leader' = IF leader = w THEN Nobody ELSE leader

\* A recorded close intent: nothing is handed back.
Destroyed(w) ==
  /\ w \in closing
  /\ phase[w] \in {"depart", "destroy"} \/ "crash" \in Faults
  /\ WindowEnds(w)
  /\ closing' = closing \ {w}
  /\ fragment' = [fragment EXCEPT ![w] = {}]
  /\ queue' = [queue EXCEPT ![w] = {}]
  /\ assigned' = Forgotten(assigned, w)
  /\ told' = [told EXCEPT ![w] = FALSE]
  /\ UNCHANGED fileVars

\* (Mutant: what the window had not drained is forgotten.)
LeftByPublished(w) == fragment[w]

\* release_all: what the registry still has of the window.
LeftBy(w) == fragment[w] \cup queue[w]

\* Without an intent it goes to another window, if there is one (bound: the
\* startup window does not crash before it has loaded).
Crash(w) ==
  /\ "crash" \in Faults
  /\ w \in Live /\ w \notin closing /\ (w = Main => phase[Main] # "boot")
  /\ WindowEnds(w)
  /\ \E t \in RescueTargets(w) :
       LET handed == IF t = Nobody THEN {} ELSE LeftBy(w) IN
       /\ queue' = [x \in Windows |->
                      IF x = w THEN {} ELSE IF x = t THEN queue[x] \cup handed ELSE queue[x]]
       /\ assigned' = Forgotten(Assigned(assigned, t, handed), w)
       /\ told' = [x \in Windows |->
                     IF x = w THEN FALSE ELSE told[x] \/ (x = t /\ handed # {})]
  /\ fragment' = [fragment EXCEPT ![w] = {}]
  /\ UNCHANGED <<closing, fileVars>>

-----------------------------------------------------------------------------
(* Leadership and the file.                                                  *)

ClaimLeader(w) ==
  /\ leader = Nobody
  /\ phase[w] \notin Gone \cup {"boot", "hydrate"}
  /\ leader' = w
  /\ UNCHANGED <<fragment, queue, assigned, closing, phase, shown, got, told, pub, dirty,
                 target, fileVars>>

MaySave(w) == w \in Savers /\ leader = w /\ phase[w] = "open"

\* get_window_fragments: what was published and what is queued.  The merge
\* leaves out what the startup window published.
PeerList == UNION {fragment[x] : x \in Windows \ {Main}}
Pending == UNION {queue[x] : x \in Windows}

SaveRead(w) ==
  /\ MaySave(w) /\ save[w] = NoSave
  /\ save' = [save EXCEPT ![w] = [NoSave EXCEPT !.at = "read", !.seen = PeerList \cup Pending]]
  /\ UNCHANGED <<registry, phase, shown, got, told, pub, dirty, target, disk>>

\* The snapshot adds what the window itself shows by now.
SaveBuild(w) ==
  /\ MaySave(w) /\ save[w].at = "read"
  /\ save' = [save EXCEPT ![w].at = "built", ![w].seen = @ \cup shown[w]]
  /\ UNCHANGED <<registry, phase, shown, got, told, pub, dirty, target, disk>>

SaveAbandoned(w) ==
  /\ save[w].at = "read" /\ ~ MaySave(w)
  /\ save' = [save EXCEPT ![w] = NoSave]
  /\ UNCHANGED <<registry, phase, shown, got, told, pub, dirty, target, disk>>

\* live_workspace_ids: what some window holds, before the wait for the lock of
\* the file.  The command goes on whatever becomes of its window.
Held == fragment[Main] \cup PeerList \cup Pending

SaveLook(w) ==
  /\ save[w].at = "built"
  /\ save' = [save EXCEPT ![w].at = "looked", ![w].held = Held]
  /\ UNCHANGED <<registry, phase, shown, got, told, pub, dirty, target, disk>>

\* merge_persistent_data, under the lock: what was held by then is carried over.
SaveWrite(w) ==
  /\ save[w].at = "looked"
  /\ disk' = save[w].seen \cup (disk \cap save[w].held)
  /\ save' = [save EXCEPT ![w] = NoSave]
  /\ UNCHANGED <<registry, phase, shown, got, told, pub, dirty, target>>

-----------------------------------------------------------------------------
Booting ==
  \/ MainLoaded
  \/ \E w \in Windows : OpenSaved(w) \/ OpenSavedFails(w) \/ ChildDrains(w) \/ ChildHydrated(w)

Adopting(w) == Drain(w) \/ DrainSkipped(w) \/ Adopt(w) \/ AdoptSkipped(w)
Publishing(w) == Publish(w) \/ PublishSkipped(w) \/ Published(w)

DockSteps(w) ==
  \/ \E to \in Windows : DockStart(w, to)
  \/ DockPublish(w) \/ DockCheck(w) \/ DockRelease(w) \/ DockRefused(w)
  \/ DockIntent(w)

CloseSteps(w) ==
  \/ CloseStart(w) \/ CloseIntent(w) \/ CloseDrain(w) \/ CloseKill(w) \/ CloseKillFails(w)

Saving(w) == SaveRead(w) \/ SaveBuild(w) \/ SaveAbandoned(w) \/ SaveLook(w) \/ SaveWrite(w)

Next ==
  \/ Booting
  \/ \E w \in Windows :
       \/ Adopting(w) \/ Publishing(w) \/ DockSteps(w) \/ CloseSteps(w)
       \/ Destroyed(w) \/ Crash(w) \/ ClaimLeader(w) \/ Saving(w)
       \/ \E s \in Workspaces : CloseWorkspace(w, s)

Spec == Init /\ [][Next]_vars

(* What the code's event loops and pending calls justify: startup, the       *)
(* answers of calls under way, and handlers of events that were delivered.   *)
(* No user action, failure or save is fair.                                  *)
Fairness ==
  /\ WF_vars(MainLoaded)
  /\ \A w \in Windows :
       /\ WF_vars(OpenSaved(w)) /\ WF_vars(ChildDrains(w)) /\ WF_vars(ChildHydrated(w))
       /\ WF_vars(Drain(w)) /\ WF_vars(Adopt(w))

FairSpec == Spec /\ Fairness

-----------------------------------------------------------------------------
(* Properties.                                                               *)

\* A window past its release still shows what it gave away.
Released(w) == phase[w] \in {"intent", "depart"}

\* What the window has or will show.
Holds(w) == IF w \notin Live THEN {}
            ELSE queue[w] \cup got[w] \cup IF Released(w) THEN {} ELSE shown[w]
AllHeld == UNION {Holds(w) : w \in Windows}

(* Through boots, docks, closes, crashes and rescues no workspace is shown   *)
(* by, or on its way to, two windows: its terminals would be attached twice. *)
HeldOnce ==
  \A w, x \in Windows : w # x => Holds(w) \cap Holds(x) = {}

(* Commands for a workspace go to the window that shows and published it,    *)
(* or to a window that is gone (a publish that arrived after its end), never *)
(* to another live window.                                                   *)
RoutedToHolder ==
  \A w \in Windows : \A s \in shown[w] \cap fragment[w] :
    phase[w] = "open" => assigned[s] = w \/ assigned[s] \notin Live

Ends(w) == phase[w] \in Phases \ Gone /\ phase'[w] = "gone"

\* Why a workspace may leave every window.
ClosedByUser(w, s) ==
  /\ s \in shown[w]
  /\ \/ phase[w] = "open" /\ phase'[w] = "open"
     \/ phase[w] = "kill" /\ phase'[w] = "destroy"
DrainDropped(w, s) ==
  \/ s \in got[w] /\ WindowClosing(w)
  \/ s \in queue[w] /\ phase[w] = "drain" /\ phase'[w] = "kill"
EndedWith(w, s) ==
  /\ Ends(w)
  /\ \/ w \in closing
     \/ s \notin fragment[w] \cup queue[w]
     \/ Rescuers(w) = {}
ReceiverVanished(w, s) ==
  s \in shown[w] /\ phase[w] = "move" /\ phase'[w] = "intent" /\ target[w] \notin Live

(* A workspace on screen or on its way to a window is lost only when the     *)
(* user closes it, when a window ends that had been told to close, had not   *)
(* published it or had no peer, when the answer of a drain meets a window    *)
(* that began to close or comes too late for it, or when the receiver of a dock ended inside the call.*)
KeptUnlessClosed ==
  [][\A s \in AllHeld \ AllHeld' : \E w \in Windows :
       \/ ClosedByUser(w, s) \/ DrainDropped(w, s)
       \/ EndedWith(w, s) \/ ReceiverVanished(w, s)]_vars

(* A workspace nobody had comes back only at startup, or from the fragment   *)
(* of a window that crashed before it published that the user closed it:     *)
(* never from a window whose own close had reached its sessions.             *)
ComesBackOnlyByRescue ==
  [][\A s \in AllHeld' \ AllHeld :
       \/ phase[Main] = "boot"
       \/ \E w \in Windows :
            Ends(w) /\ phase[w] \notin {"kill", "destroy"} /\ s \in fragment[w]]_vars

(* A workspace queued for a window that boots or that has been told is on    *)
(* its screen in the end, unless the window starts to close first.           *)
Expecting(w, s) ==
  s \in queue[w] /\ (phase[w] = "boot" \/ (phase[w] = "open" /\ told[w]))
HandoverCompletes ==
  \A w \in Windows, s \in Workspaces :
    Expecting(w, s) ~> s \in shown[w] \/ phase[w] \notin {"boot", "hydrate", "open"}

(* "Carrying those entries over from disk keeps a save additive for anything *)
(* still on screen somewhere": a save removes no workspace that a window     *)
(* shows.                                                                    *)
SaveIsAdditive ==
  [][\A s \in disk \ disk' : \A w \in Live : s \notin shown[w]]_disk

=============================================================================
