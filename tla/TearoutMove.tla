----------------------------- MODULE TearoutMove -----------------------------
(***************************************************************************)
(* A workspace with its running sessions moves into a window of its own:   *)
(* the source window (src/lib/workspaceTearOut.ts), the receiving window   *)
(* (src/lib/tearout/runtime.ts), the transfers of the process              *)
(* (src-tauri/src/tearout/mod.rs, transfer.rs) and the authority over who  *)
(* is attached to a session (tearout/attachment_epoch.rs).                 *)
(*                                                                         *)
(* One workspace is followed.  Every move opens a new window, so a move is *)
(* named by its receiver.  The source reserves the sessions, puts the      *)
(* workspace in escrow, takes it off its screen and delivers it; the       *)
(* receiver attaches with contexts issued for this transfer and answers.   *)
(* Whatever fails, the source revokes the transfer, retires the receiver   *)
(* and attaches again.  Windows crash meanwhile, and the registry rescues  *)
(* what it has of them.                                                    *)
(***************************************************************************)
EXTENDS Integers, Sequences, FiniteSets

CONSTANTS
  MaxWindows,  \* bound: windows that are opened
  Faults,      \* which of "changed", "destroy" happen
  MaxMounts,   \* bound: attachment contexts issued before a terminal mounts
  MaxCrashes,  \* bound: windows that crash
  MaxRetries   \* bound: recoveries the user starts again

ASSUME BoundsAssumption ==
  MaxWindows \in Nat /\ MaxMounts \in Nat /\ MaxCrashes \in Nat /\ MaxRetries \in Nat

\* Windows in the order they open; the startup window leads while it lives.
Windows == 0..MaxWindows
Main == 0
Nobody == -1
Receivers == Windows \ {Main}

VARIABLES
  life,       \* of each window
  shown,      \* how each window came to show the workspace, if it does
  \* The source and the receiver of a move.
  move,       \* how far the source of the move into each window is
  reception,  \* what each window does with a delivery
  incoming,   \* a delivery locks it
  mail,       \* events on their way to it
  reply,      \* its receipt, on its way to the source
  \* The registry.
  fragment,   \* it has published that it shows the workspace
  escrow,     \* the workspace is in its adoption queue
  assigned,   \* the window the workspace is attributed to
  told,       \* it is about to drain that queue: it starts, or an event comes
  rescue,     \* the window a rescue is being announced to
  \* Transfers and authority.
  transfer,   \* the move into each window
  owner,      \* the window that may attach
  epoch,      \* contexts issued so far
  grant,      \* the context issued last
  active,     \* the one whose channel the sessions write to
  attaching   \* attach calls on their way

windowVars == <<shown, move, reception, incoming, mail, reply>>
registry == <<fragment, escrow, assigned, told, rescue>>
authority == <<owner, epoch, grant, active, attaching>>
vars == <<life, shown, move, reception, incoming, mail, reply, fragment, escrow,
          assigned, told, rescue, transfer, owner, epoch, grant, active, attaching>>

Phases == {"none", "prepared", "shown", "committed", "received", "cleaned", "rolled_back"}
Context == [to : Windows \cup {Nobody}, via : Windows \cup {Nobody}, n : Nat]
Void == [to |-> Nobody, via |-> Nobody, n |-> 0]

Stages == {"idle", "opening", "prepare", "show", "commit", "remove", "publish", "send",
           "wait", "receive", "clean", "finalize", "revoke", "ack", "retire",
           "rollback", "ask", "restore", "ready", "attached", "failed", "over"}
Move == [at : Stages, from : Windows \cup {Nobody}, prepared : BOOLEAN, removed : BOOLEAN,
         tries : Nat, ctx : Context]
AtRest == [at |-> "idle", from |-> Nobody, prepared |-> FALSE, removed |-> FALSE,
           tries |-> 0, ctx |-> Void]
Reception == [at : {"none", "asking", "adopting", "attaching", "attached", "failing", "failed", "done",
                    "revoked"}, had : BOOLEAN, ctx : Context]
NoReception == [at |-> "none", had |-> FALSE, ctx |-> Void]
Transfer == [phase : Phases, source : Windows \cup {Nobody},
             revoked : BOOLEAN, finalized : BOOLEAN]
NoTransfer == [phase |-> "none", source |-> Nobody, revoked |-> FALSE, finalized |-> FALSE]

Events == {"delivery", "revoke", "finalize"}

TypeOK ==
  /\ life \in [Windows -> {"absent", "open", "gone", "crashed"}]
  /\ shown \in [Windows -> {"no", "own", "adopted"}]
  /\ move \in [Receivers -> Move]
  /\ reception \in [Windows -> Reception]
  /\ incoming \in [Windows -> BOOLEAN]
  /\ mail \in [Windows -> Seq(Events)]
  /\ reply \in [Windows -> {"none", "ok", "failed"}]
  /\ fragment \in [Windows -> BOOLEAN] /\ escrow \in [Windows -> BOOLEAN]
  /\ assigned \in Windows \cup {Nobody}
  /\ told \in [Windows -> BOOLEAN] /\ rescue \in Windows \cup {Nobody}
  /\ transfer \in [Windows -> Transfer]
  /\ owner \in Windows \cup {Nobody} /\ epoch \in Nat
  /\ grant \in Context /\ active \in Context /\ attaching \subseteq Context

First == [to |-> Main, via |-> Nobody, n |-> 0]

(* The startup window shows the workspace and is attached to its sessions.   *)
Init ==
  /\ life = [w \in Windows |-> IF w = Main THEN "open" ELSE "absent"]
  /\ shown = [w \in Windows |-> IF w = Main THEN "own" ELSE "no"]
  /\ move = [r \in Receivers |-> AtRest]
  /\ reception = [w \in Windows |-> NoReception]
  /\ incoming = [w \in Windows |-> FALSE]
  /\ mail = [w \in Windows |-> <<>>]
  /\ reply = [w \in Windows |-> "none"]
  /\ fragment = [w \in Windows |-> w = Main]
  /\ escrow = [w \in Windows |-> FALSE]
  /\ assigned = Main /\ told = [w \in Windows |-> FALSE] /\ rescue = Nobody
  /\ transfer = [w \in Windows |-> NoTransfer]
  /\ owner = Main /\ epoch = 0 /\ grant = First /\ active = First /\ attaching = {}

-----------------------------------------------------------------------------
(* Authority.                                                                *)

Open(w) == life[w] = "open"
Crashed == {w \in Windows : life[w] = "crashed"}
Shows(w) == shown[w] # "no"

\* reserved: until it is finalized or rolled back.
Reserved(r) ==
  transfer[r].phase \notin {"none", "rolled_back"} /\ ~ transfer[r].finalized
AnyReserved == \E r \in Receivers : Reserved(r)

\* require_owner: the owner, or after its end a window the registry names.
MayOwn(w) == owner = w \/ (~ Open(owner) /\ fragment[w] /\ assigned = w)

\* get_session_attachment_contexts, for a transfer and without one.
MayAskVia(r) ==
  /\ transfer[r].phase \in {"committed", "received", "cleaned"}
  /\ ~ transfer[r].revoked
MayAsk(w) == ~ AnyReserved /\ MayOwn(w)

Issue(w, via) ==
  /\ epoch' = epoch + 1
  /\ grant' = [to |-> w, via |-> via, n |-> epoch']

\* validate compares the whole context.
Valid(c) == c = grant /\ Open(c.to)

\* revoke_transfer_attachments, once: the source owns the sessions again and
\* what was issued for the transfer is withdrawn.
Withdrawn(c, r) == IF c.via = r THEN Void ELSE c
\* (Mutant: a context not used yet stays.)
RevokedActive(r) ==
  IF transfer[r].revoked THEN UNCHANGED <<owner, grant, active>>
  ELSE /\ owner' = transfer[r].source
       /\ active' = Withdrawn(active, r)
       /\ UNCHANGED grant
Revoked(r) ==
  IF transfer[r].revoked THEN UNCHANGED <<owner, grant, active>>
  ELSE /\ owner' = transfer[r].source
       /\ grant' = Withdrawn(grant, r)
       /\ active' = Withdrawn(active, r)

\* The worker of an attach call gets the gate of the session.
Attach(c) ==
  /\ c \in attaching
  /\ attaching' = attaching \ {c}
  /\ active' = IF Valid(c) THEN c ELSE active
  /\ move' = [r \in Receivers |->
       IF Valid(c) /\ move[r].at = "ready" /\ move[r].ctx = c
       THEN [move[r] EXCEPT !.at = "attached"] ELSE move[r]]
  /\ reception' = [w \in Windows |->
       IF Valid(c) /\ reception[w].at = "attaching" /\ reception[w].ctx = c
       THEN [reception[w] EXCEPT !.at = "attached"] ELSE reception[w]]
  /\ UNCHANGED <<life, shown, incoming, mail, reply, registry, transfer, owner, epoch, grant>>

-----------------------------------------------------------------------------
(* The registry.                                                             *)

\* publish_fragment, of what the window shows from now on.
Published(w, has) ==
  /\ fragment' = [fragment EXCEPT ![w] = has]
  /\ assigned' = IF has THEN w ELSE IF assigned = w THEN Nobody ELSE assigned

\* remove_pending_adoption.
EscrowRemoved(r) ==
  /\ escrow' = [escrow EXCEPT ![r] = FALSE]
  /\ assigned' = IF assigned = r /\ ~ fragment[r] THEN Nobody ELSE assigned

\* The debounced publish of a window.
Republish(w) ==
  /\ Open(w) /\ fragment[w] # Shows(w)
  /\ Published(w, Shows(w))
  /\ UNCHANGED <<life, windowVars, escrow, told, rescue, transfer, authority>>

RescueTargets(w) ==
  LET others == {x \in Windows \ {w} : Open(x)} IN
  IF Main \in others THEN {Main} ELSE others

Ended(m) == [AtRest EXCEPT !.at = "over", !.from = m.from]
MovesWithout(w) ==
  [r \in Receivers |-> IF move[r].from = w THEN Ended(move[r]) ELSE move[r]]

\* A window ends: nothing of its page is left.
Ends(w, how) ==
  /\ life' = [life EXCEPT ![w] = how]
  /\ reception' = [reception EXCEPT ![w] = NoReception]
  /\ incoming' = [incoming EXCEPT ![w] = FALSE]
  /\ mail' = [mail EXCEPT ![w] = <<>>]
  /\ shown' = [shown EXCEPT ![w] = "no"]
  /\ fragment' = [fragment EXCEPT ![w] = FALSE]
  /\ told' = [told EXCEPT ![w] = FALSE]

\* reclaim_destroyed_window (bound: another window is open, no rescue is
\* being announced).
Crash(w) ==
  /\ Open(w) /\ Cardinality(Crashed) < MaxCrashes /\ rescue = Nobody
  /\ \E t \in RescueTargets(w) :
       LET handed == fragment[w] \/ escrow[w] IN
       /\ escrow' = [x \in Windows |-> IF x = w THEN FALSE ELSE escrow[x] \/ (x = t /\ handed)]
       /\ assigned' = IF handed THEN t ELSE IF assigned = w THEN Nobody ELSE assigned
       /\ rescue' = IF handed THEN t ELSE Nobody
  /\ Ends(w, "crashed")
  /\ move' = MovesWithout(w)
  /\ UNCHANGED <<reply, transfer, authority>>

\* adopt_released_attachments and the adoption event, off the event loop.
Rescued ==
  /\ rescue # Nobody
  /\ rescue' = Nobody
  /\ told' = [told EXCEPT ![rescue] = Open(rescue)]
  /\ IF Open(rescue)
     THEN /\ owner' = rescue
          /\ grant' = IF grant.to = rescue THEN grant ELSE Void
     ELSE UNCHANGED <<owner, grant>>
  /\ UNCHANGED <<life, windowVars, fragment, escrow, assigned, transfer, epoch, active, attaching>>

\* drain, with the answer.
Drain(w) ==
  /\ told[w] /\ Open(w)
  /\ told' = [told EXCEPT ![w] = FALSE]
  /\ escrow' = [escrow EXCEPT ![w] = FALSE]
  /\ shown' = [shown EXCEPT ![w] = IF escrow[w] /\ ~ Shows(w) THEN "adopted" ELSE @]
  /\ UNCHANGED <<life, move, reception, incoming, mail, reply, fragment, assigned, rescue,
                 transfer, authority>>

\* The terminals of an adopted workspace mount like any other.
Mount(w) ==
  /\ Open(w) /\ shown[w] = "adopted" /\ active.to # w
  /\ MayAsk(w) /\ epoch < MaxMounts /\ Issue(w, Nobody)
  /\ owner' = w
  /\ attaching' = attaching \cup {grant'}
  /\ UNCHANGED <<life, windowVars, registry, transfer, active>>

-----------------------------------------------------------------------------
(* The source: performWorkspaceWindowMove.                                   *)

\* One operation at a time, and none while a delivery is provisional.
Rests(m) == m.at \in {"idle", "failed", "over"}
Busy(w) == incoming[w] \/ \E r \in Receivers : move[r].from = w /\ ~ Rests(move[r])

Goes(r, stage) == move' = [move EXCEPT ![r].at = stage]

\* openWorkspaceWindow; its page boots.
Start(s, r) ==
  /\ Open(s) /\ Shows(s) /\ ~ Busy(s)
  /\ life[r] = "absent" /\ \A x \in 0..(r - 1) : life[x] # "absent"
  /\ life' = [life EXCEPT ![r] = "open"]
  /\ move' = [move EXCEPT ![r] = [AtRest EXCEPT !.at = "opening", !.from = s]]
  /\ UNCHANGED <<shown, reception, incoming, mail, reply, registry, transfer, authority>>

\* Loaded, the receiver drains its queue and answers a query; or it takes too
\* long.
Booted(r) ==
  /\ move[r].at = "opening"
  /\ \/ Open(r) /\ Goes(r, "prepare") /\ told' = [told EXCEPT ![r] = TRUE]
     \/ Goes(r, "retire") /\ UNCHANGED told
  /\ UNCHANGED <<life, shown, reception, incoming, mail, reply, fragment, escrow, assigned,
                 rescue, transfer, authority>>

\* tearout_prepare: the sessions are reserved, or the source is not who may.
Prepare(r) ==
  /\ move[r].at = "prepare"
  /\ IF Open(r) /\ ~ AnyReserved /\ MayOwn(move[r].from)
     THEN /\ transfer' = [transfer EXCEPT ![r] = [NoTransfer EXCEPT !.phase = "prepared",
                                                                   !.source = move[r].from]]
          /\ owner' = move[r].from
          /\ move' = [move EXCEPT ![r].at = "show", ![r].prepared = TRUE]
     ELSE Goes(r, "retire") /\ UNCHANGED <<transfer, owner>>
  /\ UNCHANGED <<life, shown, reception, incoming, mail, reply, registry,
                 epoch, grant, active, attaching>>

Advanced(r, phase) == transfer' = [transfer EXCEPT ![r].phase = phase]

ShowPhase(r) ==
  /\ move[r].at = "show"
  /\ Advanced(r, "shown") /\ Goes(r, "commit")
  /\ UNCHANGED <<life, shown, reception, incoming, mail, reply, registry, authority>>

\* Committed: into the receiver's queue, if it lives or not.
Commit(r) ==
  /\ move[r].at = "commit"
  /\ Advanced(r, "committed") /\ Goes(r, "remove")
  /\ escrow' = [escrow EXCEPT ![r] = TRUE]
  /\ assigned' = r
  /\ UNCHANGED <<life, shown, reception, incoming, mail, reply, fragment, told, rescue, authority>>

\* Off the screen of the source, or the source has changed meanwhile.
Remove(r) ==
  /\ move[r].at = "remove"
  /\ \/ /\ move' = [move EXCEPT ![r].at = "publish", ![r].removed = TRUE]
        /\ shown' = [shown EXCEPT ![move[r].from] = "no"]
     \/ "changed" \in Faults /\ Goes(r, "retire") /\ UNCHANGED shown
  /\ UNCHANGED <<life, reception, incoming, mail, reply, registry, transfer, authority>>

PublishGone(r) ==
  /\ move[r].at = "publish"
  /\ Published(move[r].from, FALSE) /\ Goes(r, "send")
  /\ UNCHANGED <<life, shown, reception, incoming, mail, reply, escrow, told, rescue,
                 transfer, authority>>

Sent(r, event) == mail' = [mail EXCEPT ![r] = IF Open(r) THEN Append(@, event) ELSE @]

Send(r) ==
  /\ move[r].at = "send"
  /\ Sent(r, "delivery") /\ Goes(r, "wait")
  /\ UNCHANGED <<life, shown, reception, incoming, reply, registry, transfer, authority>>

\* The receipt, or six seconds.
\* (Mutant: what it says is not looked at.)
ReceiptUnread(r) ==
  /\ move[r].at = "wait" /\ reply[r] # "none"
  /\ Goes(r, "receive")
  /\ reply' = [reply EXCEPT ![r] = "none"]
  /\ UNCHANGED <<life, shown, reception, incoming, mail, registry, transfer, authority>>
Receipt(r) ==
  /\ move[r].at = "wait" /\ reply[r] # "none"
  /\ Goes(r, IF reply[r] = "ok" THEN "receive" ELSE "revoke")
  /\ reply' = [reply EXCEPT ![r] = "none"]
  /\ UNCHANGED <<life, shown, reception, incoming, mail, registry, transfer, authority>>
ReceiptTimeout(r) ==
  /\ move[r].at = "wait"
  /\ Goes(r, "revoke")
  /\ reply' = [reply EXCEPT ![r] = "none"]
  /\ UNCHANGED <<life, shown, reception, incoming, mail, registry, transfer, authority>>

Receive(r) ==
  /\ move[r].at = "receive"
  /\ Advanced(r, "received") /\ Goes(r, "clean")
  /\ EscrowRemoved(r)
  /\ UNCHANGED <<life, shown, reception, incoming, mail, reply, fragment, told, rescue, authority>>

\* finalize_owner.
\* (Mutant: the sessions keep their owner.)
CleanOnly(r) ==
  /\ move[r].at = "clean"
  /\ Advanced(r, "cleaned") /\ Goes(r, "finalize")
  /\ UNCHANGED <<life, shown, reception, incoming, mail, reply, registry, authority>>
Clean(r) ==
  /\ move[r].at = "clean"
  /\ Advanced(r, "cleaned") /\ Goes(r, "finalize")
  /\ owner' = r
  /\ UNCHANGED <<life, shown, reception, incoming, mail, reply, registry,
                 epoch, grant, active, attaching>>

\* tearout_finalize and tearout_forget: the move is over.
Finalize(r) ==
  /\ move[r].at = "finalize"
  /\ Sent(r, "finalize")
  /\ transfer' = [transfer EXCEPT ![r].finalized = TRUE]
  /\ move' = [move EXCEPT ![r] = Ended(@)]
  /\ UNCHANGED <<life, shown, reception, incoming, reply, registry, authority>>

-----------------------------------------------------------------------------
(* Recovery.                                                                 *)

\* send takes the delivery back: authority first, then the receiver's page.
Revoke(r) ==
  /\ move[r].at = "revoke"
  /\ Revoked(r)
  /\ transfer' = [transfer EXCEPT ![r].revoked = TRUE]
  /\ Sent(r, "revoke") /\ Goes(r, "ack")
  /\ UNCHANGED <<life, shown, reception, incoming, reply, registry, epoch, attaching>>

\* The acknowledgement, or six seconds; both go on with the recovery.
Acknowledged(r) ==
  /\ move[r].at = "ack"
  /\ Goes(r, "retire")
  /\ UNCHANGED <<life, shown, reception, incoming, mail, reply, registry, transfer, authority>>

\* tearout_retire: destroyed with a close intent, so that nothing is rescued;
\* the phase is rolled back the first time only.
\* (Mutants: only what was taken off the screen; a stage nothing continues.)
AfterRetireRemoved(m) == IF m.prepared /\ m.removed /\ m.tries = 0 THEN "rollback" ELSE "ask"
AfterRetireDone(m) == IF m.prepared /\ m.tries = 0 THEN "rollback" ELSE "done"
AfterRetire(m) == IF m.prepared /\ m.tries = 0 THEN "rollback" ELSE "ask"
\* (Mutant: the receiver is left to itself.)
RetireSkipped(r) ==
  /\ move[r].at = "retire"
  /\ Goes(r, AfterRetire(move[r]))
  /\ UNCHANGED <<life, shown, reception, incoming, mail, reply, registry, transfer, authority>>
Retire(r) ==
  /\ move[r].at = "retire"
  /\ IF Open(r)
     THEN /\ Ends(r, "gone")
          /\ escrow' = [escrow EXCEPT ![r] = FALSE]
          /\ assigned' = IF assigned = r THEN Nobody ELSE assigned
          /\ move' = [MovesWithout(r) EXCEPT ![r].at = AfterRetire(move[r])]
     ELSE /\ Goes(r, AfterRetire(move[r]))
          /\ UNCHANGED <<life, shown, reception, incoming, mail, fragment, escrow, assigned, told>>
  /\ UNCHANGED <<reply, rescue, transfer, authority>>

Fails(r) == move' = [move EXCEPT ![r].at = "failed"]

RetireFails(r) ==
  /\ "destroy" \in Faults /\ move[r].at = "retire" /\ Open(r)
  /\ Fails(r)
  /\ UNCHANGED <<life, shown, reception, incoming, mail, reply, registry, transfer, authority>>

RollBack(r) ==
  /\ move[r].at = "rollback"
  /\ Revoked(r)
  /\ transfer' = [transfer EXCEPT ![r].revoked = TRUE, ![r].phase = "rolled_back"]
  /\ EscrowRemoved(r)
  /\ Goes(r, "ask")
  /\ UNCHANGED <<life, shown, reception, incoming, mail, reply, fragment, told, rescue,
                 epoch, attaching>>

\* confirm: what was never taken off the screen needs nothing.
Confirmed(r) ==
  /\ move[r].at = "ask" /\ ~ move[r].removed
  /\ move' = [move EXCEPT ![r] = Ended(@)]
  /\ UNCHANGED <<life, shown, reception, incoming, mail, reply, registry, transfer, authority>>

\* The contexts come, or are refused.
Ask(r) ==
  /\ move[r].at = "ask" /\ move[r].removed
  /\ IF MayAsk(move[r].from)
     THEN /\ Issue(move[r].from, Nobody)
          /\ owner' = move[r].from
          /\ move' = [move EXCEPT ![r].at = "restore", ![r].ctx = grant']
     ELSE Fails(r) /\ UNCHANGED <<owner, epoch, grant>>
  /\ UNCHANGED <<life, shown, reception, incoming, mail, reply, registry, transfer,
                 active, attaching>>

Restore(r) ==
  /\ move[r].at = "restore"
  /\ Goes(r, "ready")
  /\ shown' = [shown EXCEPT ![move[r].from] = IF @ = "no" THEN "own" ELSE @]
  /\ attaching' = attaching \cup {move[r].ctx}
  /\ UNCHANGED <<life, reception, incoming, mail, reply, registry, transfer,
                 owner, epoch, grant, active>>

\* Attached again and published, or five seconds.
Ready(r) ==
  /\ move[r].at = "attached"
  /\ Published(move[r].from, TRUE)
  /\ move' = [move EXCEPT ![r] = Ended(@)]
  /\ UNCHANGED <<life, shown, reception, incoming, mail, reply, escrow, told, rescue,
                 transfer, authority>>
ReadyTimeout(r) ==
  /\ move[r].at = "ready" /\ Fails(r)
  /\ UNCHANGED <<life, shown, reception, incoming, mail, reply, registry, transfer, authority>>

\* The user tries again.
Retry(r) ==
  /\ move[r].at = "failed" /\ ~ Busy(move[r].from)
  /\ \A x \in Receivers : move[x].tries < MaxRetries
  /\ move' = [move EXCEPT ![r].at = "retire", ![r].tries = @ + 1]
  /\ UNCHANGED <<life, shown, reception, incoming, mail, reply, registry, transfer, authority>>

-----------------------------------------------------------------------------
(* The receiver: receive, receiveRevoke, finalizeIncoming.                   *)

Taken(r, event) ==
  /\ Open(r) /\ mail[r] # <<>> /\ Head(mail[r]) = event
  /\ mail' = [mail EXCEPT ![r] = Tail(@)]

\* The receipt of a delivery nobody waits for is dropped.
Answers(r, receipt) ==
  reply' = [reply EXCEPT ![r] = IF move[r].at = "wait" THEN receipt ELSE @]

Doing(r, stage) == reception' = [reception EXCEPT ![r].at = stage]

Delivered(r) ==
  /\ Taken(r, "delivery")
  /\ incoming' = [incoming EXCEPT ![r] = TRUE]
  /\ reception' = [reception EXCEPT ![r] = [at |-> "asking", had |-> Shows(r), ctx |-> Void]]
  /\ UNCHANGED <<life, shown, move, reply, registry, transfer, authority>>

\* Contexts of the transfer; a revoked one gets none.
AskVia(r) ==
  /\ reception[r].at = "asking"
  /\ IF MayAskVia(r)
     THEN /\ Issue(r, r)
          /\ reception' = [reception EXCEPT ![r] = [@ EXCEPT !.at = "adopting", !.ctx = grant']]
     ELSE Doing(r, "failing") /\ UNCHANGED <<epoch, grant>>
  /\ UNCHANGED <<life, shown, move, incoming, mail, reply, registry, transfer,
                 owner, active, attaching>>

\* What the window showed before the delivery is refused.
AdoptDelivery(r) ==
  /\ reception[r].at = "adopting"
  /\ IF reception[r].had
     THEN Doing(r, "failing") /\ UNCHANGED <<shown, attaching>>
     ELSE /\ Doing(r, "attaching")
          /\ shown' = [shown EXCEPT ![r] = "own"]
          /\ attaching' = attaching \cup {reception[r].ctx}
  /\ UNCHANGED <<life, move, incoming, mail, reply, registry, transfer,
                 owner, epoch, grant, active>>

\* Attached: publish, then the receipt; or five seconds.
AttachedHere(r) ==
  /\ reception[r].at = "attached"
  /\ Doing(r, "done")
  /\ Published(r, TRUE)
  /\ Answers(r, "ok")
  /\ UNCHANGED <<life, shown, move, incoming, mail, escrow, told, rescue, transfer, authority>>
AttachTimeout(r) ==
  /\ reception[r].at \in {"attaching", "attached"}
  /\ Doing(r, "failing")
  /\ UNCHANGED <<life, shown, move, incoming, mail, reply, registry, transfer, authority>>

\* removeReceived: what was not there before the delivery.
TakenOff(r) == shown' = [shown EXCEPT ![r] = IF reception[r].had THEN @ ELSE "no"]

GiveUp(r) ==
  /\ reception[r].at = "failing"
  /\ Doing(r, "failed")
  /\ TakenOff(r)
  /\ Published(r, shown'[r] # "no")
  /\ Answers(r, "failed")
  /\ UNCHANGED <<life, move, incoming, mail, escrow, told, rescue, transfer, authority>>

\* receiveRevoke, with the wait for the delivery under way; a delivery that
\* is not provisional any more is left alone.
RevokeHere(r) ==
  /\ Taken(r, "revoke")
  /\ Revoked(r)
  /\ transfer' = [transfer EXCEPT ![r].revoked = TRUE]
  /\ IF incoming[r]
     THEN Doing(r, "revoked") /\ TakenOff(r) /\ Published(r, shown'[r] # "no")
     ELSE UNCHANGED <<reception, shown, fragment, assigned>>
  /\ incoming' = [incoming EXCEPT ![r] = FALSE]
  /\ UNCHANGED <<life, move, reply, escrow, told, rescue, epoch, attaching>>

FinalizedHere(r) ==
  /\ Taken(r, "finalize")
  /\ incoming' = [incoming EXCEPT ![r] = FALSE]
  /\ UNCHANGED <<life, shown, move, reception, reply, registry, transfer, authority>>

\* clearAbandonedIncoming: a settled delivery that failed, or whose source is
\* gone, is not waited for; what it brought stays unless it failed.
Abandon(r) ==
  /\ Open(r) /\ incoming[r]
  /\ \/ reception[r].at = "failed" /\ TakenOff(r)
     \/ reception[r].at = "done" /\ ~ Open(transfer[r].source) /\ UNCHANGED shown
  /\ incoming' = [incoming EXCEPT ![r] = FALSE]
  /\ UNCHANGED <<life, move, reception, mail, reply, registry, transfer, authority>>

-----------------------------------------------------------------------------
Moving(r) ==
  \/ Booted(r) \/ Prepare(r) \/ ShowPhase(r) \/ Commit(r) \/ Remove(r) \/ PublishGone(r)
  \/ Send(r) \/ Receipt(r) \/ ReceiptTimeout(r)
  \/ Receive(r) \/ Clean(r) \/ Finalize(r)
Recovering(r) ==
  \/ Revoke(r) \/ Acknowledged(r) \/ Retire(r) \/ RetireFails(r) \/ RollBack(r)
  \/ Confirmed(r) \/ Ask(r) \/ Restore(r) \/ Ready(r) \/ ReadyTimeout(r)
Receiving(r) ==
  \/ Delivered(r) \/ AskVia(r) \/ AdoptDelivery(r) \/ AttachedHere(r) \/ AttachTimeout(r)
  \/ GiveUp(r) \/ RevokeHere(r) \/ FinalizedHere(r) \/ Abandon(r)

Next ==
  \/ \E r \in Receivers :
       \/ \E s \in Windows : Start(s, r)
       \/ Moving(r) \/ Recovering(r) \/ Retry(r) \/ Receiving(r)
  \/ \E w \in Windows : Republish(w) \/ Crash(w) \/ Drain(w) \/ Mount(w)
  \/ \E c \in attaching : Attach(c)
  \/ Rescued

Spec == Init /\ [][Next]_vars

\* Every await of the source has a time limit, and the backend answers its
\* calls.  The receiver need not answer, and nobody has to start a move,
\* crash, or try again.
Fairness == \A r \in Receivers : WF_vars(Moving(r) \/ Recovering(r))

FairSpec == Spec /\ Fairness

-----------------------------------------------------------------------------
(* Once a transfer is revoked, nothing that was issued for it is accepted or *)
(* written to again: not a context the receiver asked for and has not used,  *)
(* not an attach call that was on its way.                                   *)
RevokedIsOut ==
  \A r \in Receivers : transfer[r].revoked => grant.via # r /\ active.via # r

\* The receiver has drained the escrow itself, and the source is about to give
\* the workspace up or to close it, or could not close it.
Unsettled(r) ==
  move[r].at \in {"remove", "retire"} \/ (move[r].at = "failed" /\ Open(r))

(* Two windows show the workspace only until the move into one of them is    *)
(* settled, and after a crash, whose rescue hands on what a move restores as *)
(* well: whatever else fails or is late, source and receiver never both keep *)
(* it.                                                                       *)
OneScreen ==
  \A v, w \in Windows :
    Shows(v) /\ Shows(w) /\ v # w
      => Crashed # {} \/ \E r \in {v, w} \cap Receivers : Unsettled(r)

(* Unless a source crashes, the workspace is always somewhere it can come    *)
(* back from: on a screen, in the queue of a window that lives, in a move    *)
(* that goes on, or in a failed one that the user may try again.             *)
NeverNowhere ==
  \/ \E w \in Windows : Open(w) /\ (Shows(w) \/ escrow[w])
  \/ \E r \in Receivers : move[r].removed \/ move[r].from \in Crashed

(* With no crash, a window that shows the workspace while every move rests   *)
(* is the owner of the sessions, and what they write goes to it.             *)
SettledIsAttached ==
  Crashed = {} /\ (\A r \in Receivers : move[r].at \in {"idle", "over"}) =>
    \A w \in Windows : Shows(w) /\ ~ incoming[w] => owner = w /\ active.to = w

(* A reservation ends, so that the sessions can move again, unless the       *)
(* source has crashed or the receiver could not be closed at first.          *)
ReservationEnds ==
  \A r \in Receivers :
    \/ Reserved(r) ~> ~ Reserved(r) \/ transfer[r].source \in Crashed
    \/ <>(move[r].at = "failed" /\ Open(r))

=============================================================================
