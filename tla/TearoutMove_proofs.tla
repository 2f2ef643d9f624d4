------------------------- MODULE TearoutMove_proofs -------------------------
(***************************************************************************)
(* Proofs about TearoutMove: its types, that a revoked transfer is out of  *)
(* every context, whatever is on its way, and that the workspace is never  *)
(* lost, whatever fails or crashes but the source of a move.               *)
(***************************************************************************)
EXTENDS TearoutMove, SequenceTheorems, TLAPS

LEMMA Numbers ==
  /\ Windows \subseteq Nat /\ Nobody \notin Windows
  /\ Receivers \subseteq Windows /\ Main \in Windows
  BY BoundsAssumption DEF Windows, Nobody, Receivers, Main

LEMMA VoidType == Void \in Context /\ Void.via = Nobody /\ First \in Context
  BY Numbers DEF Void, Context, First

LEMMA RestType == AtRest \in Move /\ NoReception \in Reception
  BY VoidType DEF AtRest, Move, Stages, NoReception, Reception

LEMMA IssueType ==
  ASSUME TypeOK, NEW w \in Windows \cup {Nobody}, NEW via \in Windows \cup {Nobody},
         Issue(w, via)
  PROVE  epoch' \in Nat /\ grant' \in Context /\ grant'.via = via
  BY DEF TypeOK, Issue, Context

LEMMA WithdrawnType ==
  ASSUME NEW c \in Context, NEW r \in Windows
  PROVE  Withdrawn(c, r) \in Context /\ Withdrawn(c, r).via # r
                                     /\ Withdrawn(c, r).via \in {c.via, Nobody}
  BY VoidType, Numbers DEF Withdrawn

LEMMA MoveType ==
  ASSUME NEW m \in Move
  PROVE  /\ \A stage \in Stages : [m EXCEPT !.at = stage] \in Move
         /\ Ended(m) \in Move
         /\ AfterRetire(m) \in Stages
  BY RestType DEF Move, Ended, AfterRetire, Stages

LEMMA MoveFieldsType ==
  ASSUME NEW m \in Move
  PROVE  /\ [m EXCEPT !.at = "show", !.prepared = TRUE] \in Move
         /\ [m EXCEPT !.at = "publish", !.removed = TRUE] \in Move
         /\ \A c \in Context : [m EXCEPT !.at = "restore", !.ctx = c] \in Move
         /\ [m EXCEPT !.at = "retire", !.tries = m.tries + 1] \in Move
<1>1. m.tries + 1 \in Nat
  BY DEF Move
<1>2. \A n \in Nat : [m EXCEPT !.at = "retire", !.tries = n] \in Move
  BY DEF Move, Stages
<1>3. /\ [m EXCEPT !.at = "show", !.prepared = TRUE] \in Move
      /\ [m EXCEPT !.at = "publish", !.removed = TRUE] \in Move
      /\ \A c \in Context : [m EXCEPT !.at = "restore", !.ctx = c] \in Move
  BY DEF Move, Stages
<1> QED
  BY <1>1, <1>2, <1>3

LEMMA ReceptionType ==
  ASSUME NEW e \in Reception
  PROVE  /\ \A c \in Context : [e EXCEPT !.at = "adopting", !.ctx = c] \in Reception
         /\ \A b \in BOOLEAN : [at |-> "asking", had |-> b, ctx |-> Void] \in Reception
         /\ e.ctx \in Context /\ e.had \in BOOLEAN
  BY VoidType DEF Reception

LEMMA MovesWithoutType ==
  ASSUME TypeOK, NEW w \in Windows
  PROVE  MovesWithout(w) \in [Receivers -> Move]
  BY MoveType DEF TypeOK, MovesWithout

LEMMA GoesType ==
  ASSUME TypeOK, NEW r \in Receivers, NEW stage \in Stages, Goes(r, stage)
  PROVE  move' \in [Receivers -> Move]
  BY MoveType DEF TypeOK, Goes

LEMMA PublishedType ==
  ASSUME TypeOK, NEW w \in Windows \cup {Nobody}, NEW has \in BOOLEAN, Published(w, has)
  PROVE  fragment' \in [Windows -> BOOLEAN] /\ assigned' \in Windows \cup {Nobody}
  BY DEF TypeOK, Published

LEMMA EscrowType ==
  ASSUME TypeOK, NEW r \in Windows, EscrowRemoved(r)
  PROVE  escrow' \in [Windows -> BOOLEAN] /\ assigned' \in Windows \cup {Nobody}
  BY DEF TypeOK, EscrowRemoved

LEMMA RevokedType ==
  ASSUME TypeOK, NEW r \in Receivers, Revoked(r)
  PROVE  owner' \in Windows \cup {Nobody} /\ grant' \in Context /\ active' \in Context
  BY WithdrawnType, Numbers DEF TypeOK, Revoked, Transfer

LEMMA TransferType ==
  ASSUME NEW e \in Transfer
  PROVE  /\ \A phase \in Phases : [e EXCEPT !.phase = phase] \in Transfer
         /\ [e EXCEPT !.revoked = TRUE] \in Transfer
         /\ [e EXCEPT !.finalized = TRUE] \in Transfer
         /\ [e EXCEPT !.revoked = TRUE, !.phase = "rolled_back"] \in Transfer
         /\ NoTransfer \in Transfer
         /\ \A s \in Windows \cup {Nobody} :
              [NoTransfer EXCEPT !.phase = "prepared", !.source = s] \in Transfer
  BY DEF Transfer, Phases, NoTransfer

LEMMA AdvancedType ==
  ASSUME TypeOK, NEW r \in Receivers, NEW phase \in Phases, Advanced(r, phase)
  PROVE  transfer' \in [Windows -> Transfer]
  BY TransferType DEF TypeOK, Advanced

LEMMA EmptyMail == <<>> \in Seq(Events)
  OBVIOUS

LEMMA MailType ==
  ASSUME TypeOK, NEW r \in Windows, NEW event \in Events,
         Sent(r, event) \/ Taken(r, event)
  PROVE  mail' \in [Windows -> Seq(Events)]
<1>1. \A q \in Seq(Events) : Append(q, event) \in Seq(Events)
  OBVIOUS
<1>2. \A q \in Seq(Events) : q # <<>> => Tail(q) \in Seq(Events)
  OBVIOUS
<1>3. CASE Sent(r, event)
  BY <1>1, <1>3 DEF Sent, TypeOK
<1>4. CASE Taken(r, event)
  <2>1. mail[r] \in Seq(Events) /\ mail[r] # <<>>
    BY <1>4 DEF Taken, TypeOK
  <2> QED
    BY <1>2, <1>4, <2>1 DEF Taken, TypeOK
<1> QED
  BY <1>3, <1>4

-----------------------------------------------------------------------------
(* Types.                                                                    *)

LEMMA TypeInit == Init => TypeOK
  BY Numbers, VoidType, RestType DEF Init, TypeOK, NoTransfer, Transfer, Phases

LEMMA TypeMoving ==
  ASSUME TypeOK, NEW r \in Receivers, Moving(r)
  PROVE  TypeOK'
<1> USE Numbers DEF registry, authority
<1>1. CASE Booted(r)
  BY <1>1, GoesType DEF Booted, TypeOK, Stages
<1>2. CASE Prepare(r)
  <2>1. CASE Open(r) /\ ~ AnyReserved /\ MayOwn(move[r].from)
    <3>1. move' = [move EXCEPT ![r] = [move[r] EXCEPT !.at = "show", !.prepared = TRUE]]
      BY <1>2, <2>1 DEF Prepare, TypeOK
    <3>2. move[r] \in Move /\ move[r].from \in Windows \cup {Nobody}
      BY DEF TypeOK, Move
    <3>3. transfer' = [transfer EXCEPT ![r] =
                        [NoTransfer EXCEPT !.phase = "prepared", !.source = move[r].from]]
      BY <1>2, <2>1 DEF Prepare
    <3>4. transfer' \in [Windows -> Transfer]
      BY <3>2, <3>3, TransferType DEF TypeOK
    <3>5. owner' \in Windows \cup {Nobody}
      BY <1>2, <2>1, <3>2 DEF Prepare
    <3>6. move' \in [Receivers -> Move]
      BY <3>1, <3>2, MoveFieldsType DEF TypeOK
    <3> QED
      BY <1>2, <3>4, <3>5, <3>6 DEF Prepare, TypeOK
  <2>2. CASE ~ (Open(r) /\ ~ AnyReserved /\ MayOwn(move[r].from))
    BY <1>2, <2>2, GoesType DEF Prepare, TypeOK, Stages
  <2> QED
    BY <2>1, <2>2
<1>3. CASE ShowPhase(r)
  BY <1>3, GoesType, AdvancedType DEF ShowPhase, TypeOK, Stages, Phases
<1>4. CASE Commit(r)
  BY <1>4, GoesType, AdvancedType DEF Commit, TypeOK, Stages, Phases
<1>5. CASE Remove(r)
  <2>1. CASE move' = [move EXCEPT ![r].at = "publish", ![r].removed = TRUE]
    <3>1. move' = [move EXCEPT ![r] = [move[r] EXCEPT !.at = "publish", !.removed = TRUE]]
      BY <2>1 DEF TypeOK
    <3> QED
      <4>1. move' \in [Receivers -> Move]
        BY <3>1, MoveFieldsType DEF TypeOK
      <4>2. shown' \in [Windows -> {"no", "own", "adopted"}]
        BY <1>5 DEF Remove, TypeOK
      <4> QED
        BY <1>5, <4>1, <4>2 DEF Remove, TypeOK
  <2>2. CASE Goes(r, "retire")
    BY <1>5, <2>2, GoesType DEF Remove, TypeOK, Stages
  <2> QED
    BY <1>5, <2>1, <2>2 DEF Remove
<1>6. CASE PublishGone(r)
  BY <1>6, GoesType DEF PublishGone, Published, TypeOK, Stages, Move
<1>7. CASE Send(r)
  BY <1>7, GoesType, MailType DEF Send, TypeOK, Stages, Events
<1>8. CASE Receipt(r)
  BY <1>8, GoesType DEF Receipt, TypeOK, Stages
<1>9. CASE ReceiptTimeout(r)
  BY <1>9, GoesType DEF ReceiptTimeout, TypeOK, Stages
<1>10. CASE Receive(r)
  BY <1>10, GoesType, EscrowType, AdvancedType DEF Receive, TypeOK, Stages, Phases
<1>11. CASE Clean(r)
  BY <1>11, GoesType, AdvancedType DEF Clean, TypeOK, Stages, Phases
<1>12. CASE Finalize(r)
  BY <1>12, MoveType, MailType, TransferType DEF Finalize, TypeOK, Events
<1> QED
  BY <1>1, <1>2, <1>3, <1>4, <1>5, <1>6, <1>7, <1>8, <1>9, <1>10, <1>11, <1>12 DEF Moving

LEMMA TypeRecovering ==
  ASSUME TypeOK, NEW r \in Receivers, Recovering(r) \/ Retry(r)
  PROVE  TypeOK'
<1> USE Numbers DEF registry, authority
<1>1. CASE Revoke(r)
  BY <1>1, GoesType, RevokedType, MailType, TransferType DEF Revoke, TypeOK, Stages, Events
<1>2. CASE Acknowledged(r)
  BY <1>2, GoesType DEF Acknowledged, TypeOK, Stages
<1>3. CASE Retire(r)
  <2>1. AfterRetire(move[r]) \in Stages
    BY MoveType DEF TypeOK
  <2>2. CASE Open(r)
    <3>1. move' \in [Receivers -> Move]
      <4>1. move' = [MovesWithout(r) EXCEPT ![r] = [@ EXCEPT !.at = AfterRetire(move[r])]]
        BY <1>3, <2>2 DEF Retire
      <4> QED
        BY <2>1, <4>1, MoveType, MovesWithoutType
    <3>2. Ends(r, "gone")
      BY <1>3, <2>2 DEF Retire
    <3>3. mail' \in [Windows -> Seq(Events)] /\ reception' \in [Windows -> Reception]
      BY <3>2, EmptyMail, RestType DEF Ends, TypeOK
    <3>4. escrow' \in [Windows -> BOOLEAN] /\ assigned' \in Windows \cup {Nobody}
      BY <1>3, <2>2 DEF Retire, TypeOK
    <3>5. UNCHANGED <<reply, rescue, transfer, authority>>
      BY <1>3 DEF Retire
    <3> QED
      BY <3>1, <3>2, <3>3, <3>4, <3>5 DEF Ends, TypeOK
  <2>3. CASE ~ Open(r)
    BY <1>3, <2>1, <2>3, GoesType DEF Retire, TypeOK
  <2> QED
    BY <2>2, <2>3
<1>4. CASE RetireFails(r)
  BY <1>4, MoveType DEF RetireFails, Fails, TypeOK, Stages
<1>5. CASE RollBack(r)
  BY <1>5, GoesType, RevokedType, EscrowType, TransferType DEF RollBack, TypeOK, Stages
<1>6. CASE Confirmed(r)
  BY <1>6, MoveType DEF Confirmed, TypeOK
<1>7. CASE Ask(r)
  <2>1. CASE MayAsk(move[r].from)
    <3>1. move[r].from \in Windows \cup {Nobody}
      BY DEF TypeOK, Move
    <3>2. epoch' \in Nat /\ grant' \in Context /\ owner' \in Windows \cup {Nobody}
      BY <1>7, <2>1, <3>1, IssueType DEF Ask
    <3>3. move' = [move EXCEPT ![r] = [move[r] EXCEPT !.at = "restore", !.ctx = grant']]
      BY <1>7, <2>1 DEF Ask, TypeOK
    <3> QED
      BY <1>7, <3>2, <3>3, MoveFieldsType DEF Ask, TypeOK
  <2>2. CASE ~ MayAsk(move[r].from)
    <3>1. move' \in [Receivers -> Move]
      <4>1. move' = [move EXCEPT ![r].at = "failed"]
        BY <1>7, <2>2 DEF Ask, Fails
      <4> QED
        BY <4>1, MoveType DEF TypeOK, Stages
    <3> QED
      BY <1>7, <2>2, <3>1 DEF Ask, TypeOK
  <2> QED
    BY <2>1, <2>2
<1>8. CASE Restore(r)
  BY <1>8, GoesType DEF Restore, TypeOK, Stages, Move
<1>9. CASE Ready(r)
  BY <1>9, MoveType DEF Ready, Published, TypeOK, Move
<1>10. CASE ReadyTimeout(r)
  BY <1>10, MoveType DEF ReadyTimeout, Fails, TypeOK, Stages
<1>11. CASE Retry(r)
  <2>1. move' = [move EXCEPT ![r] = [move[r] EXCEPT !.at = "retire", !.tries = move[r].tries + 1]]
    BY <1>11 DEF Retry, TypeOK
  <2>2. move' \in [Receivers -> Move]
    BY <2>1, MoveFieldsType DEF TypeOK
  <2> QED
    BY <1>11, <2>2 DEF Retry, TypeOK
<1> QED
  BY <1>1, <1>2, <1>3, <1>4, <1>5, <1>6, <1>7, <1>8, <1>9, <1>10, <1>11 DEF Recovering

LEMMA TakenOffType ==
  ASSUME TypeOK, NEW r \in Windows, TakenOff(r)
  PROVE  shown' \in [Windows -> {"no", "own", "adopted"}]
<1>1. CASE reception[r].had
  BY <1>1 DEF TakenOff, TypeOK
<1>2. CASE ~ reception[r].had
  BY <1>2 DEF TakenOff, TypeOK
<1> QED
  BY <1>1, <1>2

LEMMA DoingType ==
  ASSUME TypeOK, NEW r \in Windows,
         NEW stage \in {"none", "asking", "adopting", "attaching", "attached", "failing",
                        "failed", "done", "revoked"},
         Doing(r, stage)
  PROVE  reception' \in [Windows -> Reception]
  BY DEF TypeOK, Doing, Reception

LEMMA TypeReceiving ==
  ASSUME TypeOK, NEW r \in Receivers, Receiving(r)
  PROVE  TypeOK'
<1> USE Numbers DEF registry, authority
<1>1. CASE Delivered(r)
  BY <1>1, MailType, ReceptionType, RestType DEF Delivered, Shows, TypeOK, Events
<1>2. CASE AskVia(r)
  <2>1. CASE MayAskVia(r)
    <3>1. epoch' \in Nat /\ grant' \in Context
      BY <1>2, <2>1, IssueType DEF AskVia
    <3>2. reception' = [reception EXCEPT ![r] =
                         [reception[r] EXCEPT !.at = "adopting", !.ctx = grant']]
      BY <1>2, <2>1 DEF AskVia, TypeOK
    <3>3. reception' \in [Windows -> Reception]
      BY <3>1, <3>2, ReceptionType DEF TypeOK
    <3> QED
      BY <1>2, <3>1, <3>3 DEF AskVia, TypeOK
  <2>2. CASE ~ MayAskVia(r)
    BY <1>2, <2>2, DoingType DEF AskVia, TypeOK
  <2> QED
    BY <2>1, <2>2
<1>3. CASE AdoptDelivery(r)
  <2>1. reception' \in [Windows -> Reception]
    BY <1>3, DoingType DEF AdoptDelivery
  <2>2. attaching' \subseteq Context
    <3>1. attaching' \subseteq attaching \cup {reception[r].ctx}
      BY <1>3 DEF AdoptDelivery
    <3>2. reception[r] \in Reception
      BY DEF TypeOK
    <3>3. reception[r].ctx \in Context
      BY <3>2, ReceptionType
    <3> QED
      BY <3>1, <3>3 DEF TypeOK
  <2> QED
    BY <1>3, <2>1, <2>2 DEF AdoptDelivery, TypeOK
<1>4. CASE AttachedHere(r)
  BY <1>4, DoingType, PublishedType DEF AttachedHere, Answers, TypeOK
<1>5. CASE AttachTimeout(r)
  BY <1>5, DoingType DEF AttachTimeout, TypeOK
<1>6. CASE GiveUp(r)
  BY <1>6, DoingType, TakenOffType DEF GiveUp, Published, Answers, TypeOK
<1>7. CASE RevokeHere(r)
  <2>1. transfer' \in [Windows -> Transfer] /\ mail' \in [Windows -> Seq(Events)]
    BY <1>7, TransferType, MailType DEF RevokeHere, TypeOK, Events
  <2>2. reception' \in [Windows -> Reception] /\ shown' \in [Windows -> {"no", "own", "adopted"}]
    BY <1>7, DoingType, TakenOffType DEF RevokeHere, TypeOK
  <2>3. fragment' \in [Windows -> BOOLEAN] /\ assigned' \in Windows \cup {Nobody}
    BY <1>7 DEF RevokeHere, Published, TypeOK
  <2> QED
    BY <1>7, <2>1, <2>2, <2>3, RevokedType DEF RevokeHere, TypeOK
<1>8. CASE FinalizedHere(r)
  BY <1>8, MailType DEF FinalizedHere, TypeOK, Events
<1>9. CASE Abandon(r)
  BY <1>9, TakenOffType DEF Abandon, TypeOK
<1> QED
  BY <1>1, <1>2, <1>3, <1>4, <1>5, <1>6, <1>7, <1>8, <1>9 DEF Receiving

LEMMA TypeWindows ==
  ASSUME TypeOK, NEW w \in Windows,
         Republish(w) \/ Crash(w) \/ Drain(w) \/ Mount(w)
                      \/ \E r \in Receivers : Start(w, r)
  PROVE  TypeOK'
<1> USE Numbers DEF registry, authority, windowVars
<1>1. CASE Republish(w)
  BY <1>1, PublishedType DEF Republish, Shows, TypeOK
<1>2. CASE Crash(w)
  <2>1. move' \in [Receivers -> Move]
    BY <1>2, MovesWithoutType DEF Crash
  <2>2. PICK t \in RescueTargets(w) :
          /\ escrow' = [x \in Windows |->
               IF x = w THEN FALSE ELSE escrow[x] \/ (x = t /\ (fragment[w] \/ escrow[w]))]
          /\ assigned' = IF fragment[w] \/ escrow[w] THEN t
                         ELSE IF assigned = w THEN Nobody ELSE assigned
          /\ rescue' = IF fragment[w] \/ escrow[w] THEN t ELSE Nobody
    BY <1>2 DEF Crash
  <2>3. t \in Windows
    BY DEF RescueTargets
  <2>4. assigned' \in Windows \cup {Nobody} /\ rescue' \in Windows \cup {Nobody}
    BY <2>2, <2>3 DEF TypeOK
  <2>5. escrow' \in [Windows -> BOOLEAN]
    BY <2>2 DEF TypeOK
  <2>6. mail' \in [Windows -> Seq(Events)]
    BY <1>2, EmptyMail DEF Crash, Ends, TypeOK
  <2> QED
    BY <1>2, <2>1, <2>4, <2>5, <2>6, RestType DEF Crash, Ends, TypeOK
<1>3. CASE Drain(w)
  BY <1>3 DEF Drain, TypeOK
<1>4. CASE Mount(w)
  BY <1>4, IssueType DEF Mount, TypeOK
<1>5. ASSUME NEW r \in Receivers, Start(w, r) PROVE TypeOK'
  BY <1>5, RestType DEF Start, TypeOK, Move, Stages
<1> QED
  BY <1>1, <1>2, <1>3, <1>4, <1>5

LEMMA TypeAttach ==
  ASSUME TypeOK, NEW c \in attaching, Attach(c)
  PROVE  TypeOK'
<1>1. \A m \in Move : [m EXCEPT !.at = "attached"] \in Move
  BY DEF Move, Stages
<1>2. \A e \in Reception : [e EXCEPT !.at = "attached"] \in Reception
  BY DEF Reception
<1> QED
  BY <1>1, <1>2 DEF Attach, TypeOK, registry

LEMMA TypeRescued == TypeOK /\ Rescued => TypeOK'
  BY VoidType DEF TypeOK, Rescued, Open, windowVars

LEMMA TypeNext == TypeOK /\ [Next]_vars => TypeOK'
<1>1. CASE UNCHANGED vars
  BY <1>1 DEF TypeOK, vars
<1>2. CASE Next
  BY <1>2, TypeMoving, TypeRecovering, TypeReceiving, TypeWindows, TypeAttach, TypeRescued DEF Next
<1> QED
  BY <1>1, <1>2

(* Windows, transfers and authority keep their types, for any number of      *)
(* windows, crashes and retries.                                             *)
THEOREM Typed == Spec => []TypeOK
  BY TypeInit, TypeNext, PTL DEF Spec

-----------------------------------------------------------------------------
(* Revoked transfers.  A context is issued for a transfer only while it is   *)
(* not revoked, an attach call installs only the context issued last, and    *)
(* the revocation withdraws both under the lock of the transfers.            *)

\* A step that issues nothing, installs nothing and revokes nothing.
Quiet ==
  /\ \A r \in Receivers : transfer'[r].revoked => transfer[r].revoked
  /\ \A r \in Receivers : grant'.via = r => grant.via = r
  /\ \A r \in Receivers : active'.via = r => active.via = r \/ grant.via = r

LEMMA QuietKeeps == RevokedIsOut /\ Quiet => RevokedIsOut'
  BY DEF RevokedIsOut, Quiet

LEMMA RevokedOut ==
  ASSUME TypeOK, RevokedIsOut, NEW r \in Receivers, Revoked(r),
         transfer' = [transfer EXCEPT ![r].revoked = TRUE]
           \/ transfer' = [transfer EXCEPT ![r].revoked = TRUE, ![r].phase = "rolled_back"]
  PROVE  RevokedIsOut'
<1> SUFFICES ASSUME NEW x \in Receivers, transfer'[x].revoked
             PROVE  grant'.via # x /\ active'.via # x
  BY DEF RevokedIsOut
<1>1. x = r \/ transfer[x].revoked
  BY Numbers DEF TypeOK, Transfer
<1>2. CASE transfer[r].revoked
  BY <1>1, <1>2 DEF Revoked, RevokedIsOut
<1>3. CASE ~ transfer[r].revoked
  <2>1. grant' = Withdrawn(grant, r) /\ active' = Withdrawn(active, r)
    BY <1>3 DEF Revoked
  <2>2. grant \in Context /\ active \in Context
    BY DEF TypeOK
  <2> QED
    BY <1>1, <2>1, <2>2, WithdrawnType, Numbers DEF RevokedIsOut
<1> QED
  BY <1>2, <1>3

LEMMA OutMoving ==
  ASSUME TypeOK, RevokedIsOut, NEW r \in Receivers, Moving(r)
  PROVE  RevokedIsOut'
<1> SUFFICES Quiet
  BY QuietKeeps
<1>1. CASE Prepare(r)
  <2>1. CASE UNCHANGED transfer
    BY <1>1, <2>1 DEF Prepare, Quiet
  <2>2. CASE transfer' = [transfer EXCEPT ![r] = [NoTransfer EXCEPT !.phase = "prepared",
                                                                   !.source = move[r].from]]
    <3>1. ~ transfer'[r].revoked
      BY <2>2, Numbers DEF NoTransfer, TypeOK
    <3>2. \A x \in Receivers \ {r} : transfer'[x] = transfer[x]
      BY <2>2, Numbers DEF TypeOK
    <3> QED
      BY <1>1, <3>1, <3>2 DEF Prepare, Quiet
  <2> QED
    BY <1>1, <2>1, <2>2 DEF Prepare
<1>2. CASE ShowPhase(r) \/ Commit(r) \/ Receive(r) \/ Clean(r)
  <2>1. PICK phase \in Phases : Advanced(r, phase)
    BY <1>2 DEF ShowPhase, Commit, Receive, Clean, Phases
  <2>2. \A x \in Receivers : transfer'[x].revoked = transfer[x].revoked
    BY <2>1, Numbers DEF Advanced, TypeOK, Transfer
  <2>3. UNCHANGED <<grant, active>>
    BY <1>2 DEF ShowPhase, Commit, Receive, Clean, authority
  <2> QED
    BY <2>2, <2>3 DEF Quiet
<1>3. CASE Finalize(r)
  BY <1>3, Numbers DEF Finalize, Quiet, TypeOK, Transfer, authority
<1>4. CASE UNCHANGED <<transfer, grant, active>>
  BY <1>4 DEF Quiet
<1> QED
  BY <1>1, <1>2, <1>3, <1>4
  DEF Moving, Booted, Remove, PublishGone, Send, Receipt, ReceiptTimeout, authority

LEMMA OutRecovering ==
  ASSUME TypeOK, RevokedIsOut, NEW r \in Receivers, Recovering(r) \/ Retry(r)
  PROVE  RevokedIsOut'
<1>1. CASE Revoke(r)
  BY <1>1, RevokedOut DEF Revoke
<1>2. CASE RollBack(r)
  BY <1>2, RevokedOut DEF RollBack
<1>3. CASE Ask(r)
  <2>1. CASE MayAsk(move[r].from)
    BY <1>3, <2>1, Numbers, QuietKeeps DEF Ask, Issue, Quiet
  <2>2. CASE ~ MayAsk(move[r].from)
    BY <1>3, <2>2, QuietKeeps DEF Ask, Quiet
  <2> QED
    BY <2>1, <2>2
<1>4. CASE UNCHANGED <<transfer, grant, active>>
  BY <1>4, QuietKeeps DEF Quiet
<1> QED
  BY <1>1, <1>2, <1>3, <1>4
  DEF Recovering, Acknowledged, Retire, RetireFails, Confirmed, Restore, Ready, ReadyTimeout,
      Retry, authority

LEMMA OutReceiving ==
  ASSUME TypeOK, RevokedIsOut, NEW r \in Receivers, Receiving(r)
  PROVE  RevokedIsOut'
<1>1. CASE AskVia(r)
  <2>1. CASE MayAskVia(r)
    <3>1. ~ transfer[r].revoked /\ grant'.via = r /\ UNCHANGED <<transfer, active>>
      BY <1>1, <2>1 DEF AskVia, MayAskVia, Issue
    <3> QED
      BY <3>1 DEF RevokedIsOut
  <2>2. CASE ~ MayAskVia(r)
    BY <1>1, <2>2, QuietKeeps DEF AskVia, Quiet
  <2> QED
    BY <2>1, <2>2
<1>2. CASE RevokeHere(r)
  BY <1>2, RevokedOut DEF RevokeHere
<1>3. CASE UNCHANGED <<transfer, grant, active>>
  BY <1>3, QuietKeeps DEF Quiet
<1> QED
  BY <1>1, <1>2, <1>3
  DEF Receiving, Delivered, AdoptDelivery, AttachedHere, AttachTimeout, GiveUp, FinalizedHere,
      Abandon, authority

LEMMA OutWindows ==
  ASSUME TypeOK, RevokedIsOut, NEW w \in Windows,
         Republish(w) \/ Crash(w) \/ Drain(w) \/ Mount(w)
                      \/ \E r \in Receivers : Start(w, r)
  PROVE  RevokedIsOut'
<1> SUFFICES Quiet
  BY QuietKeeps
<1>1. CASE Mount(w)
  BY <1>1, Numbers DEF Mount, Issue, Quiet
<1>2. CASE UNCHANGED <<transfer, grant, active>>
  BY <1>2 DEF Quiet
<1> QED
  BY <1>1, <1>2 DEF Republish, Crash, Drain, Start, authority

LEMMA OutNext == TypeOK /\ RevokedIsOut /\ [Next]_vars => RevokedIsOut'
<1> SUFFICES ASSUME TypeOK, RevokedIsOut, [Next]_vars PROVE RevokedIsOut'
  OBVIOUS
<1>1. ASSUME NEW c \in attaching, Attach(c) PROVE Quiet
  BY <1>1 DEF Attach, Valid, Quiet
<1>2. CASE Rescued
  <2>1. grant' = grant \/ grant' = Void
    BY <1>2 DEF Rescued
  <2> QED
    BY <1>2, <2>1, VoidType, Numbers, QuietKeeps DEF Rescued, Quiet
<1>3. CASE UNCHANGED vars
  BY <1>3, QuietKeeps DEF Quiet, vars
<1> QED
  BY <1>1, <1>2, <1>3, OutMoving, OutRecovering, OutReceiving, OutWindows, QuietKeeps DEF Next

(* Once a transfer is revoked, no context issued for it is valid or written  *)
(* to again, however asks, attach calls, revocations and rescues of any      *)
(* number of windows overlap.                                                *)
THEOREM RevokedStaysOut == Spec => []RevokedIsOut
<1>1. Init => RevokedIsOut
  BY Numbers DEF Init, RevokedIsOut, NoTransfer
<1> QED
  BY <1>1, TypeInit, TypeNext, OutNext, PTL DEF Spec

-----------------------------------------------------------------------------
(* Words for the stages of a move, and what single steps do.                 *)

Active(r) == move[r].at \notin {"idle", "over"}
Going(r) == ~ Rests(move[r])

Early == {"opening", "prepare", "show", "commit", "remove", "publish", "send", "wait",
          "receive", "clean", "finalize", "revoke", "ack"}
Late == {"rollback", "ask", "restore", "ready", "attached"}
Away == {"publish", "send", "wait", "receive", "clean", "finalize", "revoke", "ack",
         "restore", "ready", "attached"}

\* What is on its way to a window; a delivery never comes after anything else.
InMail(w, event) == \E i \in 1..Len(mail[w]) : mail[w][i] = event
DeliveryFirst(w) == \A i \in 1..Len(mail[w]) : mail[w][i] = "delivery" => i = 1

\* A window is the source of one move, and the sessions are reserved once.
OneMove == \A r, q \in Receivers : Going(r) /\ Going(q) /\ move[r].from = move[q].from => r = q
OneReserved == \A r, q \in Receivers : Reserved(r) /\ Reserved(q) => r = q

LEMMA SameMail ==
  ASSUME NEW w \in Windows, mail'[w] = mail[w]
  PROVE  /\ DeliveryFirst(w)' <=> DeliveryFirst(w)
         /\ \A e : InMail(w, e)' <=> InMail(w, e)
  BY DEF DeliveryFirst, InMail

LEMMA NoMail ==
  ASSUME NEW w \in Windows, mail[w] = <<>>
  PROVE  DeliveryFirst(w) /\ \A e : ~ InMail(w, e)
<1>1. Len(mail[w]) = 0
  OBVIOUS
<1> QED
  BY <1>1 DEF DeliveryFirst, InMail

LEMMA NoMailNext ==
  ASSUME NEW w \in Windows, mail'[w] = <<>>
  PROVE  DeliveryFirst(w)' /\ \A e : ~ InMail(w, e)'
<1>1. Len(mail'[w]) = 0
  OBVIOUS
<1> QED
  BY <1>1 DEF DeliveryFirst, InMail

LEMMA TakenMail ==
  ASSUME TypeOK, NEW r \in Windows, NEW event, Taken(r, event), DeliveryFirst(r)
  PROVE  /\ Open(r) /\ InMail(r, event) /\ ~ InMail(r, "delivery")' /\ DeliveryFirst(r)'
         /\ \A e : InMail(r, e)' => InMail(r, e)
         /\ \A w \in Windows \ {r} : mail'[w] = mail[w]
<1>1. mail[r] \in Seq(Events) /\ mail[r] # <<>>
  BY DEF TypeOK, Taken
<1>2. mail'[r] = Tail(mail[r]) /\ \A w \in Windows \ {r} : mail'[w] = mail[w]
  BY DEF TypeOK, Taken
<1>3. Len(mail[r]) \in Nat /\ Len(mail[r]) >= 1
  BY <1>1, EmptySeq
<1>4. mail[r][1] = event
  BY <1>1 DEF Taken
<1>5. Len(mail'[r]) = Len(mail[r]) - 1 /\ \A i \in 1..Len(mail'[r]) : mail'[r][i] = mail[r][i + 1]
  BY <1>1, <1>2, <1>3
<1>6. \A i \in 1..Len(mail'[r]) : i + 1 \in 1..Len(mail[r]) /\ i + 1 # 1
  BY <1>3, <1>5
<1>7. InMail(r, event)
  BY <1>3, <1>4 DEF InMail
<1>8. \A e : InMail(r, e)' => InMail(r, e)
  BY <1>5, <1>6 DEF InMail
<1>9. ~ InMail(r, "delivery")' /\ DeliveryFirst(r)'
  BY <1>5, <1>6 DEF InMail, DeliveryFirst
<1> QED
  BY <1>2, <1>7, <1>8, <1>9 DEF Taken

LEMMA SentMail ==
  ASSUME TypeOK, NEW r \in Windows, NEW event \in Events, Sent(r, event)
  PROVE  /\ \A w \in Windows \ {r} : mail'[w] = mail[w]
         /\ ~ Open(r) => mail'[r] = mail[r]
         /\ \A e : InMail(r, e)' => InMail(r, e) \/ e = event
         /\ DeliveryFirst(r) /\ (event # "delivery" \/ mail[r] = <<>>) => DeliveryFirst(r)'
<1>1. mail[r] \in Seq(Events)
  BY DEF TypeOK
<1>2. CASE ~ Open(r)
  <2>1. mail' = mail
    BY <1>2 DEF Sent, TypeOK
  <2> QED
    BY <2>1, SameMail
<1>3. CASE Open(r)
  <2>1. mail'[r] = Append(mail[r], event) /\ \A w \in Windows \ {r} : mail'[w] = mail[w]
    BY <1>3 DEF Sent, TypeOK
  <2>2. /\ Len(mail[r]) \in Nat /\ Len(mail'[r]) = Len(mail[r]) + 1
        /\ mail'[r][Len(mail[r]) + 1] = event
        /\ \A i \in 1..Len(mail[r]) : mail'[r][i] = mail[r][i]
    BY <1>1, <2>1, AppendProperties
  <2>3. mail[r] = <<>> => Len(mail[r]) = 0
    OBVIOUS
  <2> QED
    BY <1>3, <2>1, <2>2, <2>3 DEF InMail, DeliveryFirst
<1> QED
  BY <1>2, <1>3

LEMMA GoesTo ==
  ASSUME TypeOK, NEW r \in Receivers, NEW stage, Goes(r, stage)
  PROVE  /\ move'[r].at = stage
         /\ move'[r].from = move[r].from /\ move'[r].prepared = move[r].prepared
         /\ move'[r].removed = move[r].removed /\ move'[r].tries = move[r].tries
         /\ \A q \in Receivers \ {r} : move'[q] = move[q]
  BY DEF TypeOK, Goes, Move

LEMMA AdvancedTo ==
  ASSUME TypeOK, NEW r \in Windows, NEW phase, Advanced(r, phase)
  PROVE  /\ transfer'[r].phase = phase /\ transfer'[r].source = transfer[r].source
         /\ transfer'[r].revoked = transfer[r].revoked
         /\ transfer'[r].finalized = transfer[r].finalized
         /\ \A w \in Windows \ {r} : transfer'[w] = transfer[w]
  BY DEF TypeOK, Advanced, Transfer

LEMMA RemovedTo ==
  ASSUME TypeOK, NEW r \in Receivers, Remove(r), move[r].from \in Windows
  PROVE  /\ \/ /\ move'[r].at = "publish" /\ move'[r].removed
               /\ shown'[move[r].from] = "no"
            \/ move'[r].at = "retire" /\ move'[r].removed = move[r].removed
         /\ move'[r].from = move[r].from /\ move'[r].prepared = move[r].prepared
         /\ move'[r].tries = move[r].tries
         /\ \A q \in Receivers \ {r} : move'[q] = move[q]
         /\ \A w \in Windows : shown'[w] \in {shown[w], "no"}
<1>1. CASE Goes(r, "retire") /\ UNCHANGED shown
  BY <1>1, GoesTo
<1>2. CASE /\ move' = [move EXCEPT ![r].at = "publish", ![r].removed = TRUE]
           /\ shown' = [shown EXCEPT ![move[r].from] = "no"]
  <2>1. move'[r] = [move[r] EXCEPT !.at = "publish", !.removed = TRUE]
    BY <1>2 DEF TypeOK
  <2>2. move[r] \in Move
    BY DEF TypeOK
  <2> QED
    BY <1>2, <2>1, <2>2 DEF TypeOK, Move
<1> QED
  BY <1>1, <1>2 DEF Remove

LEMMA EndedTo ==
  ASSUME TypeOK, NEW r \in Receivers, move' = [move EXCEPT ![r] = Ended(@)]
  PROVE  /\ move'[r].at = "over" /\ move'[r].from = move[r].from
         /\ ~ move'[r].prepared /\ ~ move'[r].removed /\ move'[r].tries = 0
         /\ \A q \in Receivers \ {r} : move'[q] = move[q]
  BY DEF TypeOK, Ended, AtRest

LEMMA MarkedRevoked ==
  ASSUME TypeOK, NEW r \in Receivers, transfer' = [transfer EXCEPT ![r].revoked = TRUE]
  PROVE  /\ \A w \in Windows \ {r} : transfer'[w] = transfer[w]
         /\ transfer'[r].revoked /\ transfer'[r].source = transfer[r].source
         /\ transfer'[r].finalized = transfer[r].finalized
         /\ transfer'[r].phase = transfer[r].phase
<1>1. transfer'[r] = [transfer[r] EXCEPT !.revoked = TRUE]
  BY Numbers DEF TypeOK
<1>2. transfer[r] \in Transfer /\ \A w \in Windows \ {r} : transfer'[w] = transfer[w]
  BY Numbers DEF TypeOK
<1> QED
  BY <1>1, <1>2 DEF Transfer

LEMMA MarkedRolledBack ==
  ASSUME TypeOK, NEW r \in Receivers, RollBack(r)
  PROVE  /\ \A w \in Windows \ {r} : transfer'[w] = transfer[w]
         /\ transfer'[r].revoked /\ transfer'[r].source = transfer[r].source
         /\ transfer'[r].finalized = transfer[r].finalized
         /\ transfer'[r].phase = "rolled_back"
<1>1. transfer'[r] = [transfer[r] EXCEPT !.revoked = TRUE, !.phase = "rolled_back"]
  BY Numbers DEF TypeOK, RollBack
<1>2. transfer[r] \in Transfer /\ \A w \in Windows \ {r} : transfer'[w] = transfer[w]
  BY Numbers DEF TypeOK, RollBack
<1> QED
  BY <1>1, <1>2 DEF Transfer

LEMMA RestoreTo ==
  ASSUME TypeOK, NEW r \in Receivers, Ask(r), MayAsk(move[r].from)
  PROVE  /\ move'[r].at = "restore"
         /\ move'[r].from = move[r].from /\ move'[r].prepared = move[r].prepared
         /\ move'[r].removed = move[r].removed /\ move'[r].tries = move[r].tries
         /\ \A q \in Receivers \ {r} : move'[q] = move[q]
<1>1. move'[r] = [move[r] EXCEPT !.at = "restore", !.ctx = grant']
  BY DEF TypeOK, Ask
<1>2. move[r] \in Move /\ \A q \in Receivers \ {r} : move'[q] = move[q]
  BY DEF TypeOK, Ask
<1> QED
  BY <1>1, <1>2 DEF Move

LEMMA RetryTo ==
  ASSUME TypeOK, NEW r \in Receivers, Retry(r)
  PROVE  /\ move'[r].at = "retire" /\ move'[r].tries > 0
         /\ move'[r].from = move[r].from /\ move'[r].prepared = move[r].prepared
         /\ move'[r].removed = move[r].removed
         /\ \A q \in Receivers \ {r} : move'[q] = move[q]
<1>1. move'[r] = [move[r] EXCEPT !.at = "retire", !.tries = move[r].tries + 1]
  BY DEF TypeOK, Retry
<1>2. move[r] \in Move /\ \A q \in Receivers \ {r} : move'[q] = move[q]
  BY DEF TypeOK, Retry
<1>3. move[r].tries + 1 > 0
  BY <1>2 DEF Move
<1>4. \A n : [move[r] EXCEPT !.at = "retire", !.tries = n].tries = n
  BY <1>2 DEF Move
<1>5. move'[r].tries > 0
  BY <1>1, <1>3, <1>4
<1> QED
  BY <1>1, <1>2, <1>5 DEF Move

LEMMA AnswersTo ==
  ASSUME TypeOK, NEW r \in Windows, NEW receipt, Answers(r, receipt)
  PROVE  /\ \A w \in Windows \ {r} : reply'[w] = reply[w]
         /\ reply'[r] = IF move[r].at = "wait" THEN receipt ELSE reply[r]
  BY DEF TypeOK, Answers

LEMMA TakenOffTo ==
  ASSUME TypeOK, NEW r \in Windows, TakenOff(r) \/ UNCHANGED shown
  PROVE  \A w \in Windows : Shows(w)' => Shows(w)
  BY DEF TypeOK, TakenOff, Shows

LEMMA MarkedFinalized ==
  ASSUME TypeOK, NEW r \in Receivers, Finalize(r)
  PROVE  /\ \A w \in Windows \ {r} : transfer'[w] = transfer[w]
         /\ transfer'[r].finalized /\ transfer'[r].source = transfer[r].source
         /\ transfer'[r].revoked = transfer[r].revoked
         /\ transfer'[r].phase = transfer[r].phase
<1>1. transfer'[r] = [transfer[r] EXCEPT !.finalized = TRUE]
  BY Numbers DEF TypeOK, Finalize
<1>2. transfer[r] \in Transfer /\ \A w \in Windows \ {r} : transfer'[w] = transfer[w]
  BY Numbers DEF TypeOK, Finalize
<1> QED
  BY <1>1, <1>2 DEF Transfer

LEMMA DoingTo ==
  ASSUME TypeOK, NEW r \in Windows, NEW stage, Doing(r, stage)
  PROVE  /\ reception'[r].at = stage /\ reception'[r].had = reception[r].had
         /\ \A w \in Windows \ {r} : reception'[w] = reception[w]
  BY DEF TypeOK, Doing, Reception

LEMMA AskedVia ==
  ASSUME TypeOK, NEW r \in Windows, AskVia(r)
  PROVE  /\ reception'[r].at \in {"adopting", "failing"} /\ reception'[r].had = reception[r].had
         /\ \A w \in Windows \ {r} : reception'[w] = reception[w]
<1>1. CASE Doing(r, "failing")
  BY <1>1, DoingTo
<1>2. CASE reception' = [reception EXCEPT ![r] = [@ EXCEPT !.at = "adopting", !.ctx = grant']]
  <2>1. reception'[r] = [reception[r] EXCEPT !.at = "adopting", !.ctx = grant']
    BY <1>2 DEF TypeOK
  <2>2. reception[r] \in Reception
    BY DEF TypeOK
  <2> QED
    BY <1>2, <2>1, <2>2 DEF TypeOK, Reception
<1> QED
  BY <1>1, <1>2 DEF AskVia

LEMMA PreparedTo ==
  ASSUME TypeOK, NEW r \in Receivers, Prepare(r), ~ Goes(r, "retire")
  PROVE  /\ Open(r) /\ ~ AnyReserved /\ MayOwn(move[r].from)
         /\ owner' = move[r].from
         /\ move'[r].at = "show" /\ move'[r].prepared
         /\ move'[r].from = move[r].from /\ move'[r].removed = move[r].removed
         /\ \A q \in Receivers \ {r} : move'[q] = move[q]
         /\ transfer'[r].phase = "prepared" /\ transfer'[r].source = move[r].from
         /\ ~ transfer'[r].revoked /\ ~ transfer'[r].finalized
         /\ \A w \in Windows \ {r} : transfer'[w] = transfer[w]
<1> USE Numbers
<1>1. /\ Open(r) /\ ~ AnyReserved /\ MayOwn(move[r].from) /\ owner' = move[r].from
      /\ move' = [move EXCEPT ![r].at = "show", ![r].prepared = TRUE]
      /\ transfer' = [transfer EXCEPT ![r] = [NoTransfer EXCEPT !.phase = "prepared",
                                                               !.source = move[r].from]]
  BY DEF Prepare
<1>2. /\ move'[r] = [move[r] EXCEPT !.at = "show", !.prepared = TRUE] /\ move[r] \in Move
      /\ \A q \in Receivers \ {r} : move'[q] = move[q]
  BY <1>1 DEF TypeOK
<1>3. /\ transfer'[r] = [NoTransfer EXCEPT !.phase = "prepared", !.source = move[r].from]
      /\ \A w \in Windows \ {r} : transfer'[w] = transfer[w]
  BY <1>1 DEF TypeOK
<1>4. /\ move'[r].at = "show" /\ move'[r].prepared
      /\ move'[r].from = move[r].from /\ move'[r].removed = move[r].removed
  BY <1>2 DEF Move
<1>5. /\ transfer'[r].phase = "prepared" /\ transfer'[r].source = move[r].from
      /\ ~ transfer'[r].revoked /\ ~ transfer'[r].finalized
  BY <1>3 DEF NoTransfer
<1> QED
  BY <1>1, <1>2, <1>3, <1>4, <1>5

LEMMA WithoutTo ==
  ASSUME TypeOK, NEW r \in Receivers, Retire(r), Open(r), move[r].from # r
  PROVE  /\ move'[r].at = AfterRetire(move[r]) /\ move'[r].from = move[r].from
         /\ move'[r].prepared = move[r].prepared /\ move'[r].removed = move[r].removed
         /\ move'[r].tries = move[r].tries
         /\ \A q \in Receivers \ {r} :
              IF move[q].from = r
              THEN /\ move'[q].at = "over" /\ move'[q].from = r
                   /\ ~ move'[q].prepared /\ ~ move'[q].removed
              ELSE move'[q] = move[q]
<1>1. move' = [MovesWithout(r) EXCEPT ![r].at = AfterRetire(move[r])]
  BY DEF Retire
<1>2. move'[r] = [move[r] EXCEPT !.at = AfterRetire(move[r])] /\ move[r] \in Move
  BY <1>1 DEF MovesWithout, TypeOK
<1>3. \A q \in Receivers \ {r} :
        move'[q] = IF move[q].from = r THEN Ended(move[q]) ELSE move[q]
  BY <1>1 DEF MovesWithout
<1>4. \A q \in Receivers :
        /\ Ended(move[q]).at = "over" /\ Ended(move[q]).from = move[q].from
        /\ ~ Ended(move[q]).prepared /\ ~ Ended(move[q]).removed
  BY DEF Ended, AtRest
<1>5. /\ move'[r].at = AfterRetire(move[r]) /\ move'[r].from = move[r].from
      /\ move'[r].prepared = move[r].prepared /\ move'[r].removed = move[r].removed
      /\ move'[r].tries = move[r].tries
  BY <1>2 DEF Move
<1> QED
  BY <1>3, <1>4, <1>5

LEMMA CrashesStay ==
  ASSUME TypeOK, [Next]_vars, NEW w \in Windows, life[w] = "crashed"
  PROVE  life'[w] = "crashed"
<1>1. CASE UNCHANGED life
  BY <1>1
<1>2. ASSUME NEW r \in Receivers, NEW s \in Windows, Start(s, r) PROVE life'[w] = "crashed"
  BY <1>2 DEF Start, TypeOK
<1>3. ASSUME NEW r \in Receivers, Retire(r) PROVE life'[w] = "crashed"
  BY <1>3 DEF Retire, Ends, Open, TypeOK
<1>4. ASSUME NEW x \in Windows, Crash(x) PROVE life'[w] = "crashed"
  BY <1>4 DEF Crash, Ends, Open, TypeOK
<1>5. ASSUME NEW r \in Receivers, Moving(r) \/ Receiving(r) PROVE UNCHANGED life
  BY <1>5 DEF Moving, Booted, Prepare, ShowPhase, Commit, Remove, PublishGone, Send, Receipt,
     ReceiptTimeout, Receive, Clean, Finalize, Receiving, Delivered, AskVia, AdoptDelivery,
     AttachedHere, AttachTimeout, GiveUp, RevokeHere, FinalizedHere, Abandon
<1>6. ASSUME NEW r \in Receivers, Recovering(r) \/ Retry(r), ~ Retire(r) PROVE UNCHANGED life
  BY <1>6 DEF Recovering, Revoke, Acknowledged, RetireFails, RollBack, Confirmed, Ask, Restore,
     Ready, ReadyTimeout, Retry
<1>7. ASSUME NEW x \in Windows, Republish(x) \/ Drain(x) \/ Mount(x) PROVE UNCHANGED life
  BY <1>7 DEF Republish, Drain, Mount
<1>8. ASSUME NEW c, Attach(c) PROVE UNCHANGED life
  BY <1>8 DEF Attach
<1>9. Rescued \/ UNCHANGED vars => UNCHANGED life
  BY DEF Rescued, vars
<1> QED
  BY <1>1, <1>2, <1>3, <1>4, <1>5, <1>6, <1>7, <1>8, <1>9 DEF Next
-----------------------------------------------------------------------------
(* The workspace is never lost, whatever crashes but a source.               *)

Before == {"opening", "prepare", "show", "commit", "remove"}
Taking == {"asking", "adopting", "attaching", "attached", "failing"}

\* How far the source is, and the record of the transfer.
Course(r) ==
  /\ move[r].at \in {"idle", "opening", "prepare"} => transfer[r].phase = "none"
  /\ move[r].at = "show" => transfer[r].phase = "prepared"
  /\ move[r].at = "commit" => transfer[r].phase = "shown"
  /\ move[r].at \in {"remove", "publish", "send", "wait", "receive", "revoke", "ack"} =>
       transfer[r].phase = "committed"
  /\ move[r].at = "clean" => transfer[r].phase = "received"
  /\ move[r].at = "finalize" => transfer[r].phase = "cleaned"
  /\ transfer[r].phase = "cleaned" => move[r].at \in {"finalize", "over"}
  /\ move[r].at \in Before => ~ move[r].removed
  /\ move[r].at \in Away => move[r].removed
  /\ move[r].at \in Late => ~ Open(r)
  /\ move[r].at = "rollback" => move[r].prepared
  /\ transfer[r].phase = "rolled_back" => ~ Open(r)
  /\ Active(r) => /\ ~ transfer[r].finalized
                  /\ move[r].prepared <=> transfer[r].phase # "none"
                  /\ move[r].removed => move[r].prepared
  /\ ~ Active(r) => ~ move[r].removed
  /\ life[r] = "absent" => move[r].at = "idle"
  /\ move[r].at = "idle" => move[r].from = Nobody
  /\ move[r].at = "over" /\ Open(r) => transfer[r].phase \in {"none", "cleaned"}
  /\ transfer[r].phase = "none" => ~ transfer[r].finalized

Shut(w) == ~ Open(w) => ~ Shows(w) /\ reception[w].at = "none" /\ mail[w] = <<>>

\* What is on its way into a window, and what it makes of it.
Posted(r) ==
  /\ DeliveryFirst(r)
  /\ InMail(r, "delivery") => move[r].removed /\ reception[r].at = "none"
  /\ InMail(r, "revoke") => move[r].removed /\ move[r].at \notin Early \ {"ack"}
  /\ InMail(r, "finalize") => move[r].at = "over"
  /\ reception[r].at \in Taking => move[r].removed /\ incoming[r]
  /\ reception[r].at \in {"attaching", "attached"} => Shows(r)
  /\ move[r].at \in Before \cup {"idle", "publish", "send"} =>
       mail[r] = <<>> /\ reception[r].at = "none"
  /\ reply[r] # "none" => move[r].at = "wait"

\* Once the receiver has answered it shows and has published the workspace;
\* if it crashes then, the startup window is given it.
Arrived(r) ==
  move[r].at \in {"receive", "clean", "finalize"} \/ reply[r] = "ok" =>
    IF Open(r) THEN reception[r].at = "done" /\ Shows(r) /\ fragment[r] /\ ~ InMail(r, "delivery")
    ELSE Shows(Main) \/ escrow[Main]

\* Nobody but a receiver holds the workspace, and where a move has ended it
\* stays until another one begins.
Stays(r) ==
  /\ Shows(r) \/ escrow[r] => transfer[r].phase # "none"
  /\ move[r].at = "over" /\ Open(r) /\ transfer[r].phase = "cleaned" =>
       /\ reception[r].at = "done"
       /\ (\A q \in Receivers : move[q].from # r) => Shows(r) /\ fragment[r]

\* A delivery that is taken back leaves what was there before.
Sheltered(w) == w \in Receivers /\ incoming[w] => reception[w].had

\* A source has the workspace until it takes it off its screen, and again
\* when it has restored it; it is not itself about to lose it.
Sources(r) ==
  /\ Active(r) => move[r].from \in Windows \ {r} /\ Open(move[r].from)
  /\ move[r].from \in Receivers => transfer[move[r].from].phase # "none"
  /\ Active(r) /\ move[r].prepared /\ move[r].from \in Receivers => ~ Reserved(move[r].from)
  /\ move[r].at \in Before \cup {"ready", "attached"} => Shows(move[r].from)
  /\ Active(r) /\ Reserved(r) /\ ~ move[r].removed => Shows(move[r].from)
  /\ Active(r) /\ (move[r].prepared \/ move[r].at \in Before) => Sheltered(move[r].from)

MainStays ==
  /\ Open(Main) /\ rescue \in {Nobody, Main}
  /\ (\A r \in Receivers : life[r] = "absent") \/ \E r \in Receivers : move[r].from = Main

Held(w) == Open(w) /\ (Shows(w) \/ escrow[w])
Somewhere == \E w \in Windows : Held(w)

Local(r) == Course(r) /\ Shut(r) /\ Posted(r) /\ Arrived(r) /\ Stays(r) /\ Sources(r)

Keeping ==
  /\ MainStays /\ OneMove /\ OneReserved
  /\ Somewhere \/ \E r \in Receivers : move[r].removed
  /\ \A r \in Receivers : Local(r)

NoSourceCrashed == \A r \in Receivers : move[r].from \notin Crashed
KInv == NoSourceCrashed => Keeping

LEMMA InitKeeping == Init => Keeping
<1> SUFFICES ASSUME Init PROVE Keeping
  OBVIOUS
<1> USE Numbers
<1>1. \A r \in Receivers :
        /\ r # Main /\ r \in Windows /\ move[r] = AtRest /\ transfer[r] = NoTransfer
        /\ ~ Shows(r) /\ ~ escrow[r] /\ reception[r].at = "none" /\ mail[r] = <<>>
        /\ reply[r] = "none" /\ life[r] = "absent"
  BY DEF Init, Receivers, Shows, NoReception
<1>2. \A r \in Receivers : ~ Reserved(r) /\ ~ Active(r) /\ ~ Going(r)
  BY <1>1 DEF Reserved, Active, Going, Rests, AtRest, NoTransfer
<1>3. ASSUME NEW r \in Receivers PROVE Local(r)
  <2>1. Course(r) /\ Shut(r) /\ Stays(r)
    BY <1>1, <1>2 DEF Course, Shut, Stays, Before, Away, Late, AtRest, NoTransfer
  <2>2. Posted(r) /\ Arrived(r)
    BY <1>1, NoMail DEF Posted, Arrived, Taking, AtRest
  <2>3. Sources(r)
    <3>1. Nobody \notin Receivers
      BY DEF Receivers, Windows, Nobody
    <3> QED
      BY <1>1, <1>2, <3>1 DEF Sources, Before, AtRest
  <2> QED
    BY <2>1, <2>2, <2>3 DEF Local
<1>4. MainStays
  BY <1>1 DEF Init, MainStays, Open
<1>5. OneMove /\ OneReserved
  BY <1>2 DEF OneMove, OneReserved
<1>6. Somewhere
  BY DEF Init, Somewhere, Held, Open, Shows
<1> QED
  BY <1>3, <1>4, <1>5, <1>6 DEF Keeping

-----------------------------------------------------------------------------
(* Again most steps concern one move.                                        *)

\* What the step leaves alone, and what it may do to the source.
Alone(r) ==
  /\ life' = life /\ rescue' = rescue
  /\ \A q \in Receivers \ {r} : move'[q] = move[q]
  /\ \A w \in Windows \ {r} :
       /\ transfer'[w] = transfer[w] /\ reception'[w] = reception[w] /\ incoming'[w] = incoming[w]
       /\ mail'[w] = mail[w] /\ escrow'[w] = escrow[w] /\ reply'[w] = reply[w]

Gives(r, w) == w = move[r].from /\ Active(r) /\ Going(r) /\ Reserved(r) /\ move[r].prepared
Regains(r, w) == w = move[r].from /\ Active(r)
Screens(r) ==
  \A w \in Windows \ {r} :
    /\ Shows(w)' => Shows(w) \/ Regains(r, w)
    /\ Shows(w) => Shows(w)' \/ Gives(r, w)
    /\ fragment[w] => fragment'[w] \/ Gives(r, w)

\* What the receiver may do to moves of its own.
Loyal(r) ==
  /\ Shows(r) => Shows(r)' \/ (incoming[r] /\ ~ reception[r].had)
  /\ incoming'[r] /\ ~ reception'[r].had =>
       (incoming[r] /\ ~ reception[r].had) \/ (~ Shows(r) /\ Reserved(r))

Proceeds(r) ==
  /\ move'[r].from = move[r].from
  /\ Active(r)' => Active(r)
  /\ Going(r)' =>
       Going(r) \/ \A q \in Receivers \ {r} : ~ (Going(q) /\ move[q].from = move[r].from)
  /\ Reserved(r)' => Reserved(r)
  /\ transfer[r].phase # "none" => transfer'[r].phase # "none"

Keeps(r) == Somewhere \/ move[r].removed => Somewhere' \/ move'[r].removed

\* A move that still counts has a reservation.
LEMMA ActiveFacts ==
  ASSUME Keeping, NEW r \in Receivers
  PROVE  /\ Local(r) /\ r \in Windows /\ r # Main /\ Main \in Windows /\ Open(Main)
         /\ Active(r) /\ move[r].prepared /\ Open(r) => Reserved(r)
         /\ move[r].removed => Active(r) /\ move[r].prepared
         /\ Active(r) /\ Reserved(r) => move[r].prepared
         /\ move[r].at \in {"wait", "receive", "clean", "finalize"} => Reserved(r) /\ Active(r)
<1> USE Numbers
<1>1. Local(r) /\ Course(r)
  BY DEF Keeping, Local
<1>2. r \in Windows /\ r # Main /\ Main \in Windows /\ Open(Main)
  BY DEF Receivers, Keeping, MainStays
<1>3. Active(r) /\ move[r].prepared /\ Open(r) => Reserved(r)
  BY <1>1 DEF Course, Reserved
<1>4. move[r].removed => Active(r) /\ move[r].prepared
  BY <1>1 DEF Course
<1>5. Active(r) /\ Reserved(r) => move[r].prepared
  BY <1>1 DEF Course, Reserved
<1>6. move[r].at \in {"wait", "receive", "clean", "finalize"} => Reserved(r) /\ Active(r)
  BY <1>1 DEF Course, Reserved, Active
<1> QED
  BY <1>1, <1>2, <1>3, <1>4, <1>5, <1>6

LEMMA LocalStep ==
  ASSUME Keeping, NEW r \in Receivers,
         Alone(r), Screens(r), Loyal(r), Proceeds(r), Keeps(r), Local(r)'
  PROVE  Keeping'
<1> USE Numbers
<1>1. /\ \A q \in Receivers : move'[q].from = move[q].from
      /\ \A w : Open(w)' <=> Open(w)
      /\ \A q \in Receivers : Reserved(q)' => Reserved(q)
      /\ \A q \in Receivers : Active(q)' => Active(q)
      /\ \A q \in Receivers : transfer[q].phase # "none" => transfer'[q].phase # "none"
  <2>1. ASSUME NEW q \in Receivers, q # r PROVE move'[q] = move[q] /\ transfer'[q] = transfer[q]
    BY <2>1 DEF Alone, Receivers
  <2> QED
    BY <2>1 DEF Alone, Proceeds, Open, Reserved, Active
<1>2. MainStays'
  BY <1>1 DEF Keeping, MainStays, Alone
<1>3. OneMove'
  <2> SUFFICES ASSUME NEW p \in Receivers, NEW q \in Receivers, p # q, q # r,
                      Going(p)', Going(q)', move[p].from = move[q].from
               PROVE  FALSE
    BY <1>1 DEF OneMove
  <2>1. Going(q) /\ (p # r => Going(p))
    BY DEF Alone, Going
  <2>2. Going(p)
    BY <2>1 DEF Proceeds
  <2> QED
    BY <2>1, <2>2 DEF Keeping, OneMove
<1>4. OneReserved'
  BY <1>1 DEF Keeping, OneReserved
<1>5. Somewhere' \/ \E q \in Receivers : move'[q].removed
  <2>1. CASE Somewhere \/ move[r].removed
    BY <2>1 DEF Keeps
  <2>2. CASE \E q \in Receivers \ {r} : move[q].removed
    BY <2>2 DEF Alone
  <2> QED
    BY <2>1, <2>2 DEF Keeping
<1>6. ASSUME NEW q \in Receivers, q # r PROVE Local(q)'
  <2>1. /\ move'[q] = move[q] /\ transfer'[q] = transfer[q] /\ reception'[q] = reception[q]
        /\ incoming'[q] = incoming[q] /\ mail'[q] = mail[q] /\ escrow'[q] = escrow[q]
        /\ reply'[q] = reply[q] /\ life'[q] = life[q] /\ q \in Windows
    BY <1>6 DEF Alone, Receivers
  <2>2. Local(q) /\ (DeliveryFirst(q)' <=> DeliveryFirst(q))
        /\ \A e : InMail(q, e)' <=> InMail(q, e)
    BY <2>1, SameMail DEF Keeping
  <2>3. Local(r) /\ Local(q) /\ r \in Windows /\ Main \in Windows /\ r # Main
    BY DEF Keeping, Receivers
  <2>4. /\ Active(q) /\ move[q].prepared /\ Open(q) => Reserved(q)
        /\ move[q].removed => Active(q) /\ move[q].prepared
        /\ Active(q) /\ Reserved(q) => move[q].prepared
        /\ move[q].at \in {"wait", "receive", "clean", "finalize"} => Reserved(q) /\ Active(q)
    BY ActiveFacts
  <2>5. Gives(r, q) => ~ Reserved(q)
    BY <2>3 DEF Gives, Local, Sources
  <2>6. Course(q)'
    BY <2>1, <2>2 DEF Local, Course, Open, Active, Reserved
  <2>7. Shut(q)'
    <3>1. Shows(q)' => Shows(q) \/ Regains(r, q)
      BY <1>6, <2>1 DEF Screens
    <3>2. Regains(r, q) => Open(q)
      BY <2>3 DEF Regains, Local, Sources
    <3> QED
      BY <2>1, <2>2, <3>1, <3>2 DEF Local, Shut, Open
  <2>8. Posted(q)'
    <3>1. reception[q].at \in Taking => Reserved(q) /\ move[q].removed
      <4>1. reception[q].at \in Taking => move[q].removed /\ Open(q)
        BY <2>2 DEF Local, Posted, Shut, Taking
      <4> QED
        BY <2>4, <4>1
    <3>2. reception[q].at \in {"attaching", "attached"} => Shows(q) /\ ~ Gives(r, q)
      BY <2>2, <2>5, <3>1 DEF Local, Posted, Taking
    <3>3. reception[q].at \in {"attaching", "attached"} => Shows(q)'
      BY <1>6, <2>1, <3>2 DEF Screens
    <3> QED
      BY <2>1, <2>2, <3>3 DEF Local, Posted
  <2>9. Arrived(q)'
    <3> SUFFICES ASSUME move[q].at \in {"receive", "clean", "finalize"} \/ reply[q] = "ok"
                 PROVE  Arrived(q)'
      BY <2>1 DEF Arrived
    <3>1. Reserved(q)
      BY <2>2, <2>4 DEF Local, Posted
    <3>2. CASE Open(q)
      <4>1. Shows(q) /\ fragment[q] /\ reception[q].at = "done" /\ ~ InMail(q, "delivery")
        BY <2>2, <3>2 DEF Local, Arrived
      <4>2. Shows(q)' /\ fragment'[q]
        BY <1>6, <2>1, <2>5, <3>1, <4>1 DEF Screens
      <4> QED
        BY <1>1, <2>1, <2>2, <3>2, <4>1, <4>2 DEF Arrived
    <3>3. CASE ~ Open(q)
      <4>1. Shows(Main) \/ escrow[Main]
        BY <2>2, <3>3 DEF Local, Arrived
      <4>2. ~ Gives(r, Main)
        BY <1>6, <3>1 DEF Gives, Keeping, OneReserved
      <4>3. Shows(Main)' \/ escrow'[Main]
        BY <2>3, <4>1, <4>2 DEF Screens, Alone
      <4> QED
        BY <1>1, <3>3, <4>3 DEF Arrived
    <3> QED
      BY <3>2, <3>3
  <2>10. Stays(q)'
    <3>1. Shows(q)' => Shows(q) \/ transfer[q].phase # "none"
      <4>1. Regains(r, q) => transfer[q].phase # "none"
        BY <1>6, <2>3 DEF Regains, Local, Sources
      <4> QED
        BY <1>6, <2>1, <4>1 DEF Screens
    <3>2. (\A p \in Receivers : move[p].from # q) =>
            (Shows(q) => Shows(q)') /\ (fragment[q] => fragment'[q])
      BY <1>6, <2>1 DEF Screens, Gives
    <3> QED
      BY <1>1, <2>1, <2>2, <3>1, <3>2 DEF Local, Stays
  <2>11. Sources(q)'
    <3>0. PICK s : s = move[q].from
      OBVIOUS
    <3>1. /\ Active(q) => s \in Windows \ {q} /\ Open(s)
          /\ s \in Receivers => transfer[s].phase # "none"
          /\ Active(q) /\ move[q].prepared /\ s \in Receivers => ~ Reserved(s)
          /\ move[q].at \in Before \cup {"ready", "attached"} => Shows(s)
          /\ Active(q) /\ Reserved(q) /\ ~ move[q].removed => Shows(s)
          /\ Active(q) /\ (move[q].prepared \/ move[q].at \in Before) => Sheltered(s)
      BY <2>2, <3>0 DEF Local, Sources
    <3>2. /\ (Active(q)' <=> Active(q)) /\ (Reserved(q)' <=> Reserved(q))
      BY <2>1 DEF Active, Reserved
    <3>3. /\ move[q].at \in Before \cup {"ready", "attached"} =>
               Active(q) /\ Going(q) /\ (move[q].prepared \/ move[q].at \in Before)
      BY <2>2 DEF Before, Active, Going, Rests, Away, Local, Course
    <3>4. move[q].at \in Before \cup {"ready", "attached"} => Shows(s)'
      <4>1. CASE s = r
        BY <3>1, <3>3, <4>1, <2>3 DEF Loyal, Sheltered
      <4>2. CASE s # r
        BY <1>6, <3>0, <3>1, <3>3, <4>2 DEF Screens, Gives, Keeping, OneMove
      <4> QED
        BY <4>1, <4>2
    <3>5. Active(q) /\ Reserved(q) /\ ~ move[q].removed => Shows(s)'
      <4>1. CASE s = r
        BY <2>4, <3>1, <4>1 DEF Loyal, Sheltered
      <4>2. CASE s # r
        BY <1>6, <3>1, <4>2 DEF Screens, Gives, Keeping, OneReserved
      <4> QED
        BY <4>1, <4>2
    <3>6. Active(q) /\ (move[q].prepared \/ move[q].at \in Before) => Sheltered(s)'
      <4>1. CASE s = r
        BY <3>1, <4>1 DEF Loyal, Sheltered
      <4>2. CASE s # r
        BY <3>1, <4>2 DEF Alone, Sheltered
      <4> QED
        BY <4>1, <4>2
    <3>7. s \in Receivers => transfer'[s].phase # "none"
      BY <1>1, <3>1
    <3>8. Active(q) /\ move[q].prepared /\ s \in Receivers => ~ Reserved(s)'
      BY <1>1, <3>1
    <3> QED
      BY <1>1, <2>1, <3>0, <3>1, <3>2, <3>4, <3>5, <3>6, <3>7, <3>8 DEF Sources
  <2> QED
    BY <2>6, <2>7, <2>8, <2>9, <2>10, <2>11 DEF Local
<1> QED
  BY <1>2, <1>3, <1>4, <1>5, <1>6 DEF Keeping

\* The windows are left as they are; only the receiver's queue may change.
Unmoved(r) ==
  /\ UNCHANGED <<life, shown, reception, incoming, mail, rescue>>
  /\ \A q \in Receivers \ {r} : move'[q] = move[q]
  /\ \A w \in Windows \ {r} : /\ transfer'[w] = transfer[w] /\ reply'[w] = reply[w]
                              /\ fragment'[w] = fragment[w] /\ escrow'[w] = escrow[w]
  /\ escrow'[r] => escrow[r] \/ transfer[r].phase # "none"
  /\ escrow[r] => escrow'[r] \/ move[r].removed \/ ~ Open(r)

LEMMA UnmovedStep ==
  ASSUME Keeping, NEW r \in Receivers, Unmoved(r)
  PROVE  /\ Alone(r) /\ Screens(r) /\ Loyal(r) /\ Shut(r)'
         /\ (move[r].removed => move'[r].removed) => Keeps(r)
         /\ \A e : InMail(r, e)' <=> InMail(r, e)
         /\ DeliveryFirst(r)'
<1>1. r \in Windows /\ Local(r)
  BY DEF Keeping, Receivers
<1>2. Alone(r) /\ Screens(r) /\ Loyal(r) /\ Shut(r)'
  BY <1>1 DEF Unmoved, Alone, Screens, Loyal, Local, Shut, Shows, Open
<1>3. Somewhere => Somewhere' \/ move[r].removed
  BY <1>1 DEF Unmoved, Somewhere, Held, Open, Shows
<1>4. (\A e : InMail(r, e)' <=> InMail(r, e)) /\ DeliveryFirst(r)'
  BY <1>1, SameMail DEF Unmoved, Local, Posted
<1> QED
  BY <1>2, <1>3, <1>4 DEF Keeps

\* The source goes on to another stage.
Continues(r) ==
  /\ Active(r) /\ fragment'[r] = fragment[r]
  /\ move'[r].from = move[r].from
  /\ Active(r)' => move'[r].prepared = move[r].prepared
  /\ move'[r].removed = move[r].removed
  /\ Going(r)' =>
       Going(r) \/ \A q \in Receivers \ {r} : ~ (Going(q) /\ move[q].from = move[r].from)
  /\ Reserved(r)' => Reserved(r)
  /\ transfer[r].phase # "none" => transfer'[r].phase # "none"
  /\ move'[r].at \in Before => move[r].at \in Before
  /\ move'[r].at = "send" => move[r].at = "publish"
  /\ move'[r].at \notin {"idle", "publish", "ready", "attached"}
  /\ move'[r].at \in Early \ {"ack"} => move[r].at \in Early \ {"ack"}
  /\ \/ reply'[r] = "none"
     \/ reply'[r] = reply[r] /\ (move[r].at = "wait" => move'[r].at = "wait")
  /\ move'[r].at \in {"receive", "clean", "finalize"} =>
       move[r].at \in {"receive", "clean", "finalize"} \/ reply[r] = "ok"
  /\ move'[r].at = "over" /\ Open(r) => transfer'[r].phase # "cleaned"

LEMMA StageKeeps ==
  ASSUME TypeOK, Keeping, NEW r \in Receivers, Unmoved(r), Continues(r), Course(r)'
  PROVE  Keeping'
<1> USE UnmovedStep, ActiveFacts DEF Continues
<1>1. Local(r)
  BY DEF Keeping
<1>2. Proceeds(r)
  BY DEF Proceeds
<1>3. Keeps(r)
  OBVIOUS
<1>4. Posted(r)'
  BY <1>1 DEF Local, Posted, Unmoved, Taking, Active, Shows
<1>5. Arrived(r)'
  BY <1>1 DEF Local, Posted, Arrived, Unmoved, Open, Shows
<1>6. Stays(r)'
  BY <1>1 DEF Local, Stays, Unmoved, Open, Shows
<1>7. Sources(r)'
  <2>1. PICK s : s = move[r].from
    OBVIOUS
  <2>2. s \in Receivers => transfer'[s].phase # "none" /\ (Reserved(s)' => Reserved(s))
    BY <1>1, <2>1 DEF Local, Sources, Unmoved, Receivers, Reserved
  <2>3. (Open(s)' <=> Open(s)) /\ (Shows(s)' <=> Shows(s)) /\ (Sheltered(s)' <=> Sheltered(s))
    BY DEF Unmoved, Open, Shows, Sheltered
  <2>4. /\ Active(r) => s \in Windows \ {r} /\ Open(s)
        /\ Active(r) /\ move[r].prepared /\ s \in Receivers => ~ Reserved(s)
        /\ move[r].at \in Before \cup {"ready", "attached"} => Shows(s)
        /\ Active(r) /\ Reserved(r) /\ ~ move[r].removed => Shows(s)
        /\ Active(r) /\ (move[r].prepared \/ move[r].at \in Before) => Sheltered(s)
    BY <1>1, <2>1 DEF Local, Sources
  <2> QED
    BY <2>1, <2>2, <2>3, <2>4 DEF Sources
<1> QED
  BY <1>1, <1>2, <1>3, <1>4, <1>5, <1>6, <1>7, LocalStep DEF Local

LEMMA StageSteps ==
  ASSUME TypeOK, Keeping, NEW r \in Receivers,
         \/ Booted(r) \/ ShowPhase(r) \/ Commit(r) \/ Receipt(r) \/ ReceiptTimeout(r)
         \/ Receive(r) \/ Clean(r) \/ Acknowledged(r) \/ RetireFails(r) \/ RollBack(r)
         \/ Confirmed(r) \/ Ask(r) \/ ReadyTimeout(r) \/ Retry(r)
  PROVE  Keeping'
<1> USE GoesTo
<1>0. Course(r) /\ r \in Windows /\ (reply[r] # "none" => move[r].at = "wait")
  BY DEF Keeping, Local, Posted, Receivers
<1>12. reply \in [Windows -> {"none", "ok", "failed"}]
  BY DEF TypeOK
<1>1. CASE Booted(r)
  <2>1. PICK stage \in {"prepare", "retire"} : Goes(r, stage)
    BY <1>1 DEF Booted
  <2>2. Unmoved(r)
    BY <1>1, <2>1 DEF Booted, Unmoved
  <2>3. Continues(r)
    BY <1>0, <1>1, <2>1 DEF Booted, Continues, Course, Active, Reserved, Going, Rests, Before,
              Early, Away, Late, Open
  <2>4. Course(r)'
    BY <1>0, <1>1, <2>1 DEF Booted, Course, Open, Active, Before, Away, Late
  <2> QED
    BY <2>2, <2>3, <2>4, StageKeeps
<1>2. CASE ShowPhase(r)
  <2>0. /\ transfer'[r].phase = "shown" /\ transfer'[r].finalized = transfer[r].finalized
        /\ \A w \in Windows \ {r} : transfer'[w] = transfer[w]
    BY <1>0, <1>2, AdvancedTo DEF ShowPhase
  <2>2. Unmoved(r)
    BY <1>2, <2>0 DEF ShowPhase, Unmoved, registry
  <2>3. Continues(r)
    BY <1>0, <1>2, <2>0 DEF ShowPhase, registry, Continues, Course, Active, Reserved, Going, Rests, Before,
              Early, Away, Late, Open
  <2>4. Course(r)'
    BY <1>0, <1>2, <2>0 DEF ShowPhase, registry, Course, Open, Active, Before, Away, Late
  <2> QED
    BY <2>2, <2>3, <2>4, StageKeeps
<1>3. CASE Commit(r)
  <2>0. /\ transfer'[r].phase = "committed" /\ transfer'[r].finalized = transfer[r].finalized
        /\ \A w \in Windows \ {r} : transfer'[w] = transfer[w]
    BY <1>0, <1>3, AdvancedTo DEF Commit
  <2>1. escrow'[r] /\ \A w \in Windows \ {r} : escrow'[w] = escrow[w]
    BY <1>0, <1>3 DEF Commit, TypeOK
  <2>2. Unmoved(r)
    BY <1>0, <1>3, <2>0, <2>1 DEF Commit, Unmoved, Course
  <2>3. Continues(r)
    BY <1>0, <1>3, <2>0 DEF Commit, Continues, Course, Active, Reserved, Going, Rests, Before,
              Early, Away, Late, Open
  <2>4. Course(r)'
    BY <1>0, <1>3, <2>0 DEF Commit, Course, Open, Active, Before, Away, Late
  <2> QED
    BY <2>2, <2>3, <2>4, StageKeeps
<1>4. CASE Receipt(r) \/ ReceiptTimeout(r)
  <2>1. PICK stage \in {"receive", "revoke"} :
          Goes(r, stage) /\ (stage = "receive" => reply[r] = "ok")
    BY <1>4 DEF Receipt, ReceiptTimeout
  <2>2. reply'[r] = "none" /\ \A w \in Windows \ {r} : reply'[w] = reply[w]
    BY <1>0, <1>4, <1>12 DEF Receipt, ReceiptTimeout
  <2>3. Unmoved(r)
    BY <1>4, <2>1, <2>2 DEF Receipt, ReceiptTimeout, Unmoved, registry
  <2>4. Continues(r)
    BY <1>0, <1>4, <2>1, <2>2 DEF Receipt, ReceiptTimeout, registry, Continues, Course, Active, Reserved, Going, Rests, Before,
              Early, Away, Late, Open
  <2>5. Course(r)'
    BY <1>0, <1>4, <2>1, <2>2 DEF Receipt, ReceiptTimeout, registry, Course, Open, Active, Before, Away, Late
  <2> QED
    BY <2>3, <2>4, <2>5, StageKeeps
<1>5. CASE Receive(r)
  <2>0. /\ transfer'[r].phase = "received" /\ transfer'[r].finalized = transfer[r].finalized
        /\ \A w \in Windows \ {r} : transfer'[w] = transfer[w]
    BY <1>0, <1>5, AdvancedTo DEF Receive
  <2>1. ~ escrow'[r] /\ \A w \in Windows \ {r} : escrow'[w] = escrow[w]
    BY <1>0, <1>5 DEF Receive, EscrowRemoved, TypeOK
  <2>2. Unmoved(r)
    BY <1>0, <1>5, <2>0, <2>1 DEF Receive, Unmoved, Course, Away
  <2>3. Continues(r)
    BY <1>0, <1>5, <2>0 DEF Receive, Continues, Course, Active, Reserved, Going, Rests, Before,
              Early, Away, Late, Open
  <2>4. Course(r)'
    BY <1>0, <1>5, <2>0 DEF Receive, Course, Open, Active, Before, Away, Late
  <2> QED
    BY <2>2, <2>3, <2>4, StageKeeps
<1>6. CASE Clean(r)
  <2>0. /\ transfer'[r].phase = "cleaned" /\ transfer'[r].finalized = transfer[r].finalized
        /\ \A w \in Windows \ {r} : transfer'[w] = transfer[w]
    BY <1>0, <1>6, AdvancedTo DEF Clean
  <2>2. Unmoved(r)
    BY <1>6, <2>0 DEF Clean, Unmoved, registry
  <2>3. Continues(r)
    BY <1>0, <1>6, <2>0 DEF Clean, registry, Continues, Course, Active, Reserved, Going, Rests, Before,
              Early, Away, Late, Open
  <2>4. Course(r)'
    BY <1>0, <1>6, <2>0 DEF Clean, registry, Course, Open, Active, Before, Away, Late
  <2> QED
    BY <2>2, <2>3, <2>4, StageKeeps
<1>7. CASE Acknowledged(r) \/ RetireFails(r) \/ ReadyTimeout(r)
  <2>1. PICK stage \in {"retire", "failed"} : Goes(r, stage)
    BY <1>7 DEF Acknowledged, RetireFails, ReadyTimeout, Fails, Goes
  <2>2. Unmoved(r)
    BY <1>7, <2>1 DEF Acknowledged, RetireFails, ReadyTimeout, Unmoved, registry
  <2>3. Continues(r)
    BY <1>0, <1>7, <2>1 DEF Acknowledged, RetireFails, ReadyTimeout, registry, Continues, Course, Active, Reserved, Going, Rests, Before,
              Early, Away, Late, Open
  <2>4. Course(r)'
    BY <1>0, <1>7, <2>1 DEF Acknowledged, RetireFails, ReadyTimeout, registry, Course, Open, Active, Before, Away, Late
  <2> QED
    BY <2>2, <2>3, <2>4, StageKeeps
<1>8. CASE RollBack(r)
  <2>1. ~ escrow'[r] /\ \A w \in Windows \ {r} : escrow'[w] = escrow[w]
    BY <1>0, <1>8 DEF RollBack, EscrowRemoved, TypeOK
  <2>2. /\ \A w \in Windows \ {r} : transfer'[w] = transfer[w]
        /\ transfer'[r].finalized = transfer[r].finalized
        /\ transfer'[r].phase = "rolled_back"
    BY <1>8, MarkedRolledBack
  <2>3. Unmoved(r)
    BY <1>0, <1>8, <2>1, <2>2 DEF RollBack, Unmoved, Course, Late
  <2>4. Continues(r)
    BY <1>0, <1>8, <2>2 DEF RollBack, Continues, Course, Active, Reserved, Going, Rests, Before,
              Early, Away, Late, Open
  <2>5. Course(r)'
    BY <1>0, <1>8, <2>2 DEF RollBack, Course, Open, Active, Before, Away, Late
  <2> QED
    BY <2>3, <2>4, <2>5, StageKeeps
<1>9. CASE Confirmed(r)
  <2>1. /\ move'[r].at = "over" /\ move'[r].from = move[r].from
        /\ ~ move'[r].prepared /\ ~ move'[r].removed
        /\ \A q \in Receivers \ {r} : move'[q] = move[q]
    BY <1>9, EndedTo DEF Confirmed
  <2>5. move[r].removed = FALSE /\ move'[r].removed = FALSE
    BY <1>9 DEF Confirmed, TypeOK, Move, Ended, AtRest
  <2>2. Unmoved(r)
    BY <1>9, <2>1 DEF Confirmed, Unmoved, registry
  <2>3. Continues(r)
    BY <1>0, <1>9, <2>1, <2>5 DEF Confirmed, registry, Continues, Course, Active, Reserved, Going, Rests, Before,
              Early, Away, Late, Open
  <2>4. Course(r)'
    BY <1>0, <1>9, <2>1 DEF Confirmed, registry, Course, Open, Active, Before, Away, Late
  <2> QED
    BY <2>2, <2>3, <2>4, StageKeeps
<1>10. CASE Ask(r)
  <2>1. PICK stage \in {"restore", "failed"} :
          /\ move'[r].at = stage /\ move'[r].from = move[r].from
          /\ move'[r].prepared = move[r].prepared /\ move'[r].removed = move[r].removed
          /\ \A q \in Receivers \ {r} : move'[q] = move[q]
    <3>1. CASE MayAsk(move[r].from)
      BY <1>10, <3>1, RestoreTo
    <3>2. CASE ~ MayAsk(move[r].from)
      BY <1>10, <3>2 DEF Ask, Fails, Goes
    <3> QED
      BY <3>1, <3>2
  <2>2. Unmoved(r)
    BY <1>10, <2>1 DEF Ask, Unmoved, registry
  <2>3. Continues(r)
    BY <1>0, <1>10, <2>1 DEF Ask, registry, Continues, Course, Active, Reserved, Going, Rests, Before,
              Early, Away, Late, Open
  <2>4. Course(r)'
    BY <1>0, <1>10, <2>1 DEF Ask, registry, Course, Open, Active, Before, Away, Late
  <2> QED
    BY <2>2, <2>3, <2>4, StageKeeps
<1>11. CASE Retry(r)
  <2>1. /\ move'[r].at = "retire" /\ move'[r].from = move[r].from
        /\ move'[r].prepared = move[r].prepared /\ move'[r].removed = move[r].removed
        /\ \A q \in Receivers \ {r} : move'[q] = move[q]
    BY <1>11, RetryTo
  <2>2. Unmoved(r)
    BY <1>11, <2>1 DEF Retry, Unmoved, registry
  <2>3. \A q \in Receivers \ {r} : ~ (Going(q) /\ move[q].from = move[r].from)
    BY <1>11 DEF Retry, Busy, Going
  <2>4. Continues(r)
    BY <1>0, <1>11, <2>1, <2>3 DEF Retry, registry, Continues, Course, Active, Reserved, Going, Rests, Before,
              Early, Away, Late, Open
  <2>5. Course(r)'
    BY <1>0, <1>11, <2>1, <2>3 DEF Retry, registry, Course, Open, Active, Before, Away, Late
  <2> QED
    BY <2>2, <2>4, <2>5, StageKeeps
<1> QED
  BY <1>1, <1>2, <1>3, <1>4, <1>5, <1>6, <1>7, <1>8, <1>9, <1>10, <1>11

\* These take the workspace off the source's screen, or bring it back, or
\* write to the receiver.
LEMMA SourceSteps ==
  ASSUME TypeOK, Keeping, NEW r \in Receivers,
         \/ Remove(r) \/ PublishGone(r) \/ Restore(r) \/ Ready(r)
  PROVE  Keeping'
<1>1. /\ Local(r) /\ Course(r) /\ Posted(r) /\ Arrived(r) /\ Stays(r) /\ Sources(r)
      /\ r \in Windows /\ r # Main
  BY ActiveFacts DEF Local
<1>2. /\ Active(r) /\ move[r].from \in Windows /\ move[r].from # r /\ Open(move[r].from)
      /\ move[r].at # "wait" /\ reply[r] # "ok"
  <2>1. Active(r) /\ move[r].at # "wait"
    BY DEF Remove, PublishGone, Restore, Ready, Active
  <2> QED
    BY <1>1, <2>1 DEF Sources, Posted
<1>3. CASE Remove(r) /\ move'[r].at = "retire"
  <2>1. Goes(r, "retire") /\ UNCHANGED shown
    BY <1>3 DEF Remove, TypeOK, Move
  <2>2. Unmoved(r)
    BY <1>3, <2>1, GoesTo DEF Remove, Unmoved, registry
  <2>3. Continues(r)
    BY <1>1, <1>2, <1>3, <2>1, GoesTo
       DEF Remove, registry, Continues, Course, Active, Reserved, Going, Rests, Before, Early
  <2>4. Course(r)'
    BY <1>1, <1>3, <2>1, GoesTo DEF Remove, registry, Course, Open, Active, Before, Away, Late
  <2> QED
    BY <2>2, <2>3, <2>4, StageKeeps
<1>4. CASE Remove(r) /\ move'[r].at # "retire"
  <2>1. /\ move'[r].at = "publish" /\ move'[r].removed
        /\ move'[r].from = move[r].from /\ move'[r].prepared = move[r].prepared
        /\ \A q \in Receivers \ {r} : move'[q] = move[q]
    BY <1>2, <1>4, RemovedTo
  <2>2. shown' = [shown EXCEPT ![move[r].from] = "no"]
    BY <1>4, GoesTo DEF Remove
  <2>3. \A w \in Windows : w # move[r].from => shown'[w] = shown[w]
    BY <2>2 DEF TypeOK
  <2>4. Reserved(r) /\ move[r].prepared /\ Going(r)
    BY <1>1, <1>2, <1>4 DEF Remove, Course, Reserved, Going, Rests
  <2>5. Alone(r) /\ Screens(r) /\ Loyal(r)
    <3>1. UNCHANGED <<life, reception, incoming, mail, reply, fragment, escrow, rescue, transfer>>
      BY <1>4 DEF Remove, registry
    <3>2. Alone(r)
      BY <2>1, <3>1 DEF Alone
    <3>3. \A w : w = move[r].from => Gives(r, w)
      BY <1>2, <2>4 DEF Gives
    <3>4. \A w \in Windows : shown'[w] # "no" => shown[w] # "no"
      BY <1>2, <2>2, <2>3
    <3>5. Loyal(r)
      BY <1>1, <1>2, <2>3, <3>1 DEF Loyal, Shows
    <3>6. Screens(r)
      BY <2>3, <3>1, <3>3, <3>4 DEF Screens, Shows
    <3> QED
      BY <3>2, <3>5, <3>6
  <2>6. Proceeds(r) /\ Keeps(r)
    BY <1>2, <1>4, <2>1, <2>4 DEF Remove, Proceeds, Keeps, Reserved
  <2>7. Course(r)' /\ Shut(r)'
    BY <1>1, <1>2, <1>4, <2>1, <2>3
       DEF Remove, registry, Local, Course, Shut, Open, Shows, Active, Before, Away, Late
  <2>8. Posted(r)' /\ Arrived(r)' /\ Stays(r)'
    BY <1>1, <1>2, <1>4, <2>1, <2>3, SameMail
       DEF Remove, registry, Posted, Arrived, Stays, Shows, Before, Early, Taking
  <2>9. Sources(r)'
    BY <1>1, <1>2, <1>4, <2>1, <2>3 DEF Remove, registry, Sources, Sheltered, Before, Active, Open, Reserved
  <2> QED
    BY <2>5, <2>6, <2>7, <2>8, <2>9, LocalStep DEF Local
<1>5. CASE PublishGone(r)
  <2>1. /\ move'[r].at = "send" /\ move'[r].removed = move[r].removed
        /\ move'[r].from = move[r].from /\ move'[r].prepared = move[r].prepared
        /\ \A q \in Receivers \ {r} : move'[q] = move[q]
    BY <1>5, GoesTo DEF PublishGone
  <2>2. \A w \in Windows : w # move[r].from => fragment'[w] = fragment[w]
    BY <1>5 DEF PublishGone, Published, TypeOK
  <2>3. Reserved(r) /\ move[r].prepared /\ Going(r) /\ move[r].removed
    BY <1>1, <1>2, <1>5 DEF PublishGone, Course, Reserved, Going, Rests, Away
  <2>4. Alone(r) /\ Screens(r) /\ Loyal(r)
    BY <1>1, <1>2, <1>5, <2>1, <2>2, <2>3 DEF PublishGone, Alone, Screens, Loyal, Gives, Shows
  <2>5. Proceeds(r) /\ Keeps(r)
    BY <1>2, <1>5, <2>1, <2>3 DEF PublishGone, Proceeds, Keeps, Reserved
  <2>6. Course(r)' /\ Shut(r)'
    BY <1>1, <1>2, <1>5, <2>1
       DEF PublishGone, Local, Course, Shut, Open, Shows, Active, Before, Away, Late
  <2>7. Posted(r)' /\ Arrived(r)' /\ Stays(r)'
    BY <1>1, <1>2, <1>5, <2>1, SameMail
       DEF PublishGone, Posted, Arrived, Stays, Shows, Before, Early, Taking
  <2>8. Sources(r)'
    BY <1>1, <1>2, <1>5, <2>1 DEF PublishGone, Sources, Sheltered, Before, Active, Open, Reserved, Shows
  <2> QED
    BY <2>4, <2>5, <2>6, <2>7, <2>8, LocalStep DEF Local
<1>6. CASE Restore(r)
  <2>1. /\ move'[r].at = "ready" /\ move'[r].removed = move[r].removed
        /\ move'[r].from = move[r].from /\ move'[r].prepared = move[r].prepared
        /\ \A q \in Receivers \ {r} : move'[q] = move[q]
    BY <1>6, GoesTo DEF Restore
  <2>2. /\ \A w \in Windows : w # move[r].from => shown'[w] = shown[w]
        /\ Shows(move[r].from)' /\ \A w \in Windows : Shows(w) => Shows(w)'
    BY <1>2, <1>6, <2>1 DEF Restore, TypeOK, Shows
  <2>3. move[r].prepared /\ Going(r) /\ move[r].removed
    BY <1>1, <1>2, <1>6 DEF Restore, Course, Going, Rests, Away
  <2>4. Alone(r) /\ Screens(r) /\ Loyal(r)
    BY <1>1, <1>2, <1>6, <2>1, <2>2 DEF Restore, Alone, Screens, Loyal, Regains, Shows, registry
  <2>5. Proceeds(r) /\ Keeps(r)
    BY <1>2, <1>6, <2>1, <2>3 DEF Restore, Proceeds, Keeps, Reserved
  <2>6. Course(r)' /\ Shut(r)'
    BY <1>1, <1>2, <1>6, <2>1, <2>2
       DEF Restore, registry, Local, Course, Shut, Open, Shows, Active, Before, Away, Late
  <2>7. Posted(r)' /\ Arrived(r)' /\ Stays(r)'
    BY <1>1, <1>2, <1>6, <2>1, <2>2, SameMail
       DEF Restore, registry, Posted, Arrived, Stays, Shows, Before, Early, Taking
  <2>8. Sources(r)'
    BY <1>1, <1>2, <1>6, <2>1, <2>2
       DEF Restore, registry, Sources, Sheltered, Before, Active, Open, Reserved
  <2> QED
    BY <2>4, <2>5, <2>6, <2>7, <2>8, LocalStep DEF Local
<1>7. CASE Ready(r)
  <2>1. /\ move'[r].at = "over" /\ move'[r].from = move[r].from
        /\ ~ move'[r].prepared /\ ~ move'[r].removed
        /\ \A q \in Receivers \ {r} : move'[q] = move[q]
    BY <1>7, EndedTo DEF Ready
  <2>2. \A w \in Windows : fragment[w] => fragment'[w]
    BY <1>7 DEF Ready, Published, TypeOK
  <2>3. Shows(move[r].from) /\ ~ Open(r) /\ transfer[r].phase # "cleaned"
    BY <1>1, <1>7 DEF Ready, Sources, Course, Late
  <2>4. Alone(r) /\ Screens(r) /\ Loyal(r)
    BY <1>1, <1>7, <2>1, <2>2 DEF Ready, Alone, Screens, Loyal, Shows
  <2>5. Proceeds(r)
    BY <1>2, <1>7, <2>1 DEF Ready, Proceeds, Active, Going, Rests, Reserved
  <2>6. Keeps(r)
    BY <1>2, <1>7, <2>3 DEF Ready, Keeps, Somewhere, Held, Open, Shows
  <2>7. Course(r)' /\ Shut(r)'
    BY <1>1, <1>2, <1>7, <2>1, <2>3
       DEF Ready, Local, Course, Shut, Open, Shows, Active, Before, Away, Late
  <2>8. reception[r].at = "none" /\ mail[r] = <<>> /\ \A e : ~ InMail(r, e)
    BY <1>1, <2>3, NoMail DEF Local, Shut
  <2>9. Posted(r)' /\ Arrived(r)' /\ Stays(r)'
    BY <1>1, <1>2, <1>7, <2>1, <2>3, <2>8, SameMail
       DEF Ready, Posted, Arrived, Stays, Shows, Open, Before, Early, Taking
  <2>10. Sources(r)'
    BY <1>1, <1>2, <1>7, <2>1 DEF Ready, Sources, Before, Active
  <2> QED
    BY <2>4, <2>5, <2>6, <2>7, <2>9, <2>10, LocalStep DEF Local
<1> QED
  BY <1>3, <1>4, <1>5, <1>6, <1>7

LEMMA MailSteps ==
  ASSUME TypeOK, Keeping, NEW r \in Receivers, Send(r) \/ Finalize(r) \/ Revoke(r)
  PROVE  Keeping'
<1>1. /\ Local(r) /\ Course(r) /\ Posted(r) /\ Arrived(r) /\ Stays(r) /\ Sources(r)
      /\ r \in Windows /\ r # Main /\ Main \in Windows /\ Open(Main)
  BY ActiveFacts DEF Local
<1>2. /\ Active(r) /\ move[r].from \in Windows /\ move[r].from # r /\ Open(move[r].from)
      /\ move[r].prepared /\ move[r].removed /\ reply[r] = "none"
  <2>1. Active(r) /\ move[r].at \in Away /\ move[r].at # "wait"
    BY DEF Send, Finalize, Revoke, Active, Away
  <2>2. move[r].removed /\ move[r].prepared
    BY <1>1, <2>1 DEF Course
  <2> QED
    BY <1>1, <2>1, <2>2 DEF Sources, Posted
<1>3. CASE Send(r)
  <2>1. /\ move'[r].at = "wait" /\ move'[r].removed = move[r].removed
        /\ move'[r].from = move[r].from /\ move'[r].prepared = move[r].prepared
        /\ \A q \in Receivers \ {r} : move'[q] = move[q]
    BY <1>3, GoesTo DEF Send
  <2>2. Sent(r, "delivery") /\ "delivery" \in Events /\ mail[r] = <<>> /\ reception[r].at = "none"
    BY <1>1, <1>3 DEF Send, Events, Posted
  <2>3. /\ DeliveryFirst(r)' /\ \A w \in Windows \ {r} : mail'[w] = mail[w]
        /\ ~ Open(r) => mail'[r] = <<>>
        /\ \A e : InMail(r, e)' => e = "delivery"
    BY <1>1, <2>2, NoMail, SentMail
  <2>4. Alone(r) /\ Screens(r) /\ Loyal(r)
    BY <1>1, <1>3, <2>1, <2>3 DEF Send, registry, Alone, Screens, Loyal, Shows
  <2>5. Proceeds(r) /\ Keeps(r)
    BY <1>2, <1>3, <2>1 DEF Send, Proceeds, Keeps, Reserved, Going, Rests
  <2>6. Course(r)' /\ Shut(r)'
    BY <1>1, <1>2, <1>3, <2>1, <2>3
       DEF Send, registry, Local, Course, Shut, Open, Shows, Active, Before, Away, Late
  <2>7. Posted(r)' /\ Arrived(r)' /\ Stays(r)'
    BY <1>1, <1>2, <1>3, <2>1, <2>2, <2>3
       DEF Send, registry, Posted, Arrived, Stays, Shows, Before, Early, Taking
  <2>8. Sources(r)'
    BY <1>1, <1>2, <1>3, <2>1
       DEF Send, registry, Sources, Sheltered, Before, Active, Open, Reserved, Shows
  <2> QED
    BY <2>4, <2>5, <2>6, <2>7, <2>8, LocalStep DEF Local
<1>4. CASE Finalize(r)
  <2>1. /\ move'[r].at = "over" /\ move'[r].from = move[r].from
        /\ ~ move'[r].prepared /\ ~ move'[r].removed
        /\ \A q \in Receivers \ {r} : move'[q] = move[q]
    BY <1>4, EndedTo DEF Finalize
  <2>2. /\ \A w \in Windows \ {r} : transfer'[w] = transfer[w]
        /\ transfer'[r].finalized /\ transfer'[r].phase = "cleaned"
        /\ transfer[r].phase = "cleaned"
    BY <1>1, <1>4, MarkedFinalized DEF Finalize, Course
  <2>3. /\ DeliveryFirst(r)' /\ \A w \in Windows \ {r} : mail'[w] = mail[w]
        /\ ~ Open(r) => mail'[r] = mail[r]
        /\ \A e : InMail(r, e)' => InMail(r, e) \/ e = "finalize"
    BY <1>1, <1>4, SentMail DEF Finalize, Events, Posted
  <2>4. IF Open(r) THEN reception[r].at = "done" /\ Shows(r) /\ fragment[r] /\ ~ InMail(r, "delivery")
        ELSE Shows(Main) \/ escrow[Main]
    BY <1>1, <1>4 DEF Finalize, Arrived
  <2>5. ~ InMail(r, "revoke")
    BY <1>1, <1>4 DEF Finalize, Posted, Early
  <2>6. UNCHANGED <<life, shown, reception, incoming, reply, fragment, escrow, rescue>>
    BY <1>4 DEF Finalize, registry
  <2>7. Alone(r) /\ Screens(r) /\ Loyal(r)
    BY <1>1, <2>1, <2>2, <2>3, <2>6 DEF Alone, Screens, Loyal, Shows
  <2>8. Proceeds(r)
    BY <1>2, <2>1, <2>2 DEF Proceeds, Reserved, Going, Rests
  <2>9. Keeps(r)
    BY <1>1, <2>4, <2>6 DEF Keeps, Somewhere, Held, Open, Shows
  <2>10. Course(r)'
    BY <1>1, <1>2, <2>1, <2>2, <2>6 DEF Course, Open, Active, Before, Away, Late
  <2>11. Shut(r)' /\ Posted(r)'
    <3>1. ~ Open(r) => mail'[r] = <<>> /\ ~ InMail(r, "delivery")
      BY <1>1, <2>3, NoMail DEF Local, Shut
    <3>2. reception[r].at \in {"none", "done"}
      BY <1>1, <2>4 DEF Local, Shut
    <3>3. Shut(r)'
      BY <1>1, <2>6, <3>1 DEF Local, Shut, Open, Shows
    <3>4. Posted(r)'
      BY <1>2, <2>1, <2>3, <2>4, <2>5, <2>6, <3>1, <3>2 DEF Posted, Before, Taking
    <3> QED
      BY <3>3, <3>4
  <2>12. Arrived(r)' /\ Stays(r)'
    BY <1>2, <2>1, <2>2, <2>4, <2>6 DEF Arrived, Stays, Shows, Open
  <2>13. Sources(r)'
    BY <1>1, <1>2, <2>1, <2>2 DEF Sources, Before, Active, Receivers
  <2> QED
    BY <2>7, <2>8, <2>9, <2>10, <2>11, <2>12, <2>13, LocalStep DEF Local
<1>5. CASE Revoke(r)
  <2>1. /\ move'[r].at = "ack" /\ move'[r].removed = move[r].removed
        /\ move'[r].from = move[r].from /\ move'[r].prepared = move[r].prepared
        /\ \A q \in Receivers \ {r} : move'[q] = move[q]
    BY <1>5, GoesTo DEF Revoke
  <2>2. /\ \A w \in Windows \ {r} : transfer'[w] = transfer[w]
        /\ transfer'[r].phase = transfer[r].phase
        /\ transfer'[r].finalized = transfer[r].finalized
    BY <1>5, MarkedRevoked DEF Revoke
  <2>3. /\ DeliveryFirst(r)' /\ \A w \in Windows \ {r} : mail'[w] = mail[w]
        /\ ~ Open(r) => mail'[r] = mail[r]
        /\ \A e : InMail(r, e)' => InMail(r, e) \/ e = "revoke"
    BY <1>1, <1>5, SentMail DEF Revoke, Events, Posted
  <2>4. UNCHANGED <<life, shown, reception, incoming, reply, fragment, escrow, rescue>>
    BY <1>5 DEF Revoke, registry
  <2>5. Alone(r) /\ Screens(r) /\ Loyal(r)
    BY <1>1, <2>1, <2>2, <2>3, <2>4 DEF Alone, Screens, Loyal, Shows
  <2>6. Proceeds(r) /\ Keeps(r)
    BY <1>2, <1>5, <2>1, <2>2 DEF Revoke, Proceeds, Keeps, Reserved, Going, Rests
  <2>7. Course(r)' /\ Shut(r)'
    BY <1>1, <1>2, <1>5, <2>1, <2>2, <2>3, <2>4
       DEF Revoke, Local, Course, Shut, Open, Shows, Active, Before, Away, Late
  <2>8. Posted(r)' /\ Arrived(r)' /\ Stays(r)'
    BY <1>1, <1>2, <1>5, <2>1, <2>2, <2>3, <2>4
       DEF Revoke, Posted, Arrived, Stays, Shows, Before, Early, Taking
  <2>9. Sources(r)'
    BY <1>1, <1>2, <1>5, <2>1, <2>2, <2>4
       DEF Revoke, Sources, Sheltered, Before, Active, Open, Reserved, Shows, Receivers
  <2> QED
    BY <2>5, <2>6, <2>7, <2>8, <2>9, LocalStep DEF Local
<1> QED
  BY <1>3, <1>4, <1>5

-----------------------------------------------------------------------------
(* The receiver.                                                             *)

\* A move that has not removed the workspace still has it at its source, if
\* its receiver has it too.
LEMMA NotLost ==
  ASSUME Keeping, NEW r \in Receivers, ~ move[r].removed, Open(r), Shows(r) \/ escrow[r]
  PROVE  \/ move[r].from \in Windows \ {r} /\ Open(move[r].from) /\ Shows(move[r].from)
         \/ move[r].at = "over" /\ transfer[r].phase = "cleaned"
<1>1. Course(r) /\ Stays(r) /\ Sources(r)
  BY DEF Keeping, Local
<1>2. transfer[r].phase # "none" /\ transfer[r].phase # "rolled_back"
  BY <1>1 DEF Stays, Course
<1>3. CASE Active(r)
  BY <1>1, <1>2, <1>3 DEF Course, Reserved, Sources
<1>4. CASE ~ Active(r)
  BY <1>1, <1>2, <1>4 DEF Course, Active
<1> QED
  BY <1>3, <1>4

\* Only the receiver's window changes.
Within(r) ==
  /\ UNCHANGED <<life, move, rescue>>
  /\ \A w \in Windows \ {r} :
       /\ transfer'[w] = transfer[w] /\ reception'[w] = reception[w] /\ incoming'[w] = incoming[w]
       /\ mail'[w] = mail[w] /\ escrow'[w] = escrow[w] /\ reply'[w] = reply[w]
       /\ fragment'[w] = fragment[w] /\ shown'[w] = shown[w]
  /\ transfer'[r].phase = transfer[r].phase /\ transfer'[r].finalized = transfer[r].finalized

LEMMA WithinKeeps ==
  ASSUME Keeping, NEW r \in Receivers, Within(r), Open(r), Loyal(r),
         Held(r) => \/ Held(r)' \/ move[r].removed
                    \/ ~ (move[r].at = "over" /\ transfer[r].phase = "cleaned"),
         Posted(r)', Arrived(r)', Stays(r)'
  PROVE  Keeping'
<1>1. /\ Local(r) /\ Course(r) /\ Shut(r) /\ Sources(r) /\ r \in Windows
  BY ActiveFacts DEF Local
<1>2. Alone(r) /\ Screens(r)
  BY DEF Within, Alone, Screens, Shows
<1>3. Proceeds(r)
  BY DEF Within, Proceeds, Active, Going, Reserved
<1>4. Keeps(r)
  <2>1. ASSUME NEW w \in Windows \ {r}, Held(w) PROVE Held(w)'
    BY <2>1 DEF Within, Held, Open, Shows
  <2>2. CASE Held(r) /\ ~ Held(r)' /\ ~ move[r].removed
    <3>1. PICK s : s = move[r].from
      OBVIOUS
    <3>2. s \in Windows \ {r} /\ Held(s)
      BY <2>2, <3>1, NotLost DEF Held
    <3> QED
      BY <2>1, <3>2 DEF Keeps, Somewhere
  <2>3. CASE ~ (Held(r) /\ ~ Held(r)' /\ ~ move[r].removed)
    <3>1. move'[r].removed = move[r].removed
      BY DEF Within
    <3>2. ASSUME NEW w \in Windows, Held(w) PROVE Somewhere' \/ move[r].removed
      BY <1>1, <2>1, <2>3, <3>2 DEF Somewhere
    <3> QED
      BY <3>1, <3>2 DEF Keeps, Somewhere
  <2> QED
    BY <2>2, <2>3
<1>5. Course(r)'
  BY <1>1 DEF Within, Course, Open, Active
<1>6. Shut(r)'
  BY DEF Within, Shut, Open
<1>7. Sources(r)'
  <2>1. PICK s : s = move[r].from
    OBVIOUS
  <2>2. Active(r) => s \in Windows \ {r}
    BY <1>1, <2>1 DEF Sources
  <2>3. s \in Windows \ {r} =>
          (Open(s)' <=> Open(s)) /\ (Shows(s)' <=> Shows(s)) /\ (Sheltered(s)' <=> Sheltered(s))
    BY DEF Within, Open, Shows, Sheltered
  <2>4. /\ s \in Receivers => transfer'[s].phase = transfer[s].phase /\ (Reserved(s)' <=> Reserved(s))
        /\ Reserved(r)' <=> Reserved(r)
    BY DEF Within, Receivers, Reserved
  <2>5. /\ move'[r] = move[r] /\ (Active(r)' <=> Active(r))
        /\ move[r].at \in Before \cup {"ready", "attached"} => Active(r)
    BY DEF Within, Active, Before
  <2> QED
    BY <1>1, <2>1, <2>2, <2>3, <2>4, <2>5 DEF Sources
<1> QED
  BY <1>2, <1>3, <1>4, <1>5, <1>6, <1>7, LocalStep DEF Local

\* What is taken back was not there before.
LEMMA TakenBack ==
  ASSUME TypeOK, NEW r \in Windows, TakenOff(r)
  PROVE  /\ \A w \in Windows \ {r} : shown'[w] = shown[w]
         /\ Shows(r)' => Shows(r)
         /\ Shows(r) => Shows(r)' \/ ~ reception[r].had
  BY DEF TypeOK, TakenOff, Shows

LEMMA PublishedHere ==
  ASSUME TypeOK, NEW r \in Windows, NEW has \in BOOLEAN, Published(r, has)
  PROVE  fragment'[r] = has /\ \A w \in Windows \ {r} : fragment'[w] = fragment[w]
  BY DEF TypeOK, Published

LEMMA DeliverySteps ==
  ASSUME TypeOK, Keeping, NEW r \in Receivers,
         Delivered(r) \/ AskVia(r) \/ AdoptDelivery(r) \/ AttachedHere(r) \/ AttachTimeout(r) \/ GiveUp(r)
  PROVE  Keeping'
<1>1. /\ Local(r) /\ Course(r) /\ Shut(r) /\ Posted(r) /\ Arrived(r) /\ Stays(r)
      /\ r \in Windows /\ r # Main
      /\ Active(r) /\ move[r].prepared /\ Open(r) => Reserved(r)
      /\ move[r].removed => Active(r) /\ move[r].prepared
  BY ActiveFacts DEF Local
<1>2. /\ Open(r) /\ move[r].removed /\ Active(r) /\ Reserved(r)
      /\ move[r].at \notin {"receive", "clean", "finalize"} /\ reply[r] # "ok"
      /\ move[r].at \notin Before \cup {"idle", "publish", "send", "over"}
      /\ transfer[r].phase # "none" /\ (reply[r] # "none" => move[r].at = "wait")
  <2>1. CASE Delivered(r)
    <3>1. Open(r) /\ InMail(r, "delivery")
      BY <1>1, <2>1, TakenMail DEF Delivered, Posted
    <3>2. mail[r] # <<>>
      BY <3>1, NoMail, <1>1
    <3> QED
      BY <1>1, <3>1, <3>2 DEF Posted, Arrived, Active, Reserved
  <2>2. CASE reception[r].at \in Taking
    BY <1>1, <2>2 DEF Posted, Shut, Arrived, Taking, Active, Reserved
  <2> QED
    BY <2>1, <2>2 DEF AskVia, AdoptDelivery, AttachedHere, AttachTimeout, GiveUp, Taking
<1>3. CASE Delivered(r)
  <2>1. /\ reception'[r].at = "asking" /\ reception'[r].had = Shows(r) /\ incoming'[r]
        /\ \A w \in Windows \ {r} : reception'[w] = reception[w] /\ incoming'[w] = incoming[w]
    BY <1>1, <1>3 DEF Delivered, TypeOK
  <2>2. /\ ~ InMail(r, "delivery")' /\ DeliveryFirst(r)'
        /\ \A e : InMail(r, e)' => InMail(r, e)
        /\ \A w \in Windows \ {r} : mail'[w] = mail[w]
    BY <1>1, <1>3, TakenMail DEF Delivered, Posted
  <2>3. UNCHANGED <<life, shown, move, reply, fragment, escrow, rescue, transfer>>
    BY <1>3 DEF Delivered, registry
  <2>4. Within(r) /\ Loyal(r)
    BY <1>2, <2>1, <2>2, <2>3 DEF Within, Loyal, Shows
  <2>5. Held(r) => Held(r)'
    BY <2>3 DEF Held, Open, Shows
  <2>6. Posted(r)' /\ Arrived(r)' /\ Stays(r)'
    BY <1>1, <1>2, <2>1, <2>2, <2>3 DEF Posted, Arrived, Stays, Taking, Shows
  <2> QED
    BY <1>2, <2>4, <2>5, <2>6, WithinKeeps
<1>4. CASE AskVia(r) \/ AttachTimeout(r)
  <2>1. /\ reception'[r].at \in {"adopting", "failing"} /\ reception'[r].had = reception[r].had
        /\ \A w \in Windows \ {r} : reception'[w] = reception[w]
    BY <1>1, <1>4, AskedVia, DoingTo DEF AttachTimeout
  <2>2. UNCHANGED <<life, shown, move, incoming, mail, reply, fragment, escrow, rescue, transfer>>
    BY <1>4 DEF AskVia, AttachTimeout, registry
  <2>3. reception[r].at \in Taking
    BY <1>4 DEF AskVia, AttachTimeout, Taking
  <2>4. Within(r) /\ Loyal(r)
    BY <2>1, <2>2 DEF Within, Loyal, Shows
  <2>5. Held(r) => Held(r)'
    BY <2>2 DEF Held, Open, Shows
  <2>6. Posted(r)' /\ Arrived(r)' /\ Stays(r)'
    BY <1>1, <1>2, <2>1, <2>2, <2>3, SameMail DEF Posted, Arrived, Stays, Taking, Shows
  <2> QED
    BY <1>2, <2>4, <2>5, <2>6, WithinKeeps
<1>5. CASE AdoptDelivery(r)
  <2>1. /\ reception'[r].at \in {"attaching", "failing"} /\ reception'[r].had = reception[r].had
        /\ \A w \in Windows \ {r} : reception'[w] = reception[w]
        /\ reception[r].at = "adopting"
    BY <1>1, <1>5, DoingTo DEF AdoptDelivery
  <2>2. /\ \A w \in Windows \ {r} : shown'[w] = shown[w]
        /\ Shows(r) => Shows(r)'
        /\ reception'[r].at = "attaching" => Shows(r)'
    BY <1>1, <1>5, DoingTo DEF AdoptDelivery, TypeOK, Shows
  <2>3. UNCHANGED <<life, move, incoming, mail, reply, fragment, escrow, rescue, transfer>>
    BY <1>5 DEF AdoptDelivery, registry
  <2>4. Within(r) /\ Loyal(r)
    BY <2>1, <2>2, <2>3 DEF Within, Loyal
  <2>5. Held(r) => Held(r)'
    BY <2>2, <2>3 DEF Held, Open
  <2>6. Posted(r)' /\ Arrived(r)' /\ Stays(r)'
    BY <1>1, <1>2, <2>1, <2>2, <2>3, SameMail DEF Posted, Arrived, Stays, Taking
  <2> QED
    BY <1>2, <2>4, <2>5, <2>6, WithinKeeps
<1>6. CASE AttachedHere(r)
  <2>1. /\ reception'[r].at = "done" /\ reception'[r].had = reception[r].had
        /\ \A w \in Windows \ {r} : reception'[w] = reception[w]
        /\ reception[r].at = "attached"
    BY <1>1, <1>6, DoingTo DEF AttachedHere
  <2>2. fragment'[r] = TRUE /\ \A w \in Windows \ {r} : fragment'[w] = fragment[w]
    BY <1>1, <1>6, PublishedHere DEF AttachedHere
  <2>3. /\ \A w \in Windows \ {r} : reply'[w] = reply[w]
        /\ reply'[r] = IF move[r].at = "wait" THEN "ok" ELSE reply[r]
    BY <1>1, <1>6, AnswersTo DEF AttachedHere
  <2>4. UNCHANGED <<life, shown, move, incoming, mail, escrow, rescue, transfer>>
    BY <1>6 DEF AttachedHere
  <2>5. Within(r) /\ Loyal(r)
    BY <2>1, <2>2, <2>3, <2>4 DEF Within, Loyal, Shows
  <2>6. Held(r) => Held(r)'
    BY <2>4 DEF Held, Open, Shows
  <2>7. Shows(r) /\ ~ InMail(r, "delivery")
    BY <1>1, <2>1 DEF Posted
  <2>8. Posted(r)' /\ Stays(r)'
    BY <1>1, <1>2, <2>1, <2>2, <2>3, <2>4, SameMail DEF Posted, Stays, Taking, Shows
  <2>9. Arrived(r)'
    BY <1>1, <1>2, <2>1, <2>2, <2>4, <2>7, SameMail DEF Arrived, Shows, Open
  <2> QED
    BY <1>2, <2>5, <2>6, <2>8, <2>9, WithinKeeps
<1>7. CASE GiveUp(r)
  <2>1. /\ reception'[r].at = "failed" /\ reception'[r].had = reception[r].had
        /\ \A w \in Windows \ {r} : reception'[w] = reception[w]
        /\ reception[r].at = "failing" /\ incoming[r]
    BY <1>1, <1>7, DoingTo DEF GiveUp, Posted, Taking
  <2>2. /\ \A w \in Windows \ {r} : shown'[w] = shown[w]
        /\ Shows(r)' => Shows(r)
        /\ Shows(r) => Shows(r)' \/ ~ reception[r].had
    BY <1>1, <1>7, TakenBack DEF GiveUp
  <2>3. \A w \in Windows \ {r} : fragment'[w] = fragment[w]
    BY <1>1, <1>7, PublishedHere DEF GiveUp
  <2>4. /\ \A w \in Windows \ {r} : reply'[w] = reply[w]
        /\ reply'[r] = IF move[r].at = "wait" THEN "failed" ELSE reply[r]
    BY <1>1, <1>7, AnswersTo DEF GiveUp
  <2>5. UNCHANGED <<life, move, incoming, mail, escrow, rescue, transfer>>
    BY <1>7 DEF GiveUp
  <2>6. Within(r) /\ Loyal(r)
    BY <2>1, <2>2, <2>3, <2>4, <2>5 DEF Within, Loyal
  <2>7. Posted(r)' /\ Arrived(r)' /\ Stays(r)'
    BY <1>1, <1>2, <2>1, <2>2, <2>4, <2>5, SameMail DEF Posted, Arrived, Stays, Taking
  <2> QED
    BY <1>2, <2>6, <2>7, WithinKeeps
<1> QED
  BY <1>3, <1>4, <1>5, <1>6, <1>7

LEMMA AftermathSteps ==
  ASSUME TypeOK, Keeping, NEW r \in Receivers,
         RevokeHere(r) \/ FinalizedHere(r) \/ Abandon(r) \/ Drain(r) \/ Republish(r)
  PROVE  Keeping'
<1>1. /\ Local(r) /\ Course(r) /\ Shut(r) /\ Posted(r) /\ Arrived(r) /\ Stays(r)
      /\ r \in Windows /\ r # Main
      /\ Active(r) /\ move[r].prepared /\ Open(r) => Reserved(r)
      /\ move[r].removed => Active(r) /\ move[r].prepared
  BY ActiveFacts DEF Local
<1>2. CASE RevokeHere(r)
  <2>1. /\ InMail(r, "revoke") /\ DeliveryFirst(r)' /\ Open(r)
        /\ \A e : InMail(r, e)' => InMail(r, e)
        /\ \A w \in Windows \ {r} : mail'[w] = mail[w]
    BY <1>1, <1>2, TakenMail DEF RevokeHere, Posted
  <2>2. mail[r] # <<>>
    BY <1>1, <2>1, NoMail
  <2>3. /\ move[r].removed /\ move[r].at \notin Before \cup {"idle", "publish", "send", "over"}
        /\ move[r].at \notin {"wait", "receive", "clean", "finalize"}
        /\ reply[r] = "none" /\ transfer[r].phase # "none"
    BY <1>1, <2>1, <2>2 DEF Posted, Active, Early, Course
  <2>4. /\ \A w \in Windows \ {r} : transfer'[w] = transfer[w]
        /\ transfer'[r].phase = transfer[r].phase
        /\ transfer'[r].finalized = transfer[r].finalized
    BY <1>2, MarkedRevoked DEF RevokeHere
  <2>5. /\ ~ incoming'[r] /\ \A w \in Windows \ {r} : incoming'[w] = incoming[w]
        /\ UNCHANGED <<life, move, reply, escrow, rescue>>
    BY <1>1, <1>2 DEF RevokeHere, TypeOK
  <2>6. /\ \A w \in Windows \ {r} :
             reception'[w] = reception[w] /\ shown'[w] = shown[w] /\ fragment'[w] = fragment[w]
        /\ Shows(r)' => Shows(r)
        /\ Shows(r) => Shows(r)' \/ (incoming[r] /\ ~ reception[r].had)
        /\ reception'[r].at = "revoked"
             \/ (reception'[r] = reception[r] /\ ~ incoming[r] /\ UNCHANGED shown)
    <3>1. CASE incoming[r]
      BY <1>1, <1>2, <3>1, DoingTo, TakenBack, PublishedHere DEF RevokeHere
    <3>2. CASE ~ incoming[r]
      BY <1>2, <3>2 DEF RevokeHere, Shows
    <3> QED
      BY <3>1, <3>2
  <2>7. Within(r) /\ Loyal(r)
    BY <2>1, <2>4, <2>5, <2>6 DEF Within, Loyal
  <2>8. Posted(r)'
    <3>1. reception'[r].at \in Taking => reception[r].at \in Taking /\ ~ incoming[r]
      BY <2>6 DEF Taking
    <3>2. reception'[r].at \notin Taking
      BY <1>1, <3>1 DEF Posted
    <3>3. move'[r] = move[r] /\ reply'[r] = reply[r] /\ ~ InMail(r, "finalize")
      BY <1>1, <2>3, <2>5 DEF Posted
    <3>4. ~ InMail(r, "delivery")'
      BY <1>1, <1>2, TakenMail DEF RevokeHere, Posted
    <3> QED
      BY <1>1, <2>1, <2>3, <3>2, <3>3, <3>4 DEF Posted, Taking
  <2>9. Arrived(r)'
    BY <2>3, <2>5 DEF Arrived
  <2>10. Stays(r)'
    BY <2>3, <2>4, <2>5 DEF Stays
  <2> QED
    BY <2>1, <2>3, <2>7, <2>8, <2>9, <2>10, WithinKeeps
<1>3. CASE FinalizedHere(r)
  <2>1. /\ InMail(r, "finalize") /\ DeliveryFirst(r)' /\ Open(r)
        /\ \A e : InMail(r, e)' => InMail(r, e)
        /\ \A w \in Windows \ {r} : mail'[w] = mail[w]
    BY <1>1, <1>3, TakenMail DEF FinalizedHere, Posted
  <2>2. move[r].at = "over" /\ ~ move[r].removed /\ reply[r] = "none"
    BY <1>1, <2>1 DEF Posted, Course, Active
  <2>3. /\ ~ incoming'[r] /\ \A w \in Windows \ {r} : incoming'[w] = incoming[w]
        /\ UNCHANGED <<life, shown, move, reception, reply, fragment, escrow, rescue, transfer>>
    BY <1>1, <1>3 DEF FinalizedHere, TypeOK, registry
  <2>4. Within(r) /\ Loyal(r)
    BY <2>1, <2>3 DEF Within, Loyal, Shows
  <2>5. Held(r) => Held(r)'
    BY <2>3 DEF Held, Open, Shows
  <2>6. Posted(r)' /\ Arrived(r)' /\ Stays(r)'
    BY <1>1, <2>1, <2>2, <2>3 DEF Posted, Arrived, Stays, Shows, Before
  <2> QED
    BY <2>1, <2>4, <2>5, <2>6, WithinKeeps
<1>4. CASE Abandon(r)
  <2>1. /\ ~ incoming'[r] /\ \A w \in Windows \ {r} : incoming'[w] = incoming[w]
        /\ UNCHANGED <<life, move, reception, mail, reply, fragment, escrow, rescue, transfer>>
        /\ Open(r) /\ incoming[r] /\ reception[r].at \in {"failed", "done"}
    BY <1>1, <1>4 DEF Abandon, TypeOK, registry
  <2>2. /\ \A w \in Windows \ {r} : shown'[w] = shown[w]
        /\ Shows(r)' => Shows(r)
        /\ Shows(r) => Shows(r)' \/ (~ reception[r].had /\ reception[r].at = "failed")
    BY <1>1, <1>4, TakenBack DEF Abandon, Shows
  <2>3. Within(r) /\ Loyal(r)
    BY <2>1, <2>2 DEF Within, Loyal
  <2>4. move[r].at = "over" /\ transfer[r].phase = "cleaned" => (Shows(r) => Shows(r)')
    BY <1>1, <2>1, <2>2 DEF Stays
  <2>5. Posted(r)'
    BY <1>1, <2>1, SameMail DEF Posted, Taking
  <2>6. Arrived(r)'
    BY <1>1, <2>1, <2>2, SameMail DEF Arrived, Open
  <2>7. Stays(r)'
    BY <1>1, <2>1, <2>2 DEF Stays, Open
  <2>8. Held(r) => Held(r)' \/ ~ (move[r].at = "over" /\ transfer[r].phase = "cleaned")
    BY <2>1, <2>4 DEF Held, Open
  <2> QED
    BY <2>1, <2>3, <2>5, <2>6, <2>7, <2>8, WithinKeeps
<1>5. CASE Drain(r)
  <2>1. /\ \A w \in Windows \ {r} : shown'[w] = shown[w] /\ escrow'[w] = escrow[w]
        /\ ~ escrow'[r] /\ (Shows(r)' <=> Shows(r) \/ escrow[r]) /\ Open(r)
    BY <1>1, <1>5 DEF Drain, TypeOK, Shows
  <2>2. UNCHANGED <<life, move, reception, incoming, mail, reply, fragment, rescue, transfer>>
    BY <1>5 DEF Drain
  <2>3. Within(r) /\ Loyal(r)
    BY <2>1, <2>2 DEF Within, Loyal
  <2>4. Held(r) => Held(r)'
    BY <2>1, <2>2 DEF Held, Open
  <2>5. Posted(r)'
    BY <1>1, <2>1, <2>2, SameMail DEF Posted
  <2>6. Arrived(r)' /\ Stays(r)'
    BY <1>1, <2>1, <2>2, SameMail DEF Arrived, Stays, Open
  <2> QED
    BY <2>1, <2>3, <2>4, <2>5, <2>6, WithinKeeps
<1>6. CASE Republish(r)
  <2>1. /\ fragment'[r] = Shows(r) /\ \A w \in Windows \ {r} : fragment'[w] = fragment[w]
        /\ Open(r)
    BY <1>1, <1>6, PublishedHere DEF Republish, Shows
  <2>2. UNCHANGED <<life, shown, move, reception, incoming, mail, reply, escrow, rescue, transfer>>
    BY <1>6 DEF Republish, windowVars
  <2>3. Within(r) /\ Loyal(r)
    BY <2>1, <2>2 DEF Within, Loyal, Shows
  <2>4. Held(r) => Held(r)'
    BY <2>2 DEF Held, Open, Shows
  <2>5. Posted(r)'
    BY <1>1, <2>2, SameMail DEF Posted, Shows
  <2>6. Arrived(r)' /\ Stays(r)'
    BY <1>1, <2>1, <2>2, SameMail DEF Arrived, Stays, Open, Shows
  <2> QED
    BY <2>1, <2>3, <2>4, <2>5, <2>6, WithinKeeps
<1> QED
  BY <1>2, <1>3, <1>4, <1>5, <1>6

-----------------------------------------------------------------------------
(* The startup window, rescues and attach calls.                             *)

\* Moves and receivers stay as they are, but for an answer to an attach call.
Kin(r) ==
  /\ \/ move'[r].at = move[r].at
     \/ move[r].at = "ready" /\ move'[r].at = "attached"
  /\ move'[r].from = move[r].from /\ move'[r].prepared = move[r].prepared
  /\ move'[r].removed = move[r].removed
  /\ \/ reception'[r].at = reception[r].at
     \/ reception[r].at = "attaching" /\ reception'[r].at = "attached"
  /\ reception'[r].had = reception[r].had
  /\ (Shows(r)' <=> Shows(r)) /\ escrow'[r] = escrow[r] /\ fragment'[r] = fragment[r]

LEMMA KinKeeps ==
  ASSUME Keeping, UNCHANGED <<life, incoming, mail, reply, transfer>>,
         rescue' \in {Nobody, Main}, \A r \in Receivers : Kin(r),
         Shows(Main) => Shows(Main)',
         Shows(Main) \/ escrow[Main] => Shows(Main)' \/ escrow'[Main]
  PROVE  Keeping'
<1> USE Numbers
<1>1. /\ \A w : Open(w)' <=> Open(w)
      /\ \A r \in Receivers : (Active(r)' <=> Active(r)) /\ (Going(r)' <=> Going(r))
      /\ \A r : Reserved(r)' <=> Reserved(r)
      /\ \A r : (InMail(r, "delivery")' <=> InMail(r, "delivery"))
                /\ (InMail(r, "revoke")' <=> InMail(r, "revoke"))
                /\ (InMail(r, "finalize")' <=> InMail(r, "finalize"))
                /\ (DeliveryFirst(r)' <=> DeliveryFirst(r))
  BY DEF Open, Active, Going, Rests, Reserved, InMail, DeliveryFirst, Kin
<1>2. \A r \in Receivers : move'[r].from = move[r].from /\ move'[r].removed = move[r].removed
  BY DEF Kin
<1>3. MainStays' /\ OneMove' /\ OneReserved'
  BY <1>1, <1>2 DEF Keeping, MainStays, OneMove, OneReserved
<1>4. \A w \in Windows : Held(w) => Held(w)'
  BY <1>1 DEF Held, Kin, Receivers
<1>5. Somewhere' \/ \E r \in Receivers : move'[r].removed
  BY <1>2, <1>4 DEF Keeping, Somewhere
<1>6. ASSUME NEW r \in Receivers PROVE Local(r)'
  <2>1. /\ Local(r) /\ Course(r) /\ Shut(r) /\ Posted(r) /\ Arrived(r) /\ Stays(r) /\ Sources(r)
        /\ Kin(r) /\ r \in Windows
    BY <1>6, ActiveFacts DEF Local
  <2>2. Course(r)'
    BY <1>1, <2>1 DEF Course, Kin, Before, Away, Late
  <2>3. Shut(r)' /\ Posted(r)'
    BY <1>1, <2>1 DEF Shut, Posted, Kin, Before, Early, Taking
  <2>4. Arrived(r)'
    BY <1>1, <2>1 DEF Arrived, Kin
  <2>5. Stays(r)'
    BY <1>1, <1>2, <2>1 DEF Stays, Kin
  <2>6. Sources(r)'
    <3>1. PICK s : s = move[r].from
      OBVIOUS
    <3>2. s \in Windows => (Shows(s) => Shows(s)')
      BY DEF Kin, Receivers
    <3>3. Sheltered(s)' <=> Sheltered(s)
      BY DEF Sheltered, Kin
    <3>4. /\ Active(r) => s \in Windows \ {r} /\ Open(s)
          /\ s \in Receivers => transfer[s].phase # "none"
          /\ Active(r) /\ move[r].prepared /\ s \in Receivers => ~ Reserved(s)
          /\ move[r].at \in Before \cup {"ready", "attached"} => Shows(s) /\ Active(r)
          /\ Active(r) /\ Reserved(r) /\ ~ move[r].removed => Shows(s)
          /\ Active(r) /\ (move[r].prepared \/ move[r].at \in Before) => Sheltered(s)
      BY <2>1, <3>1 DEF Sources, Active, Before
    <3>5. /\ move'[r].from = s /\ move'[r].prepared = move[r].prepared
          /\ move'[r].removed = move[r].removed
          /\ move'[r].at \in Before => move[r].at \in Before
          /\ move'[r].at \in {"ready", "attached"} => move[r].at \in {"ready", "attached"}
      BY <2>1, <3>1 DEF Kin, Before
    <3> QED
      BY <1>1, <3>2, <3>3, <3>4, <3>5 DEF Sources
  <2> QED
    BY <2>2, <2>3, <2>4, <2>5, <2>6 DEF Local
<1> QED
  BY <1>3, <1>5, <1>6 DEF Keeping

LEMMA OtherSteps ==
  ASSUME TypeOK, Keeping,
         \/ Republish(Main) \/ Drain(Main) \/ Rescued
         \/ \E w \in Windows : Mount(w)
         \/ \E c \in attaching : Attach(c)
  PROVE  Keeping'
<1> USE Numbers
<1>1. rescue \in {Nobody, Main} /\ Main \in Windows /\ \A r \in Receivers : r \in Windows /\ r # Main
  BY DEF Keeping, MainStays, Receivers
<1>2. CASE Republish(Main)
  <2>1. \A w \in Windows : w # Main => fragment'[w] = fragment[w]
    BY <1>2 DEF Republish, Published, TypeOK
  <2> QED
    BY <1>1, <1>2, <2>1, KinKeeps DEF Republish, windowVars, authority, Kin, Shows
<1>3. CASE Drain(Main)
  <2>1. /\ \A w \in Windows : w # Main => shown'[w] = shown[w] /\ escrow'[w] = escrow[w]
        /\ Shows(Main)' <=> Shows(Main) \/ escrow[Main]
    BY <1>1, <1>3 DEF Drain, TypeOK, Shows
  <2>2. \A r \in Receivers : Kin(r)
    BY <1>1, <1>3, <2>1 DEF Drain, Kin, Shows
  <2> QED
    BY <1>1, <1>3, <2>1, <2>2, KinKeeps DEF Drain
<1>4. CASE Rescued
  BY <1>1, <1>4, KinKeeps DEF Rescued, windowVars, Kin, Shows
<1>5. CASE \E w \in Windows : Mount(w)
  BY <1>1, <1>5, KinKeeps DEF Mount, windowVars, registry, Kin, Shows
<1>6. CASE \E c \in attaching : Attach(c)
  <2>1. PICK c \in attaching : Attach(c)
    BY <1>6
  <2>2. ASSUME NEW r \in Receivers PROVE Kin(r)
    <3>1. move[r] \in Move /\ reception[r] \in Reception
      BY <1>1 DEF TypeOK
    <3>2. /\ move'[r] = move[r] \/ (move[r].at = "ready" /\ move'[r] = [move[r] EXCEPT !.at = "attached"])
          /\ \/ reception'[r] = reception[r]
             \/ /\ reception[r].at = "attaching"
                /\ reception'[r] = [reception[r] EXCEPT !.at = "attached"]
      BY <1>1, <2>1 DEF Attach
    <3>3. UNCHANGED <<shown, escrow, fragment>>
      BY <2>1 DEF Attach, registry
    <3> QED
      BY <3>1, <3>2, <3>3 DEF Kin, Move, Reception, Shows
  <2> QED
    BY <1>1, <2>1, <2>2, KinKeeps DEF Attach, registry, Shows
<1> QED
  BY <1>2, <1>3, <1>4, <1>5, <1>6

-----------------------------------------------------------------------------
(* Moves begin.                                                              *)

LEMMA PrepareKeeps ==
  ASSUME TypeOK, Keeping, NEW r \in Receivers, Prepare(r)
  PROVE  Keeping'
<1> USE Numbers
<1>1. /\ Local(r) /\ Course(r) /\ Shut(r) /\ Posted(r) /\ Stays(r) /\ Sources(r) /\ r \in Windows
      /\ UNCHANGED <<life, shown, reception, incoming, mail, reply, escrow, fragment, rescue>>
  BY ActiveFacts DEF Prepare, registry, Local
<1>2. /\ move[r].at = "prepare" /\ Active(r) /\ Going(r) /\ transfer[r].phase = "none"
      /\ ~ move[r].removed /\ ~ Reserved(r)
  BY <1>1 DEF Prepare, Course, Active, Going, Rests, Before, Reserved
<1>3. CASE Goes(r, "retire")
  <2>1. transfer' = transfer
    BY <1>3, GoesTo DEF Prepare, TypeOK, Move
  <2>2. Unmoved(r)
    BY <1>1, <1>3, <2>1, GoesTo DEF Unmoved
  <2>3. Continues(r)
    BY <1>1, <1>2, <1>3, <2>1, GoesTo
       DEF Continues, Course, Active, Reserved, Going, Rests, Before, Early, Away, Late
  <2>4. Course(r)'
    <3>1. /\ move'[r].at = "retire" /\ move'[r].removed = move[r].removed
          /\ move'[r].prepared = move[r].prepared
      BY <1>3, GoesTo
    <3>2. life[r] # "absent" /\ ~ move[r].prepared /\ ~ transfer[r].finalized
      BY <1>1, <1>2 DEF Course
    <3> QED
      BY <1>1, <1>2, <2>1, <3>1, <3>2 DEF Course, Before, Away, Late
  <2> QED
    BY <2>2, <2>3, <2>4, StageKeeps
<1>4. CASE ~ Goes(r, "retire")
  <2>1. /\ ~ AnyReserved
        /\ move'[r].at = "show" /\ move'[r].prepared
        /\ move'[r].from = move[r].from /\ move'[r].removed = move[r].removed
        /\ \A q \in Receivers \ {r} : move'[q] = move[q]
        /\ transfer'[r].phase = "prepared" /\ ~ transfer'[r].finalized
        /\ \A w \in Windows \ {r} : transfer'[w] = transfer[w]
    BY <1>4, PreparedTo
  <2>2. /\ \A q \in Receivers \ {r} : ~ Reserved(q)' /\ ~ Reserved(q)
        /\ \A q \in Receivers : move'[q].from = move[q].from
        /\ \A q \in Receivers : Going(q)' <=> Going(q)
        /\ \A w : (Open(w)' <=> Open(w)) /\ (Shows(w)' <=> Shows(w)) /\ (Sheltered(w)' <=> Sheltered(w))
    BY <1>1, <1>2, <2>1 DEF AnyReserved, Reserved, Going, Rests, Open, Shows, Sheltered
  <2>3. MainStays' /\ OneMove' /\ OneReserved'
    <3>1. MainStays'
      BY <1>1, <2>2 DEF Keeping, MainStays
    <3>2. OneMove'
      BY <2>2 DEF Keeping, OneMove
    <3>3. OneReserved'
      BY <2>2 DEF OneReserved
    <3> QED
      BY <3>1, <3>2, <3>3
  <2>4. Somewhere' \/ \E q \in Receivers : move'[q].removed
    BY <1>1, <2>1, <2>2 DEF Keeping, Somewhere, Held
  <2>5. ASSUME NEW q \in Receivers \ {r} PROVE Local(q)'
    <3>1. /\ Local(q) /\ Course(q) /\ Shut(q) /\ Posted(q) /\ Arrived(q) /\ Stays(q) /\ Sources(q)
          /\ q \in Windows /\ move'[q] = move[q] /\ transfer'[q] = transfer[q]
      BY <2>1, ActiveFacts DEF Local
    <3>2. Course(q)' /\ Shut(q)'
      BY <1>1, <3>1 DEF Course, Shut, Open, Active, Shows
    <3>3. Posted(q)' /\ Arrived(q)'
      BY <1>1, <3>1, SameMail DEF Posted, Arrived, Open, Shows
    <3>4. Stays(q)'
      BY <1>1, <2>2, <3>1 DEF Stays
    <3>5. Sources(q)'
      <4>1. PICK s : s = move[q].from
        OBVIOUS
      <4>2. s \in Receivers => s # r /\ transfer'[s] = transfer[s] /\ ~ Reserved(s)'
        BY <1>2, <2>1, <2>2, <3>1, <4>1 DEF Sources
      <4> QED
        BY <2>2, <3>1, <4>1, <4>2 DEF Sources, Active
    <3> QED
      BY <3>2, <3>3, <3>4, <3>5 DEF Local
  <2>6. Local(r)'
    <3>1. Course(r)' /\ Shut(r)'
      BY <1>1, <1>2, <2>1 DEF Course, Shut, Open, Active, Shows, Before, Away, Late
    <3>2. Posted(r)' /\ Arrived(r)'
      BY <1>1, <1>2, <2>1, NoMailNext DEF Posted, Arrived, Shows, Before, Taking
    <3>3. Stays(r)'
      BY <2>1 DEF Stays
    <3>4. Sources(r)'
      <4>1. PICK s : s = move[r].from
        OBVIOUS
      <4>2. s \in Windows \ {r} /\ Open(s) /\ Shows(s) /\ Sheltered(s)
        BY <1>1, <1>2, <4>1 DEF Sources, Before
      <4>3. s \in Receivers => transfer'[s].phase # "none" /\ ~ Reserved(s)'
        BY <1>1, <2>1, <2>2, <4>1, <4>2 DEF Sources
      <4> QED
        BY <2>1, <2>2, <4>1, <4>2, <4>3 DEF Sources
    <3> QED
      BY <3>1, <3>2, <3>3, <3>4 DEF Local
  <2> QED
    BY <2>3, <2>4, <2>5, <2>6 DEF Keeping
<1> QED
  BY <1>3, <1>4

LEMMA StartKeeps ==
  ASSUME TypeOK, Keeping, NEW r \in Receivers, NEW s \in Windows, Start(s, r)
  PROVE  Keeping'
<1> USE Numbers
<1>1. /\ Open(s) /\ Shows(s) /\ ~ Open(r) /\ s # r /\ life[r] = "absent" /\ ~ incoming[s]
      /\ \A q \in Receivers : ~ (Going(q) /\ move[q].from = s)
      /\ UNCHANGED <<shown, reception, incoming, mail, reply, escrow, fragment, rescue, transfer>>
  BY DEF Start, Open, Busy, Going, registry, authority
<1>2. /\ move'[r] = [AtRest EXCEPT !.at = "opening", !.from = s]
      /\ \A q \in Receivers \ {r} : move'[q] = move[q]
  BY DEF Start, TypeOK
<1>3. /\ move'[r].at = "opening" /\ move'[r].from = s
      /\ ~ move'[r].prepared /\ ~ move'[r].removed
  BY <1>2 DEF AtRest
<1>4. /\ life'[r] = "open" /\ \A w \in Windows \ {r} : life'[w] = life[w]
  BY DEF Start, TypeOK
<1>5. /\ Local(r) /\ Course(r) /\ Shut(r) /\ Posted(r) /\ Stays(r) /\ r \in Windows /\ r # Main
  BY ActiveFacts DEF Local
<1>6. /\ move[r].at = "idle" /\ move[r].from = Nobody /\ transfer[r].phase = "none"
      /\ ~ transfer[r].finalized /\ ~ Shows(r) /\ ~ escrow[r] /\ ~ Reserved(r) /\ ~ move[r].removed
      /\ reception[r].at = "none" /\ mail[r] = <<>> /\ reply[r] = "none"
  BY <1>1, <1>5 DEF Course, Shut, Posted, Stays, Reserved, Active
<1>7. /\ \A w : (Shows(w)' <=> Shows(w)) /\ (Sheltered(w)' <=> Sheltered(w))
      /\ \A w : Reserved(w)' <=> Reserved(w)
      /\ \A w \in Windows \ {r} : Open(w)' <=> Open(w)
      /\ \A q \in Receivers \ {r} : move[q].from # r
      /\ Open(Main)
  <2>1. ASSUME NEW q \in Receivers PROVE move[q].from # r
    BY <1>6, <2>1 DEF Keeping, Local, Sources
  <2> QED
    BY <1>1, <1>4, <2>1 DEF Shows, Sheltered, Reserved, Open, Keeping, MainStays
<1>8. MainStays'
  <2>1. Open(Main)' /\ rescue' \in {Nobody, Main}
    BY <1>1, <1>5, <1>7 DEF Keeping, MainStays
  <2>2. CASE \A q \in Receivers : life[q] = "absent"
    BY <1>1, <1>3, <2>1, <2>2 DEF MainStays, Open, Receivers
  <2>3. CASE \E q \in Receivers : move[q].from = Main
    BY <1>2, <1>6, <2>1, <2>3 DEF MainStays
  <2> QED
    BY <2>2, <2>3 DEF Keeping, MainStays
<1>9. OneMove' /\ OneReserved'
  <2>1. \A q \in Receivers \ {r} : (Going(q)' <=> Going(q)) /\ move'[q].from = move[q].from
    BY <1>2 DEF Going
  <2>2. OneMove'
    BY <1>1, <1>3, <2>1 DEF Keeping, OneMove
  <2>3. OneReserved'
    BY <1>7 DEF Keeping, OneReserved
  <2> QED
    BY <2>2, <2>3
<1>10. Somewhere' \/ \E q \in Receivers : move'[q].removed
  <2>1. ASSUME NEW w \in Windows, Held(w) PROVE Held(w)'
    BY <1>1, <1>7, <2>1 DEF Held
  <2>2. ASSUME NEW q \in Receivers, move[q].removed PROVE move'[q].removed
    BY <1>2, <1>6, <2>2
  <2> QED
    BY <2>1, <2>2 DEF Keeping, Somewhere
<1>11. ASSUME NEW q \in Receivers \ {r} PROVE Local(q)'
  <2>1. /\ Local(q) /\ Course(q) /\ Shut(q) /\ Posted(q) /\ Arrived(q) /\ Stays(q) /\ Sources(q)
        /\ q \in Windows /\ move'[q] = move[q] /\ life'[q] = life[q] /\ (Open(q)' <=> Open(q))
    BY <1>2, <1>4, <1>7, ActiveFacts DEF Local
  <2>2. Course(q)' /\ Shut(q)'
    BY <1>1, <1>7, <2>1 DEF Course, Shut, Active
  <2>3. Posted(q)' /\ Arrived(q)'
    BY <1>1, <1>7, <2>1, SameMail DEF Posted, Arrived
  <2>4. Stays(q)'
    <3>1. (\A p \in Receivers : move'[p].from # q) => \A p \in Receivers : move[p].from # q
      BY <1>2, <1>6, <2>1
    <3> QED
      BY <1>1, <1>7, <2>1, <3>1 DEF Stays
  <2>5. Sources(q)'
    <3>1. PICK t : t = move[q].from
      OBVIOUS
    <3>2. t # r /\ (t \in Windows => (Open(t)' <=> Open(t)))
      BY <1>7, <3>1
    <3> QED
      BY <1>1, <1>7, <2>1, <3>1, <3>2 DEF Sources, Active
  <2> QED
    BY <2>2, <2>3, <2>4, <2>5 DEF Local
<1>12. Local(r)'
  <2>1. Course(r)' /\ Shut(r)'
    BY <1>1, <1>3, <1>4, <1>6 DEF Course, Shut, Open, Active, Before, Away, Late
  <2>2. Posted(r)' /\ Arrived(r)'
    BY <1>1, <1>3, <1>5, <1>6, NoMailNext DEF Posted, Arrived, Before, Taking
  <2>3. Stays(r)'
    BY <1>1, <1>3, <1>6, <1>7 DEF Stays
  <2>4. Sources(r)'
    <3>1. s \in Receivers => transfer[s].phase # "none"
      BY <1>1 DEF Keeping, Local, Stays
    <3>2. Open(s)' /\ Shows(s)' /\ Sheltered(s)' /\ ~ Reserved(r)'
      BY <1>1, <1>6, <1>7 DEF Sheltered
    <3> QED
      BY <1>1, <1>3, <3>1, <3>2 DEF Sources
  <2> QED
    BY <2>1, <2>2, <2>3, <2>4 DEF Local
<1> QED
  BY <1>8, <1>9, <1>10, <1>11, <1>12 DEF Keeping

-----------------------------------------------------------------------------
(* Windows end.                                                              *)

LEMMA RetireKeeps ==
  ASSUME TypeOK, Keeping, NEW r \in Receivers, Retire(r)
  PROVE  Keeping'
<1> USE Numbers
<1>1. /\ Local(r) /\ Course(r) /\ Shut(r) /\ Posted(r) /\ Stays(r) /\ Sources(r)
      /\ r \in Windows /\ r # Main /\ Open(Main)
      /\ Active(r) /\ move[r].prepared /\ Open(r) => Reserved(r)
      /\ UNCHANGED <<reply, rescue, transfer>>
  BY ActiveFacts DEF Retire, Local
<1>2. /\ move[r].at = "retire" /\ Active(r) /\ Going(r) /\ reply[r] = "none"
      /\ move[r].from \in Windows \ {r} /\ Open(move[r].from)
  BY <1>1 DEF Retire, Course, Active, Going, Rests, Posted, Sources, TypeOK
<1>3. /\ AfterRetire(move[r]) \in {"rollback", "ask"}
      /\ AfterRetire(move[r]) = "rollback" => move[r].prepared
  BY DEF AfterRetire
<1>4. CASE ~ Open(r)
  <2>1. /\ Goes(r, AfterRetire(move[r]))
        /\ UNCHANGED <<life, shown, reception, incoming, mail, fragment, escrow>>
    BY <1>4 DEF Retire
  <2>2. Unmoved(r)
    BY <1>1, <2>1, GoesTo DEF Unmoved
  <2>3. Continues(r)
    BY <1>1, <1>2, <1>3, <2>1, GoesTo
       DEF Continues, Course, Active, Reserved, Going, Rests, Before, Early, Away, Late
  <2>4. Course(r)'
    BY <1>1, <1>2, <1>3, <1>4, <2>1, GoesTo DEF Course, Open, Active, Before, Away, Late
  <2> QED
    BY <2>2, <2>3, <2>4, StageKeeps
<1>5. CASE Open(r)
  <2>1. /\ ~ Open(r)' /\ life'[r] = "gone" /\ ~ Shows(r)' /\ reception'[r].at = "none"
        /\ mail'[r] = <<>> /\ ~ escrow'[r]
        /\ \A w \in Windows \ {r} :
             /\ life'[w] = life[w] /\ shown'[w] = shown[w] /\ reception'[w] = reception[w]
             /\ incoming'[w] = incoming[w] /\ mail'[w] = mail[w] /\ escrow'[w] = escrow[w]
             /\ fragment'[w] = fragment[w]
    BY <1>5 DEF Retire, Ends, TypeOK, Open, Shows, NoReception
  <2>2. /\ move'[r].at = AfterRetire(move[r]) /\ move'[r].from = move[r].from
        /\ move'[r].prepared = move[r].prepared /\ move'[r].removed = move[r].removed
        /\ \A q \in Receivers \ {r} : move[q].from # r => move'[q] = move[q]
        /\ \A q \in Receivers \ {r} : move[q].from = r =>
             /\ move'[q].at = "over" /\ move'[q].from = r
             /\ ~ move'[q].prepared /\ ~ move'[q].removed
    BY <1>2, <1>5, WithoutTo
  <2>3. ASSUME NEW q \in Receivers \ {r}, move[q].from = r
        PROVE  /\ move[q].at # "idle" /\ ~ move[q].removed /\ reply[q] = "none"
               /\ transfer[q].phase = "none" \/ move[q].at = "over"
    <3>1. Course(q) /\ Posted(q) /\ Sources(q)
      BY DEF Keeping, Local
    <3>2. Reserved(r)
      BY <1>1, <1>2, <1>5, <2>3, <3>1 DEF Sources, Course
    <3>3. ~ (Active(q) /\ move[q].prepared)
      BY <2>3, <3>1, <3>2 DEF Sources
    <3>4. Active(q) => transfer[q].phase = "none" /\ ~ move[q].removed
      BY <3>1, <3>3 DEF Course
    <3>5. ~ move[q].removed /\ move[q].at # "idle"
      BY <2>3, <3>1, <3>4 DEF Course
    <3>6. reply[q] = "none"
      BY <3>1, <3>5 DEF Posted, Course, Away
    <3> QED
      BY <3>4, <3>5, <3>6 DEF Active
  <2>4. /\ \A q \in Receivers : move'[q].from = move[q].from
        /\ \A q \in Receivers : Going(q)' => Going(q)
        /\ \A w : Reserved(w)' <=> Reserved(w)
        /\ \A w \in Windows \ {r} : /\ (Open(w)' <=> Open(w)) /\ (Shows(w)' <=> Shows(w))
                                    /\ (Sheltered(w)' <=> Sheltered(w))
    BY <1>1, <1>2, <2>1, <2>2 DEF Going, Rests, Reserved, Open, Shows, Sheltered
  <2>5. MainStays' /\ OneMove' /\ OneReserved'
    <3>1. \E q \in Receivers : move[q].from = Main
      BY <1>5 DEF Keeping, MainStays, Open
    <3>2. MainStays'
      BY <1>1, <2>4, <3>1 DEF Keeping, MainStays
    <3>3. OneMove' /\ OneReserved'
      BY <2>4 DEF Keeping, OneMove, OneReserved
    <3> QED
      BY <3>2, <3>3
  <2>6. Somewhere' \/ \E q \in Receivers : move'[q].removed
    <3>1. \A w \in Windows \ {r} : Held(w) => Held(w)'
      BY <2>1, <2>4 DEF Held
    <3>2. ASSUME NEW q \in Receivers, move[q].removed PROVE move'[q].removed
      BY <2>2, <2>3, <3>2
    <3>3. CASE Held(r) /\ ~ move[r].removed
      <4>1. PICK s : s = move[r].from
        OBVIOUS
      <4>2. s \in Windows \ {r} /\ Held(s)
        BY <1>2, <3>3, <4>1, NotLost DEF Held
      <4> QED
        BY <3>1, <4>2 DEF Somewhere
    <3> QED
      BY <3>1, <3>2, <3>3 DEF Keeping, Somewhere
  <2>7. ASSUME NEW q \in Receivers \ {r} PROVE Local(q)'
    <3>1. /\ Local(q) /\ Course(q) /\ Shut(q) /\ Posted(q) /\ Arrived(q) /\ Stays(q) /\ Sources(q)
          /\ q \in Windows /\ Main \in Windows \ {r}
      BY <1>1, ActiveFacts DEF Local
    <3>2. /\ life'[q] = life[q] /\ shown'[q] = shown[q] /\ reception'[q] = reception[q]
          /\ incoming'[q] = incoming[q] /\ mail'[q] = mail[q] /\ escrow'[q] = escrow[q]
          /\ fragment'[q] = fragment[q] /\ reply'[q] = reply[q] /\ transfer'[q] = transfer[q]
          /\ Shows(Main) \/ escrow[Main] => Shows(Main)' \/ escrow'[Main]
      BY <1>1, <2>1, <2>4, <3>1
    <3>3. Shut(q)'
      BY <3>1, <3>2 DEF Shut, Open, Shows
    <3>4. CASE move[q].from = r
      <4> USE <2>2, <2>3, <3>1, <3>2, <3>4
      <4>1. Course(q)'
        BY DEF Course, Open, Active, Before, Away, Late
      <4>2. Posted(q)' /\ Arrived(q)'
        BY SameMail DEF Posted, Arrived, Shows, Before, Taking
      <4>3. Stays(q)'
        BY <2>4 DEF Stays, Open, Shows
      <4>4. Sources(q)'
        BY <1>1 DEF Sources, Before, Active
      <4> QED
        BY <3>3, <4>1, <4>2, <4>3, <4>4 DEF Local
    <3>5. CASE move[q].from # r
      <4>0. move'[q] = move[q]
        BY <2>2, <3>5
      <4>1. Course(q)'
        BY <3>1, <3>2, <4>0 DEF Course, Open, Active
      <4>2. Posted(q)' /\ Arrived(q)'
        BY <3>1, <3>2, <4>0, SameMail DEF Posted, Arrived, Open, Shows
      <4>3. Stays(q)'
        BY <2>4, <3>1, <3>2, <4>0 DEF Stays, Open, Shows
      <4>4. Sources(q)'
        <5>1. PICK s : s = move[q].from
          OBVIOUS
        <5>2. /\ s \in Receivers => transfer[s].phase # "none"
              /\ Active(q) => s \in Windows \ {q, r} /\ Open(s)
              /\ Active(q) /\ move[q].prepared /\ s \in Receivers => ~ Reserved(s)
              /\ move[q].at \in Before \cup {"ready", "attached"} => Shows(s) /\ Active(q)
              /\ Active(q) /\ Reserved(q) /\ ~ move[q].removed => Shows(s)
              /\ Active(q) /\ (move[q].prepared \/ move[q].at \in Before) => Sheltered(s)
          BY <3>1, <3>5, <5>1 DEF Sources, Active, Before
        <5> QED
          BY <1>1, <2>4, <4>0, <5>1, <5>2 DEF Sources, Active
      <4> QED
        BY <3>3, <4>1, <4>2, <4>3, <4>4 DEF Local
    <3> QED
      BY <3>4, <3>5
  <2>8. Local(r)'
    <3>1. Course(r)' /\ Shut(r)'
      BY <1>1, <1>2, <1>3, <2>1, <2>2 DEF Course, Shut, Active, Before, Away, Late
    <3>2. Posted(r)' /\ Arrived(r)'
      BY <1>1, <1>2, <1>3, <2>1, <2>2, NoMailNext DEF Posted, Arrived, Before, Taking
    <3>3. Stays(r)'
      BY <1>3, <2>1, <2>2 DEF Stays
    <3>4. Sources(r)'
      <4>1. PICK s : s = move[r].from
        OBVIOUS
      <4> QED
        BY <1>1, <1>2, <1>3, <2>2, <2>4, <4>1 DEF Sources, Active, Before
    <3> QED
      BY <3>1, <3>2, <3>3, <3>4 DEF Local
  <2> QED
    BY <2>5, <2>6, <2>7, <2>8 DEF Keeping
<1> QED
  BY <1>4, <1>5

LEMMA CrashKeeps ==
  ASSUME TypeOK, Keeping, NEW w \in Windows, Crash(w), NoSourceCrashed'
  PROVE  Keeping'
<1> USE Numbers
<1>1. /\ life'[w] = "crashed" /\ ~ Open(w)' /\ ~ Shows(w)' /\ reception'[w].at = "none"
      /\ mail'[w] = <<>> /\ Open(w)
      /\ \A x \in Windows \ {w} :
           /\ life'[x] = life[x] /\ shown'[x] = shown[x] /\ reception'[x] = reception[x]
           /\ incoming'[x] = incoming[x] /\ mail'[x] = mail[x] /\ fragment'[x] = fragment[x]
      /\ UNCHANGED <<reply, transfer>>
  BY DEF Crash, Ends, TypeOK, Open, Shows, NoReception
<1>2. \A q \in Receivers : move[q].from # w /\ move'[q] = move[q]
  <2>1. \A q \in Receivers : move'[q] = IF move[q].from = w THEN Ended(move[q]) ELSE move[q]
    BY DEF Crash, MovesWithout
  <2>2. \A q \in Receivers : move'[q].from = move[q].from
    BY <2>1 DEF Ended, AtRest
  <2>3. \A q \in Receivers : move'[q].from # w
    BY <1>1 DEF NoSourceCrashed, Crashed
  <2> QED
    BY <2>1, <2>2, <2>3
<1>3. w \in Receivers
  <2>1. PICK x \in Windows \ {w} : Open(x)
    BY DEF Crash, RescueTargets
  <2>2. CASE w = Main
    <3>1. x \in Receivers /\ life[x] # "absent"
      BY <2>1, <2>2 DEF Receivers, Open
    <3> QED
      BY <1>2, <2>2, <3>1 DEF Keeping, MainStays
  <2> QED
    BY <2>2 DEF Receivers
<1>4. /\ Local(w) /\ Course(w) /\ Posted(w) /\ Arrived(w) /\ Stays(w) /\ Sources(w)
      /\ w # Main /\ Open(Main)
      /\ Active(w) /\ move[w].prepared /\ Open(w) => Reserved(w)
  BY <1>3, ActiveFacts DEF Local
<1>5. /\ ~ escrow'[w] /\ (fragment[w] \/ escrow[w] => escrow'[Main])
      /\ \A x \in Windows \ {w} : escrow[x] => escrow'[x]
      /\ \A x \in Windows \ {w, Main} : escrow'[x] = escrow[x]
      /\ rescue' \in {Nobody, Main}
  <2>1. RescueTargets(w) = {Main}
    BY <1>4 DEF RescueTargets
  <2> QED
    BY <1>4, <2>1 DEF Crash, TypeOK
<1>6. /\ \A x \in Windows \ {w} : /\ (Open(x)' <=> Open(x)) /\ (Shows(x)' <=> Shows(x))
                                  /\ (Sheltered(x)' <=> Sheltered(x))
      /\ \A x : Reserved(x)' <=> Reserved(x)
      /\ \A q \in Receivers : Going(q)' <=> Going(q)
      /\ Shows(Main) \/ escrow[Main] => Shows(Main)' \/ escrow'[Main]
  BY <1>1, <1>2, <1>4, <1>5 DEF Open, Shows, Sheltered, Reserved, Going
<1>7. MainStays' /\ OneMove' /\ OneReserved'
  <2>1. Open(Main)' /\ \E q \in Receivers : move'[q].from = Main
    BY <1>1, <1>2, <1>3, <1>4, <1>6 DEF Keeping, MainStays, Open
  <2>2. MainStays'
    BY <1>5, <2>1 DEF MainStays
  <2>3. OneMove' /\ OneReserved'
    BY <1>2, <1>6 DEF Keeping, OneMove, OneReserved
  <2> QED
    BY <2>2, <2>3
<1>8. Somewhere' \/ \E q \in Receivers : move'[q].removed
  <2>1. \A x \in Windows \ {w} : Held(x) => Held(x)'
    BY <1>5, <1>6 DEF Held
  <2>2. CASE fragment[w] \/ escrow[w]
    BY <1>4, <1>5, <1>6, <2>2 DEF Somewhere, Held
  <2>3. CASE Held(w) /\ ~ move[w].removed /\ ~ (fragment[w] \/ escrow[w])
    <3>1. ~ (move[w].at = "over" /\ transfer[w].phase = "cleaned")
      BY <1>1, <1>2, <1>4, <2>3 DEF Stays
    <3>2. PICK s : s = move[w].from
      OBVIOUS
    <3>3. s \in Windows \ {w} /\ Held(s)
      BY <1>3, <2>3, <3>1, <3>2, NotLost DEF Held
    <3> QED
      BY <2>1, <3>3 DEF Somewhere
  <2>4. CASE ~ Held(w) \/ move[w].removed
    BY <1>2, <1>3, <2>1, <2>4 DEF Keeping, Somewhere
  <2> QED
    BY <2>2, <2>3, <2>4
<1>9. ASSUME NEW q \in Receivers \ {w} PROVE Local(q)'
  <2>1. /\ Local(q) /\ Course(q) /\ Shut(q) /\ Posted(q) /\ Arrived(q) /\ Stays(q) /\ Sources(q)
        /\ q \in Windows \ {w, Main} /\ move'[q] = move[q] /\ transfer'[q] = transfer[q]
        /\ life'[q] = life[q] /\ shown'[q] = shown[q] /\ reception'[q] = reception[q]
        /\ incoming'[q] = incoming[q] /\ mail'[q] = mail[q] /\ escrow'[q] = escrow[q]
        /\ fragment'[q] = fragment[q] /\ reply'[q] = reply[q]
    BY <1>1, <1>2, <1>5, ActiveFacts DEF Local
  <2>2. Course(q)' /\ Shut(q)'
    BY <2>1 DEF Course, Shut, Open, Active, Shows
  <2>3. Posted(q)' /\ Arrived(q)'
    BY <1>6, <2>1, SameMail DEF Posted, Arrived, Open, Shows
  <2>4. Stays(q)'
    BY <1>2, <2>1 DEF Stays, Open, Shows
  <2>5. Sources(q)'
    <3>1. PICK s : s = move[q].from
      OBVIOUS
    <3>2. /\ s \in Receivers => transfer[s].phase # "none"
          /\ Active(q) => s \in Windows \ {q, w} /\ Open(s)
          /\ Active(q) /\ move[q].prepared /\ s \in Receivers => ~ Reserved(s)
          /\ move[q].at \in Before \cup {"ready", "attached"} => Shows(s) /\ Active(q)
          /\ Active(q) /\ Reserved(q) /\ ~ move[q].removed => Shows(s)
          /\ Active(q) /\ (move[q].prepared \/ move[q].at \in Before) => Sheltered(s)
      BY <1>2, <2>1, <3>1 DEF Sources, Active, Before
    <3> QED
      BY <1>1, <1>6, <2>1, <3>1, <3>2 DEF Sources, Active
  <2> QED
    BY <2>2, <2>3, <2>4, <2>5 DEF Local
<1>10. Local(w)'
  <2>1. move'[w] = move[w] /\ transfer'[w] = transfer[w] /\ reply'[w] = reply[w]
    BY <1>1, <1>2, <1>3
  <2>2. Course(w)' /\ Shut(w)'
    BY <1>1, <1>4, <2>1 DEF Course, Shut, Open, Active
  <2>3. Posted(w)'
    BY <1>1, <1>4, <2>1, NoMailNext DEF Posted, Taking
  <2>4. Arrived(w)'
    BY <1>1, <1>4, <1>5, <2>1 DEF Arrived
  <2>5. Stays(w)'
    BY <1>1, <1>5 DEF Stays
  <2>6. Sources(w)'
    <3>1. PICK s : s = move[w].from
      OBVIOUS
    <3>2. s \in Windows => s \in Windows \ {w}
      BY <1>2, <1>3, <3>1
    <3>3. move[w].at \in Before \cup {"ready", "attached"} => Active(w)
      BY DEF Active, Before
    <3> QED
      BY <1>1, <1>4, <1>6, <2>1, <3>1, <3>2, <3>3 DEF Sources, Active
  <2> QED
    BY <2>2, <2>3, <2>4, <2>5, <2>6 DEF Local
<1> QED
  BY <1>7, <1>8, <1>9, <1>10 DEF Keeping

-----------------------------------------------------------------------------
\* A source is a source for good: a window is opened once.
Fresh == \A r \in Receivers : life[r] = "absent" => move[r].from = Nobody

LEMMA NeverAgain ==
  ASSUME TypeOK, [Next]_vars, NEW w \in Windows, life[w] # "absent"
  PROVE  life'[w] # "absent"
<1>1. ASSUME NEW r \in Receivers, NEW s \in Windows, Start(s, r) PROVE life'[w] # "absent"
  BY <1>1 DEF Start, TypeOK
<1>2. ASSUME NEW r \in Receivers, Retire(r) PROVE life'[w] # "absent"
  BY <1>2 DEF Retire, Ends, TypeOK
<1>3. ASSUME NEW x \in Windows, Crash(x) PROVE life'[w] # "absent"
  BY <1>3 DEF Crash, Ends, TypeOK
<1>4. ASSUME NEW r \in Receivers, Moving(r) \/ Receiving(r) PROVE UNCHANGED life
  BY <1>4 DEF Moving, Booted, Prepare, ShowPhase, Commit, Remove, PublishGone, Send, Receipt,
     ReceiptTimeout, Receive, Clean, Finalize, Receiving, Delivered, AskVia, AdoptDelivery,
     AttachedHere, AttachTimeout, GiveUp, RevokeHere, FinalizedHere, Abandon
<1>5. ASSUME NEW r \in Receivers, Recovering(r) \/ Retry(r), ~ Retire(r) PROVE UNCHANGED life
  BY <1>5 DEF Recovering, Revoke, Acknowledged, RetireFails, RollBack, Confirmed, Ask, Restore,
     Ready, ReadyTimeout, Retry
<1>6. ASSUME NEW x \in Windows, Republish(x) \/ Drain(x) \/ Mount(x) PROVE UNCHANGED life
  BY <1>6 DEF Republish, Drain, Mount
<1>7. ASSUME NEW c, Attach(c) PROVE UNCHANGED life
  BY <1>7 DEF Attach
<1>8. Rescued \/ UNCHANGED vars => UNCHANGED life
  BY DEF Rescued, vars
<1> QED
  BY <1>1, <1>2, <1>3, <1>4, <1>5, <1>6, <1>7, <1>8 DEF Next

\* Only where a move begins is its source named.
LEMMA SourceNamed ==
  ASSUME TypeOK, [Next]_vars, NEW r \in Receivers, move'[r].from # move[r].from
  PROVE  life[r] = "absent" /\ life'[r] = "open"
<1> DEFINE Same == \A q \in Receivers : move'[q].from = move[q].from
<1> USE Numbers
<1>1. ASSUME NEW q \in Receivers, NEW s \in Windows, Start(s, q)
      PROVE  life[r] = "absent" /\ life'[r] = "open"
  BY <1>1 DEF Start, TypeOK
<1>2. ASSUME NEW q \in Receivers, Moving(q) PROVE Same
  <2>1. CASE \E stage : Goes(q, stage)
    BY <2>1, GoesTo
  <2>2. CASE Remove(q)
    <3>1. CASE Goes(q, "retire")
      BY <3>1, GoesTo
    <3>2. CASE move' = [move EXCEPT ![q].at = "publish", ![q].removed = TRUE]
      BY <3>2 DEF TypeOK, Move
    <3> QED
      BY <2>2, <3>1, <3>2 DEF Remove
  <2>3. CASE Prepare(q) /\ ~ Goes(q, "retire")
    BY <2>3, PreparedTo
  <2>4. CASE Finalize(q)
    BY <2>4, EndedTo DEF Finalize
  <2> QED
    BY <1>2, <2>1, <2>2, <2>3, <2>4
       DEF Moving, Booted, Prepare, ShowPhase, Commit, PublishGone, Send, Receipt,
           ReceiptTimeout, Receive, Clean
<1>3. ASSUME NEW q \in Receivers, Retire(q) PROVE Same
  <2>1. CASE ~ Open(q)
    BY <1>3, <2>1, GoesTo DEF Retire
  <2>2. CASE Open(q)
    <3>1. \A p \in Receivers : MovesWithout(q)[p].from = move[p].from
      BY DEF MovesWithout, Ended, AtRest
    <3>2. MovesWithout(q) \in [Receivers -> Move]
      BY MovesWithoutType
    <3>3. move' = [MovesWithout(q) EXCEPT ![q].at = AfterRetire(move[q])]
      BY <1>3, <2>2 DEF Retire
    <3>4. \A p \in Receivers : move'[p].from = MovesWithout(q)[p].from
      BY <3>2, <3>3 DEF Move
    <3> QED
      BY <3>1, <3>4
  <2> QED
    BY <2>1, <2>2
<1>4. ASSUME NEW q \in Receivers, Recovering(q) \/ Retry(q), ~ Retire(q) PROVE Same
  <2>1. CASE \E stage : Goes(q, stage)
    BY <2>1, GoesTo
  <2>2. CASE Fails(q)
    BY <2>2, GoesTo DEF Fails, Goes
  <2>3. CASE Confirmed(q) \/ Ready(q)
    BY <2>3, EndedTo DEF Confirmed, Ready
  <2>4. CASE Ask(q) /\ MayAsk(move[q].from)
    BY <2>4, RestoreTo
  <2>5. CASE Retry(q)
    BY <2>5, RetryTo
  <2> QED
    BY <1>4, <2>1, <2>2, <2>3, <2>4, <2>5
       DEF Recovering, Revoke, Acknowledged, RetireFails, RollBack, Ask, Restore, ReadyTimeout
<1>5. ASSUME NEW w \in Windows, Crash(w) PROVE Same
  BY <1>5 DEF Crash, MovesWithout, Ended, AtRest
<1>6. ASSUME NEW q \in Receivers, Receiving(q) PROVE Same
  BY <1>6 DEF Receiving, Delivered, AskVia, AdoptDelivery, AttachedHere, AttachTimeout, GiveUp,
     RevokeHere, FinalizedHere, Abandon
<1>7. ASSUME NEW w \in Windows, Republish(w) \/ Drain(w) \/ Mount(w) PROVE Same
  BY <1>7 DEF Republish, Drain, Mount, windowVars
<1>8. ASSUME NEW c, Attach(c) PROVE Same
  <2> SUFFICES ASSUME NEW q \in Receivers PROVE move'[q].from = move[q].from
    OBVIOUS
  <2>1. move'[q] = move[q] \/ move'[q] = [move[q] EXCEPT !.at = "attached"]
    BY <1>8 DEF Attach
  <2>2. move[q] \in Move
    BY DEF TypeOK
  <2> QED
    BY <2>1, <2>2 DEF Move
<1>9. Rescued \/ UNCHANGED vars => Same
  BY DEF Rescued, vars, windowVars
<1>10. ~ Same
  OBVIOUS
<1> QED
  BY <1>1, <1>2, <1>3, <1>4, <1>5, <1>6, <1>7, <1>8, <1>9, <1>10 DEF Next

LEMMA FreshStep ==
  ASSUME TypeOK, Fresh, [Next]_vars
  PROVE  Fresh' /\ (NoSourceCrashed' => NoSourceCrashed)
<1> USE Numbers
<1>1. ASSUME NEW r \in Receivers, life'[r] = "absent" PROVE move'[r].from = Nobody
  <2>1. life[r] = "absent"
    BY <1>1, NeverAgain
  <2>2. move'[r].from = move[r].from
    BY <1>1, SourceNamed
  <2> QED
    BY <2>1, <2>2 DEF Fresh
<1>2. ASSUME NEW r \in Receivers, move[r].from \in Crashed PROVE move'[r].from \in Crashed'
  <2>1. move[r].from \in Windows /\ move[r].from # Nobody
    BY <1>2 DEF Crashed
  <2>2. move'[r].from = move[r].from
    BY <2>1, SourceNamed DEF Fresh
  <2>3. PICK s : s = move[r].from
    OBVIOUS
  <2>4. s \in Windows /\ life[s] = "crashed" /\ move'[r].from = s
    BY <1>2, <2>2, <2>3 DEF Crashed
  <2>5. life'[s] = "crashed"
    BY <2>4, CrashesStay
  <2> QED
    BY <2>4, <2>5 DEF Crashed
<1> QED
  BY <1>1, <1>2 DEF Fresh, NoSourceCrashed

-----------------------------------------------------------------------------
LEMMA StepKeeping == TypeOK /\ Fresh /\ KInv /\ [Next]_vars => KInv'
<1> SUFFICES ASSUME TypeOK, Fresh, KInv, [Next]_vars, NoSourceCrashed' PROVE Keeping'
  BY DEF KInv
<1> USE Numbers
<1>1. Keeping
  BY FreshStep DEF KInv
<1>2. ASSUME NEW r \in Receivers, NEW s \in Windows, Start(s, r) PROVE Keeping'
  BY <1>1, <1>2, StartKeeps
<1>3. ASSUME NEW r \in Receivers, Moving(r) \/ Recovering(r) \/ Retry(r) PROVE Keeping'
  BY <1>1, <1>3, StageSteps, SourceSteps, MailSteps, PrepareKeeps, RetireKeeps DEF Moving, Recovering
<1>4. ASSUME NEW r \in Receivers, Receiving(r) PROVE Keeping'
  BY <1>1, <1>4, DeliverySteps, AftermathSteps DEF Receiving
<1>5. ASSUME NEW w \in Windows, Republish(w) \/ Drain(w) PROVE Keeping'
  <2>1. CASE w = Main
    BY <1>1, <1>5, <2>1, OtherSteps
  <2>2. CASE w # Main
    BY <1>1, <1>5, <2>2, AftermathSteps DEF Receivers
  <2> QED
    BY <2>1, <2>2
<1>6. ASSUME NEW w \in Windows, Crash(w) PROVE Keeping'
  BY <1>1, <1>6, CrashKeeps
<1>7. ASSUME Rescued \/ (\E w \in Windows : Mount(w)) \/ \E c \in attaching : Attach(c) PROVE Keeping'
  BY <1>1, <1>7, OtherSteps
<1>8. CASE UNCHANGED vars
  <2>1. \A r \in Receivers : Kin(r)
    BY <1>8 DEF vars, Kin, Shows
  <2> QED
    BY <1>1, <1>8, <2>1, KinKeeps DEF vars, Keeping, MainStays, Shows
<1> QED
  BY <1>2, <1>3, <1>4, <1>5, <1>6, <1>7, <1>8 DEF Next

\* Whatever fails, is late or crashes but the source of a move, the workspace
\* is on a screen or in the queue of a window that lives, or in a move that
\* can give it back.
THEOREM NeverLost == Spec => []NeverNowhere
<1>1. Init => KInv /\ Fresh
  BY InitKeeping DEF KInv, Fresh, Init, AtRest
<1>2. KInv => NeverNowhere
  BY DEF KInv, Keeping, Somewhere, Held, NoSourceCrashed, NeverNowhere
<1>3. TypeOK /\ Fresh /\ [Next]_vars => Fresh'
  BY FreshStep
<1> QED
  BY <1>1, <1>2, <1>3, TypeInit, TypeNext, StepKeeping, PTL DEF Spec

=============================================================================
