------------------------- MODULE TearoutScreen_proofs -------------------------
(***************************************************************************)
(* Proofs about TearoutMove: while no window crashes, source and receiver  *)
(* of a move never both keep the workspace, and whoever shows it when the  *)
(* moves have come to rest is the one its sessions write to.               *)
(***************************************************************************)
EXTENDS TearoutMove_proofs

Restoring(r) == move[r].at \in {"restore", "ready", "attached"}

\* A window the sessions were given to for good.
Settled(w) == w = Main \/ (w \in Receivers /\ transfer[w].phase = "cleaned")

\* The stage of the source, the record of the transfer and the receiver agree.
Stage(r) ==
  /\ move[r].at \in Early => Open(r)
  /\ move[r].at \in {"idle", "opening", "prepare"} => transfer[r].phase = "none"
  /\ move[r].at = "show" => transfer[r].phase = "prepared"
  /\ move[r].at = "commit" => transfer[r].phase = "shown"
  /\ move[r].at \in {"remove", "publish", "send", "wait", "receive", "revoke", "ack"} =>
       transfer[r].phase = "committed"
  /\ move[r].at = "clean" => transfer[r].phase = "received"
  /\ move[r].at = "finalize" => transfer[r].phase = "cleaned"
  /\ transfer[r].phase = "cleaned" => move[r].at \in {"finalize", "over"} /\ Open(r)
  /\ move[r].at \in Early \ {"opening", "prepare"} => move[r].prepared
  /\ move[r].at \in Early \ {"ack"} => ~ transfer[r].revoked
  /\ move[r].at \in {"opening", "prepare", "show", "commit", "remove"} => ~ move[r].removed
  /\ move[r].at \in Away => move[r].removed
  /\ move[r].at \in Late => ~ Open(r)
  /\ move[r].at = "rollback" => move[r].prepared /\ Reserved(r)
  /\ move[r].at = "retire" /\ move[r].prepared /\ move[r].tries = 0 => Reserved(r)
  /\ move[r].at = "over" /\ Reserved(r) => ~ Open(r)
  /\ transfer[r].phase = "none" => ~ transfer[r].revoked /\ ~ transfer[r].finalized
  /\ life[r] = "absent" => move[r].at = "idle"
  /\ move[r].at = "idle" => move[r].from = Nobody
Record(r) ==
  Active(r) =>
    /\ ~ transfer[r].finalized
    /\ move[r].prepared => transfer[r].source = move[r].from /\ transfer[r].phase # "none"
    /\ ~ move[r].prepared => transfer[r].phase = "none"
    /\ move[r].removed => move[r].prepared
    /\ move[r].prepared /\ Open(r) => Reserved(r)

\* The source still waits, or has not heard yet that it waits in vain.
Awaits(w) ==
  w # Main /\ Reserved(w) /\ move[w].at \in {"wait", "revoke", "ack", "retire", "failed"}

\* What is on its way into a window.
Post(w) ==
  /\ ~ Open(w) => ~ Shows(w) /\ ~ escrow[w] /\ reception[w].at = "none" /\ mail[w] = <<>>
  /\ DeliveryFirst(w)
  /\ InMail(w, "delivery") => reception[w].at = "none" /\ Awaits(w) /\ move[w].removed
  /\ InMail(w, "revoke") => transfer[w].revoked
  /\ reception[w].at \in {"asking", "adopting"} => Awaits(w) /\ move[w].removed
  /\ escrow[w] =>
       Awaits(w) \/ (w # Main /\ Reserved(w) /\ move[w].at \in {"remove", "publish", "send", "receive"})
  /\ reply[w] # "none" => w # Main /\ move[w].at = "wait"
  /\ reply[w] = "ok" => reception[w].at = "done"
Answered(r) ==
  /\ move[r].at \in {"opening", "prepare", "show", "commit", "remove", "publish", "send"} =>
       mail[r] = <<>> /\ reception[r].at = "none"
  /\ move[r].at \in {"receive", "clean", "finalize"} => reception[r].at = "done"

Sourced ==
  \A r \in Receivers :
    Active(r) => move[r].from \in Windows \ {r} /\ Open(move[r].from)
\* The owner is settled: the source until the transfer is cleaned.
OwnedVia(r) ==
  /\ transfer[r].phase # "none" => Settled(transfer[r].source) /\ transfer[r].source # r
  /\ Reserved(r) => owner = IF transfer[r].phase = "cleaned" THEN r ELSE transfer[r].source
  /\ Restoring(r) => ~ AnyReserved /\ owner = move[r].from
Owned == Settled(owner) /\ Open(Main) /\ \A r \in Receivers : OwnedVia(r)

\* Who may show the workspace.
ShownVia(r) ==
  /\ Reserved(r) => \A w \in Windows : Shows(w) => w \in {transfer[r].source, r}
  /\ Reserved(r) /\ Active(r) /\ move[r].removed => ~ Shows(move[r].from)
  /\ move[r].at \in {"show", "commit"} => ~ Shows(r)
Holding ==
  /\ AnyReserved \/ \A w \in Windows : Shows(w) => w = owner
  /\ \A r \in Receivers : ShownVia(r)

Calm ==
  /\ rescue = Nobody
  /\ \A r \in Receivers : Stage(r) /\ Record(r) /\ Answered(r)
  /\ \A w \in Windows : Post(w)
  /\ Sourced /\ OneMove /\ OneReserved /\ Owned /\ Holding

IInv == Crashed = {} => Calm

-----------------------------------------------------------------------------
LEMMA InitCalm == Init => Calm
<1> SUFFICES ASSUME Init PROVE Calm
  OBVIOUS
<1> USE Numbers
<1>1. \A r \in Receivers : r # Main /\ move[r] = AtRest /\ transfer[r] = NoTransfer
  BY DEF Init, Receivers
<1>2. \A r \in Receivers : ~ Reserved(r) /\ ~ Active(r) /\ ~ Going(r)
  BY <1>1 DEF Reserved, Active, Going, Rests, AtRest, NoTransfer
<1>3. \A r \in Receivers : Stage(r) /\ Record(r) /\ Answered(r)
  BY <1>1, <1>2 DEF Stage, Record, Answered, Early, Late, Away, AtRest, NoTransfer
<1>4. \A w \in Windows : Post(w)
  BY DEF Init, Post, InMail, DeliveryFirst, Open, Shows, NoReception
<1>5. Sourced /\ OneMove /\ OneReserved
  BY <1>2 DEF Sourced, OneMove, OneReserved
<1>6. Owned
  BY <1>1, <1>2 DEF Init, Owned, OwnedVia, Settled, Restoring, AtRest, NoTransfer, Open
<1>7. Holding
  BY <1>1, <1>2 DEF Init, Holding, ShownVia, Shows, AtRest
<1> QED
  BY <1>3, <1>4, <1>5, <1>6, <1>7 DEF Init, Calm

-----------------------------------------------------------------------------
(* Most steps concern one move: the rest of Calm follows.                    *)

\* What must hold of a move and its receiver.
Here(r) == Stage(r) /\ Record(r) /\ Answered(r) /\ Post(r) /\ ShownVia(r)

\* Nothing that concerns another window changes.
Apart(r) ==
  /\ \A q \in Receivers \ {r} : move'[q] = move[q]
  /\ \A w \in Windows \ {r} :
       /\ transfer'[w] = transfer[w] /\ reception'[w] = reception[w]
       /\ mail'[w] = mail[w] /\ escrow'[w] = escrow[w] /\ reply'[w] = reply[w]
       /\ life'[w] = life[w]

Elsewhere(r) == Apart(r) /\ UNCHANGED <<life, rescue, owner>>

\* Whoever shows the workspace now may: the receiver, or the owner.
Fewer(r) ==
  \A w \in Windows :
    Shows(w)' => \/ Shows(w)
                 \/ w = r /\ Reserved(r) /\ Open(r)
                 \/ w = owner /\ ~ AnyReserved

Onward(r) ==
  /\ move'[r].from = move[r].from
  /\ Active(r)' => Active(r)
  /\ Going(r)' =>
       Going(r) \/ \A q \in Receivers \ {r} : ~ (Going(q) /\ move[q].from = move[r].from)
  /\ Restoring(r)' => Restoring(r) \/ (~ AnyReserved /\ owner = move[r].from)
  /\ Reserved(r)' => Reserved(r)
  /\ Reserved(r) => Reserved(r)' \/ \A w \in Windows : Shows(w)' => w = owner
  /\ transfer'[r].source = transfer[r].source
  /\ transfer'[r].phase = "none" <=> transfer[r].phase = "none"
  /\ transfer'[r].phase = "cleaned" <=> transfer[r].phase = "cleaned"

LEMMA SettledIsOpen ==
  ASSUME Calm, NEW w, Settled(w)
  PROVE  w \in Windows /\ Open(w)
  BY Numbers DEF Calm, Owned, Settled, Stage

LEMMA OthersKeep ==
  ASSUME Calm, NEW r \in Receivers, Apart(r),
         \A w \in Windows \ {r} : Shows(w)' => Shows(w) \/ Open(w)
  PROVE  /\ \A q \in Receivers \ {r} : Stage(q)' /\ Record(q)' /\ Answered(q)'
         /\ \A w \in Windows \ {r} : Post(w)'
<1>1. ASSUME NEW q \in Receivers \ {r} PROVE Stage(q)' /\ Record(q)' /\ Answered(q)'
  <2>1. /\ move'[q] = move[q] /\ transfer'[q] = transfer[q] /\ reception'[q] = reception[q]
        /\ mail'[q] = mail[q] /\ life'[q] = life[q]
    BY Numbers DEF Apart
  <2>2. Stage(q) /\ Record(q) /\ Answered(q)
    BY DEF Calm
  <2>3. Stage(q)'
    BY <2>1, <2>2 DEF Stage, Open, Reserved
  <2>4. Record(q)'
    BY <2>1, <2>2 DEF Record, Active, Open, Reserved
  <2>5. Answered(q)'
    BY <2>1, <2>2 DEF Answered
  <2> QED
    BY <2>3, <2>4, <2>5
<1>2. ASSUME NEW w \in Windows \ {r} PROVE Post(w)'
  <2>1. /\ transfer'[w] = transfer[w] /\ reception'[w] = reception[w] /\ mail'[w] = mail[w]
        /\ escrow'[w] = escrow[w] /\ reply'[w] = reply[w] /\ life'[w] = life[w]
        /\ w # Main => move'[w] = move[w]
    BY DEF Apart, Receivers
  <2>2. Post(w) /\ (Shows(w)' => Shows(w) \/ Open(w))
    BY DEF Calm
  <2> QED
    BY <2>1, <2>2, SameMail DEF Post, Awaits, Open, Reserved
<1> QED
  BY <1>1, <1>2

LEMMA StepAt ==
  ASSUME Calm, NEW r \in Receivers, Elsewhere(r), Fewer(r), Onward(r), Here(r)'
  PROVE  Calm'
<1> USE Numbers
<1>1. /\ rescue' = Nobody /\ life' = life /\ owner' = owner
      /\ \A q \in Receivers : move'[q].from = move[q].from
      /\ \A q \in Receivers : transfer'[q].source = transfer[q].source
      /\ \A w \in Windows : Open(w)' <=> Open(w)
  BY DEF Calm, Elsewhere, Apart, Onward, Open
<1>2. \A q \in Receivers :
        /\ Active(q)' => Active(q)
        /\ Restoring(q)' => Restoring(q) \/ (~ AnyReserved /\ owner = move[q].from)
        /\ Reserved(q)' => Reserved(q)
        /\ transfer'[q].phase = "none" <=> transfer[q].phase = "none"
        /\ transfer'[q].phase = "cleaned" <=> transfer[q].phase = "cleaned"
  <2> SUFFICES ASSUME NEW q \in Receivers, q # r
               PROVE  move'[q] = move[q] /\ transfer'[q] = transfer[q]
    BY DEF Onward, Active, Restoring, Reserved
  <2> QED
    BY DEF Elsewhere, Apart
<1>3. owner \in Windows /\ Settled(owner) /\ Open(owner)
  BY SettledIsOpen DEF Calm, Owned
<1>4. \A w \in Windows \ {r} : Shows(w)' => Shows(w) \/ Open(w)
  BY <1>3 DEF Fewer
<1>5. /\ \A q \in Receivers : Stage(q)' /\ Record(q)' /\ Answered(q)'
      /\ \A w \in Windows : Post(w)'
  BY <1>4, OthersKeep DEF Elsewhere, Here
<1>6. Sourced' /\ OneReserved'
  BY <1>1, <1>2 DEF Calm, Sourced, OneReserved
<1>7. OneMove'
  <2> SUFFICES ASSUME NEW p \in Receivers, NEW q \in Receivers, p # q, q # r,
                      Going(p)', Going(q)', move[p].from = move[q].from
               PROVE  FALSE
    BY <1>1 DEF OneMove
  <2>1. Going(q) /\ (p # r => Going(p))
    BY DEF Elsewhere, Apart, Going
  <2>2. Going(p)
    BY <2>1 DEF Onward
  <2> QED
    BY <2>1, <2>2 DEF Calm, OneMove
<1>8. AnyReserved' => AnyReserved
  BY <1>2 DEF AnyReserved
<1>9. Owned'
  <2>1. ASSUME NEW w \in Windows, Settled(w) PROVE Settled(w)'
    BY <1>2, <2>1 DEF Settled
  <2>2. ASSUME NEW q \in Receivers PROVE OwnedVia(q)'
    <3>1. OwnedVia(q)
      BY DEF Calm, Owned
    <3>2. transfer[q].phase # "none" => transfer[q].source \in Windows
      BY <3>1 DEF OwnedVia, Settled
    <3> QED
      BY <1>1, <1>2, <1>8, <2>1, <3>1, <3>2 DEF OwnedVia
  <2> QED
    BY <1>1, <1>2, <1>3, <2>2 DEF Calm, Owned, Settled
<1>10. Holding'
  <2>1. ASSUME NEW q \in Receivers PROVE ShownVia(q)'
    <3>1. CASE q = r
      BY <3>1 DEF Here
    <3>2. CASE q # r
      <4>1. move'[q] = move[q] /\ transfer'[q] = transfer[q]
        BY <3>2, Numbers DEF Elsewhere, Apart
      <4>2. ShownVia(q) /\ Stage(q) /\ Record(q) /\ (Active(q) => move[q].from \in Windows)
        BY DEF Calm, Holding, Sourced
      <4>3. Reserved(q) => ~ Reserved(r) /\ AnyReserved
        BY <3>2 DEF Calm, OneReserved, AnyReserved
      <4>4. move[q].at \in {"show", "commit"} => Reserved(q)
        BY <4>2 DEF Stage, Record, Active, Reserved
      <4> QED
        BY <1>1, <1>2, <3>2, <4>1, <4>2, <4>3, <4>4 DEF Fewer, ShownVia
    <3> QED
      BY <3>1, <3>2
  <2>2. ASSUME ~ AnyReserved', NEW w \in Windows, Shows(w)' PROVE w = owner
    <3>1. CASE AnyReserved
      <4>1. Reserved(r) /\ ~ Reserved(r)'
        BY <2>2, <3>1 DEF AnyReserved, Elsewhere, Apart, Reserved
      <4> QED
        BY <2>2, <4>1 DEF Onward
    <3>2. CASE ~ AnyReserved
      <4>1. ~ Reserved(r)
        BY <3>2 DEF AnyReserved
      <4> QED
        BY <2>2, <3>2, <4>1 DEF Calm, Holding, Fewer
    <3> QED
      BY <3>1, <3>2
  <2> QED
    BY <1>1, <2>1, <2>2 DEF Holding
<1> QED
  BY <1>1, <1>5, <1>6, <1>7, <1>9, <1>10 DEF Calm

-----------------------------------------------------------------------------
(* The source moves on.                                                      *)

LEMMA HereNow ==
  ASSUME Calm, NEW r \in Receivers
  PROVE  /\ Here(r) /\ OwnedVia(r) /\ r \in Windows /\ r # Main
         /\ Active(r) => move[r].from \in Windows \ {r} /\ Open(move[r].from)
  BY Numbers DEF Calm, Here, Owned, Holding, Sourced, Receivers

LEMMA MovingCalm ==
  ASSUME TypeOK, Calm, NEW r \in Receivers,
         \/ Booted(r) \/ ShowPhase(r) \/ Commit(r) \/ Remove(r) \/ PublishGone(r)
         \/ Send(r) \/ Receipt(r) \/ ReceiptTimeout(r) \/ Receive(r)
  PROVE  Calm'
<1> USE HereNow, GoesTo, AdvancedTo
    DEF Here, Stage, Record, Answered, Post, ShownVia, Awaits, Active, Open, Shows, Reserved,
        Early, Late, Away, Onward, Going, Rests, Restoring, Elsewhere, Apart, Fewer, registry, authority
<1>1. CASE Booted(r)
  <2>1. PICK stage \in {"prepare", "retire"} : Goes(r, stage)
    BY <1>1 DEF Booted
  <2>2. Elsewhere(r) /\ Fewer(r) /\ Onward(r)
    BY <1>1, <2>1 DEF Booted
  <2>3. Here(r)'
    BY <1>1, <2>1, SameMail DEF Booted
  <2> QED
    BY <2>2, <2>3, StepAt
<1>2. CASE ShowPhase(r)
  <2>1. Elsewhere(r) /\ Fewer(r) /\ Onward(r)
    BY <1>2 DEF ShowPhase
  <2>2. Here(r)'
    BY <1>2, SameMail DEF ShowPhase
  <2> QED
    BY <2>1, <2>2, StepAt
<1>3. CASE Commit(r)
  <2>1. escrow'[r] /\ \A w \in Windows \ {r} : escrow'[w] = escrow[w]
    BY <1>3 DEF Commit, TypeOK
  <2>2. Elsewhere(r) /\ Fewer(r) /\ Onward(r)
    BY <1>3, <2>1 DEF Commit
  <2>3. Here(r)'
    BY <1>3, <2>1, SameMail DEF Commit
  <2> QED
    BY <2>2, <2>3, StepAt
<1>4. CASE Remove(r)
  <2>1. move[r].from \in Windows \ {r} /\ r \in Windows
    BY <1>4 DEF Remove
  <2>2. /\ \/ move'[r].at = "publish" /\ move'[r].removed /\ shown'[move[r].from] = "no"
           \/ move'[r].at = "retire" /\ move'[r].removed = move[r].removed
        /\ move'[r].from = move[r].from /\ move'[r].prepared = move[r].prepared
        /\ move'[r].tries = move[r].tries
        /\ \A q \in Receivers \ {r} : move'[q] = move[q]
    BY <1>4, <2>1, RemovedTo
  <2>3. \A w \in Windows : Shows(w)' => Shows(w)
    BY <1>4, <2>1, RemovedTo
  <2>4. Elsewhere(r) /\ Fewer(r) /\ Onward(r)
    BY <1>4, <2>2, <2>3 DEF Remove
  <2>5. Stage(r)' /\ Record(r)'
    BY <1>4, <2>1, <2>2, <2>3 DEF Remove
  <2>6. Answered(r)' /\ Post(r)' /\ ShownVia(r)'
    BY <1>4, <2>1, <2>2, <2>3, SameMail DEF Remove
  <2> QED
    BY <2>4, <2>5, <2>6, StepAt
<1>5. CASE PublishGone(r)
  <2>1. Elsewhere(r) /\ Fewer(r) /\ Onward(r)
    BY <1>5 DEF PublishGone
  <2>2. Here(r)'
    BY <1>5, SameMail DEF PublishGone
  <2> QED
    BY <2>1, <2>2, StepAt
<1>6. CASE Send(r)
  <2>1. Sent(r, "delivery") /\ "delivery" \in Events /\ mail[r] = <<>>
    BY <1>6 DEF Send, Events
  <2>2. /\ DeliveryFirst(r)' /\ ~ InMail(r, "revoke")
        /\ \A w \in Windows \ {r} : mail'[w] = mail[w]
        /\ \A e : InMail(r, e)' => InMail(r, e) \/ e = "delivery"
    BY <2>1, NoMail, SentMail
  <2>3. Elsewhere(r) /\ Fewer(r) /\ Onward(r)
    BY <1>6, <2>2 DEF Send
  <2>4. Here(r)'
    BY <1>6, <2>1, <2>2 DEF Send
  <2> QED
    BY <2>3, <2>4, StepAt
<1>7. CASE Receipt(r) \/ ReceiptTimeout(r)
  <2>1. PICK stage \in {"receive", "revoke"} :
          Goes(r, stage) /\ (stage = "receive" => reply[r] = "ok")
    BY <1>7 DEF Receipt, ReceiptTimeout
  <2>2. reply'[r] = "none" /\ \A w \in Windows \ {r} : reply'[w] = reply[w]
    BY <1>7 DEF Receipt, ReceiptTimeout, TypeOK
  <2>3. Elsewhere(r) /\ Fewer(r) /\ Onward(r)
    BY <1>7, <2>1, <2>2 DEF Receipt, ReceiptTimeout
  <2>4. Here(r)'
    BY <1>7, <2>1, <2>2, SameMail DEF Receipt, ReceiptTimeout
  <2> QED
    BY <2>3, <2>4, StepAt
<1>8. CASE Receive(r)
  <2>1. ~ escrow'[r] /\ \A w \in Windows \ {r} : escrow'[w] = escrow[w]
    BY <1>8 DEF Receive, EscrowRemoved, TypeOK
  <2>2. Elsewhere(r) /\ Fewer(r) /\ Onward(r)
    BY <1>8, <2>1 DEF Receive
  <2>3. Here(r)'
    BY <1>8, <2>1, SameMail DEF Receive
  <2> QED
    BY <2>2, <2>3, StepAt
<1> QED
  BY <1>1, <1>2, <1>3, <1>4, <1>5, <1>6, <1>7, <1>8

-----------------------------------------------------------------------------
(* The source recovers.                                                      *)

LEMMA RevokedTo ==
  ASSUME Calm, NEW r \in Receivers, Revoked(r), Reserved(r), transfer[r].phase # "cleaned"
  PROVE  owner' = owner
  BY HereNow DEF OwnedVia, Revoked

\* The registry can name another owner only after the owner has ended.
LEMMA OnlyOwnerAsks ==
  ASSUME Calm, NEW w \in Windows, MayOwn(w)
  PROVE  w = owner
  BY SettledIsOpen DEF Calm, Owned, MayOwn

LEMMA RecoveringCalm ==
  ASSUME TypeOK, Calm, NEW r \in Receivers,
         \/ Revoke(r) \/ Acknowledged(r) \/ RetireFails(r) \/ RollBack(r) \/ Confirmed(r)
         \/ Ask(r) \/ Restore(r) \/ Ready(r) \/ ReadyTimeout(r) \/ Retry(r)
  PROVE  Calm'
<1> USE HereNow, GoesTo
    DEF Here, Stage, Record, Answered, Post, ShownVia, Awaits, Active, Open, Shows, Reserved,
        Early, Late, Away, Onward, Going, Rests, Restoring, Elsewhere, Apart, Fewer, registry, authority
<1>1. CASE Revoke(r)
  <2>1. Reserved(r) /\ transfer[r].phase # "cleaned"
    BY <1>1 DEF Revoke
  <2>2. owner' = owner
    BY <1>1, <2>1, RevokedTo DEF Revoke
  <2>3. /\ \A w \in Windows \ {r} : transfer'[w] = transfer[w]
        /\ transfer'[r].revoked /\ transfer'[r].phase = transfer[r].phase
        /\ transfer'[r].source = transfer[r].source
        /\ transfer'[r].finalized = transfer[r].finalized
    BY <1>1, MarkedRevoked DEF Revoke
  <2>4. /\ \A w \in Windows \ {r} : mail'[w] = mail[w]
        /\ \A e : InMail(r, e)' => InMail(r, e) \/ e = "revoke"
        /\ DeliveryFirst(r)'
    BY <1>1, SentMail DEF Revoke, Events
  <2>5. Elsewhere(r) /\ Fewer(r) /\ Onward(r)
    BY <1>1, <2>2, <2>3, <2>4 DEF Revoke
  <2>6. Here(r)'
    BY <1>1, <2>1, <2>2, <2>3, <2>4 DEF Revoke
  <2> QED
    BY <2>5, <2>6, StepAt
<1>2. CASE Acknowledged(r)
  <2>1. Elsewhere(r) /\ Fewer(r) /\ Onward(r)
    BY <1>2 DEF Acknowledged
  <2>2. Here(r)'
    BY <1>2, SameMail DEF Acknowledged
  <2> QED
    BY <2>1, <2>2, StepAt
<1>3. CASE RetireFails(r)
  <2>1. Goes(r, "failed")
    BY <1>3 DEF RetireFails, Fails, Goes
  <2>2. Elsewhere(r) /\ Fewer(r) /\ Onward(r)
    BY <1>3, <2>1 DEF RetireFails
  <2>3. Here(r)'
    BY <1>3, <2>1, SameMail DEF RetireFails
  <2> QED
    BY <2>2, <2>3, StepAt
<1>4. CASE RollBack(r)
  <2>1. Reserved(r) /\ transfer[r].phase \notin {"none", "cleaned"}
    BY <1>4 DEF RollBack
  <2>2. owner' = owner /\ owner = transfer[r].source
    BY <1>4, <2>1, RevokedTo DEF RollBack, OwnedVia
  <2>3. /\ \A w \in Windows \ {r} : transfer'[w] = transfer[w]
        /\ transfer'[r].phase = "rolled_back" /\ transfer'[r].revoked
        /\ transfer'[r].source = transfer[r].source
        /\ transfer'[r].finalized = transfer[r].finalized
    BY <1>4, MarkedRolledBack
  <2>4. ~ escrow'[r] /\ \A w \in Windows \ {r} : escrow'[w] = escrow[w]
    BY <1>4 DEF RollBack, EscrowRemoved, TypeOK
  <2>5. \A w \in Windows : Shows(w) => w = owner
    BY <1>4, <2>1, <2>2 DEF RollBack
  <2>6. /\ move[r].at = "rollback" /\ Goes(r, "ask")
        /\ UNCHANGED <<life, shown, reception, mail, reply, rescue>>
    BY <1>4 DEF RollBack
  <2>7. Elsewhere(r) /\ Fewer(r) /\ Onward(r)
    BY <2>1, <2>2, <2>3, <2>4, <2>5, <2>6
  <2>8. Here(r)'
    BY <2>1, <2>2, <2>3, <2>4, <2>5, <2>6, SameMail
  <2> QED
    BY <2>7, <2>8, StepAt
<1>5. CASE Confirmed(r)
  <2>1. Elsewhere(r) /\ Fewer(r) /\ Onward(r)
    BY <1>5, EndedTo DEF Confirmed
  <2>2. Stage(r)' /\ Record(r)'
    <3>1. Stage(r)'
      BY <1>5, EndedTo DEF Confirmed
    <3>2. Record(r)'
      BY <1>5, EndedTo DEF Confirmed
    <3> QED
      BY <3>1, <3>2
  <2>3. Answered(r)' /\ Post(r)' /\ ShownVia(r)'
    BY <1>5, EndedTo, SameMail DEF Confirmed
  <2> QED
    BY <2>1, <2>2, <2>3, StepAt
<1>6. CASE Ask(r)
  <2>1. CASE MayAsk(move[r].from)
    <3>1. ~ AnyReserved /\ move[r].from = owner /\ owner' = owner
      BY <1>6, <2>1, OnlyOwnerAsks DEF Ask, MayAsk
    <3>2. /\ move'[r].at = "restore"
          /\ move'[r].from = move[r].from /\ move'[r].prepared = move[r].prepared
          /\ move'[r].removed = move[r].removed /\ move'[r].tries = move[r].tries
          /\ \A q \in Receivers \ {r} : move'[q] = move[q]
      BY <1>6, <2>1, RestoreTo
    <3>3. Elsewhere(r) /\ Fewer(r) /\ Onward(r)
      BY <1>6, <3>1, <3>2 DEF Ask
    <3>4. Here(r)'
      BY <1>6, <3>1, <3>2, SameMail DEF Ask
    <3> QED
      BY <3>3, <3>4, StepAt
  <2>2. CASE ~ MayAsk(move[r].from)
    <3>1. Goes(r, "failed")
      BY <1>6, <2>2 DEF Ask, Fails, Goes
    <3>2. Elsewhere(r) /\ Fewer(r) /\ Onward(r)
      BY <1>6, <2>2, <3>1 DEF Ask
    <3>3. Here(r)'
      BY <1>6, <2>2, <3>1, SameMail DEF Ask
    <3> QED
      BY <3>2, <3>3, StepAt
  <2> QED
    BY <2>1, <2>2
<1>7. CASE Restore(r)
  <2>1. ~ AnyReserved /\ move[r].from = owner /\ move[r].from \in Windows \ {r} /\ ~ Reserved(r)
    BY <1>7 DEF Restore, OwnedVia, AnyReserved
  <2>2. \A w \in Windows : Shows(w)' => Shows(w) \/ w = owner
    BY <1>7, <2>1 DEF Restore, TypeOK
  <2>3. Elsewhere(r) /\ Fewer(r) /\ Onward(r)
    BY <1>7, <2>1, <2>2 DEF Restore
  <2>4. Here(r)'
    BY <1>7, <2>1, <2>2, SameMail DEF Restore
  <2> QED
    BY <2>3, <2>4, StepAt
<1>8. CASE Ready(r)
  <2>1. Elsewhere(r) /\ Fewer(r) /\ Onward(r)
    BY <1>8, EndedTo DEF Ready
  <2>2. Stage(r)' /\ Record(r)'
    <3>1. Stage(r)'
      <4>1. move[r].at = "attached" /\ UNCHANGED <<life, transfer>>
        BY <1>8 DEF Ready
      <4>2. move'[r].at = "over" /\ move'[r].from = move[r].from
        BY <1>8, EndedTo DEF Ready
      <4> QED
        BY <4>1, <4>2
    <3>2. Record(r)'
      BY <1>8, EndedTo DEF Ready
    <3> QED
      BY <3>1, <3>2
  <2>3. Answered(r)' /\ Post(r)' /\ ShownVia(r)'
    BY <1>8, EndedTo, SameMail DEF Ready
  <2> QED
    BY <2>1, <2>2, <2>3, StepAt
<1>9. CASE ReadyTimeout(r)
  <2>1. Goes(r, "failed")
    BY <1>9 DEF ReadyTimeout, Fails, Goes
  <2>2. Elsewhere(r) /\ Fewer(r) /\ Onward(r)
    BY <1>9, <2>1 DEF ReadyTimeout
  <2>3. Here(r)'
    BY <1>9, <2>1, SameMail DEF ReadyTimeout
  <2> QED
    BY <2>2, <2>3, StepAt
<1>10. CASE Retry(r)
  <2>1. \A q \in Receivers \ {r} : ~ (Going(q) /\ move[q].from = move[r].from)
    BY <1>10 DEF Retry, Busy
  <2>2. /\ move'[r].at = "retire" /\ move'[r].tries > 0
        /\ move'[r].from = move[r].from /\ move'[r].prepared = move[r].prepared
        /\ move'[r].removed = move[r].removed
        /\ \A q \in Receivers \ {r} : move'[q] = move[q]
    BY <1>10, RetryTo
  <2>3. Elsewhere(r) /\ Fewer(r) /\ Onward(r)
    BY <1>10, <2>1, <2>2 DEF Retry
  <2>4. Stage(r)' /\ Record(r)'
    <3>1. Stage(r)'
      BY <1>10, <2>2 DEF Retry
    <3>2. Record(r)'
      BY <1>10, <2>2 DEF Retry
    <3> QED
      BY <3>1, <3>2
  <2>5. Answered(r)' /\ Post(r)' /\ ShownVia(r)'
    BY <1>10, <2>2, SameMail DEF Retry
  <2> QED
    BY <2>3, <2>4, <2>5, StepAt
<1> QED
  BY <1>1, <1>2, <1>3, <1>4, <1>5, <1>6, <1>7, <1>8, <1>9, <1>10

-----------------------------------------------------------------------------
(* The receiver, and what its window drains itself.                          *)

\* The receiver revokes only what the source has revoked before.
LEMMA RevokedAgain ==
  ASSUME TypeOK, NEW r \in Receivers, RevokeHere(r), transfer[r].revoked
  PROVE  transfer' = transfer /\ owner' = owner
<1>1. transfer[r] = [transfer[r] EXCEPT !.revoked = TRUE]
  BY Numbers DEF TypeOK, Transfer
<1>2. transfer' = transfer
  BY <1>1, Numbers DEF RevokeHere, TypeOK
<1> QED
  BY <1>2 DEF RevokeHere, Revoked

LEMMA ReceivingCalm ==
  ASSUME TypeOK, Calm, NEW r \in Receivers,
         Receiving(r) \/ Drain(r) \/ Finalize(r)
  PROVE  Calm'
<1> USE HereNow
    DEF Here, Stage, Record, Answered, Post, ShownVia, Awaits, Active, Open, Shows, Reserved,
        Early, Late, Away, Onward, Going, Rests, Restoring, Elsewhere, Apart, Fewer, registry, authority
<1>1. CASE Delivered(r)
  <2>1. /\ reception'[r].at = "asking"
        /\ \A w \in Windows \ {r} : reception'[w] = reception[w]
    BY <1>1 DEF Delivered, TypeOK
  <2>2. /\ InMail(r, "delivery") /\ ~ InMail(r, "delivery")' /\ DeliveryFirst(r)'
        /\ Open(r) /\ \A e : InMail(r, e)' => InMail(r, e)
        /\ \A w \in Windows \ {r} : mail'[w] = mail[w]
    BY <1>1, TakenMail DEF Delivered
  <2>3. Elsewhere(r) /\ Fewer(r) /\ Onward(r)
    BY <1>1, <2>1, <2>2 DEF Delivered
  <2>4. Here(r)'
    BY <1>1, <2>1, <2>2 DEF Delivered
  <2> QED
    BY <2>3, <2>4, StepAt
<1>2. CASE AskVia(r)
  <2>1. /\ reception'[r].at \in {"adopting", "failing"}
        /\ \A w \in Windows \ {r} : reception'[w] = reception[w]
    BY <1>2, AskedVia
  <2>2. Elsewhere(r) /\ Fewer(r) /\ Onward(r)
    BY <1>2, <2>1 DEF AskVia
  <2>3. Here(r)'
    BY <1>2, <2>1, SameMail DEF AskVia
  <2> QED
    BY <2>2, <2>3, StepAt
<1>3. CASE AdoptDelivery(r)
  <2>1. /\ reception'[r].at \in {"attaching", "failing"}
        /\ \A w \in Windows \ {r} : reception'[w] = reception[w]
    BY <1>3, DoingTo DEF AdoptDelivery
  <2>2. \A w \in Windows : Shows(w)' => Shows(w) \/ w = r
    BY <1>3 DEF AdoptDelivery, TypeOK
  <2>3. Reserved(r) /\ Open(r) /\ move[r].at \notin {"show", "commit"}
    BY <1>3 DEF AdoptDelivery
  <2>4. Elsewhere(r) /\ Fewer(r) /\ Onward(r)
    BY <1>3, <2>1, <2>2, <2>3 DEF AdoptDelivery
  <2>5. Here(r)'
    BY <1>3, <2>1, <2>2, <2>3, SameMail DEF AdoptDelivery
  <2> QED
    BY <2>4, <2>5, StepAt
<1>4. CASE AttachedHere(r)
  <2>1. Doing(r, "done") /\ Answers(r, "ok") /\ reception[r].at = "attached"
    BY <1>4 DEF AttachedHere
  <2>2. Elsewhere(r) /\ Fewer(r) /\ Onward(r)
    BY <1>4, <2>1, DoingTo, AnswersTo DEF AttachedHere
  <2>3. Here(r)'
    BY <1>4, <2>1, DoingTo, AnswersTo, SameMail DEF AttachedHere
  <2> QED
    BY <2>2, <2>3, StepAt
<1>5. CASE AttachTimeout(r)
  <2>1. Elsewhere(r) /\ Fewer(r) /\ Onward(r)
    BY <1>5, DoingTo DEF AttachTimeout
  <2>2. Here(r)'
    BY <1>5, DoingTo, SameMail DEF AttachTimeout
  <2> QED
    BY <2>1, <2>2, StepAt
<1>6. CASE GiveUp(r)
  <2>1. Doing(r, "failed") /\ Answers(r, "failed") /\ reception[r].at = "failing"
    BY <1>6 DEF GiveUp
  <2>2. \A w \in Windows : Shows(w)' => Shows(w)
    BY <1>6, TakenOffTo DEF GiveUp
  <2>3. Elsewhere(r) /\ Fewer(r) /\ Onward(r)
    BY <1>6, <2>1, <2>2, DoingTo, AnswersTo DEF GiveUp
  <2>4. Here(r)'
    BY <1>6, <2>1, <2>2, DoingTo, AnswersTo, SameMail DEF GiveUp
  <2> QED
    BY <2>3, <2>4, StepAt
<1>7. CASE RevokeHere(r)
  <2>1. /\ InMail(r, "revoke") /\ ~ InMail(r, "delivery")' /\ DeliveryFirst(r)'
        /\ Open(r) /\ \A e : InMail(r, e)' => InMail(r, e)
        /\ \A w \in Windows \ {r} : mail'[w] = mail[w]
    BY <1>7, TakenMail DEF RevokeHere
  <2>2. transfer[r].revoked /\ move[r].at # "wait"
    BY <2>1
  <2>3. transfer' = transfer /\ owner' = owner
    BY <1>7, <2>2, RevokedAgain
  <2>4. /\ reception'[r].at \in {reception[r].at, "revoked"}
        /\ \A w \in Windows \ {r} : reception'[w] = reception[w]
        /\ \A w \in Windows : Shows(w)' => Shows(w)
    BY <1>7, DoingTo, TakenOffTo DEF RevokeHere
  <2>5. Elsewhere(r) /\ Fewer(r) /\ Onward(r)
    BY <1>7, <2>1, <2>3, <2>4 DEF RevokeHere
  <2>6. Here(r)'
    BY <1>7, <2>1, <2>2, <2>3, <2>4 DEF RevokeHere
  <2> QED
    BY <2>5, <2>6, StepAt
<1>8. CASE FinalizedHere(r)
  <2>1. /\ ~ InMail(r, "delivery")' /\ DeliveryFirst(r)' /\ Open(r)
        /\ mail[r] # <<>> /\ \A e : InMail(r, e)' => InMail(r, e)
        /\ \A w \in Windows \ {r} : mail'[w] = mail[w]
    BY <1>8, TakenMail DEF FinalizedHere, Taken
  <2>2. Elsewhere(r) /\ Fewer(r) /\ Onward(r)
    BY <1>8, <2>1 DEF FinalizedHere
  <2>3. Here(r)'
    BY <1>8, <2>1 DEF FinalizedHere
  <2> QED
    BY <2>2, <2>3, StepAt
<1>9. CASE Abandon(r)
  <2>1. \A w \in Windows : Shows(w)' => Shows(w)
    BY <1>9, TakenOffTo DEF Abandon
  <2>2. Elsewhere(r) /\ Fewer(r) /\ Onward(r)
    BY <1>9, <2>1 DEF Abandon
  <2>3. Here(r)'
    BY <1>9, <2>1, SameMail DEF Abandon
  <2> QED
    BY <2>2, <2>3, StepAt
<1>10. CASE Drain(r)
  <2>1. /\ ~ escrow'[r] /\ \A w \in Windows \ {r} : escrow'[w] = escrow[w]
        /\ \A w \in Windows : Shows(w)' => Shows(w) \/ (w = r /\ escrow[r])
    BY <1>10 DEF Drain, TypeOK
  <2>2. Open(r)
    BY <1>10 DEF Drain
  <2>3. Elsewhere(r) /\ Fewer(r) /\ Onward(r)
    BY <1>10, <2>1, <2>2 DEF Drain
  <2>4. Here(r)'
    BY <1>10, <2>1, <2>2, SameMail DEF Drain
  <2> QED
    BY <2>3, <2>4, StepAt
<1>11. CASE Finalize(r)
  <2>1. /\ transfer[r].phase = "cleaned" /\ Reserved(r) /\ owner = r
        /\ Open(r) /\ reception[r].at = "done"
    BY <1>11 DEF Finalize, OwnedVia
  <2>2. \A w \in Windows : Shows(w) => w = owner
    BY <1>11, <2>1 DEF Finalize
  <2>3. /\ \A w \in Windows \ {r} : transfer'[w] = transfer[w]
        /\ transfer'[r].finalized /\ transfer'[r].phase = "cleaned"
        /\ transfer'[r].source = transfer[r].source
        /\ transfer'[r].revoked = transfer[r].revoked
    BY <1>11, <2>1, MarkedFinalized
  <2>4. /\ \A w \in Windows \ {r} : mail'[w] = mail[w]
        /\ \A e : InMail(r, e)' => InMail(r, e) \/ e = "finalize"
        /\ DeliveryFirst(r)'
    BY <1>11, SentMail DEF Finalize, Events
  <2>5. /\ UNCHANGED <<life, shown, reception, reply, escrow, rescue, owner>>
        /\ move[r].at = "finalize"
    BY <1>11 DEF Finalize
  <2>6. /\ move'[r].at = "over" /\ move'[r].from = move[r].from
        /\ ~ move'[r].prepared /\ ~ move'[r].removed /\ move'[r].tries = 0
        /\ \A q \in Receivers \ {r} : move'[q] = move[q]
    BY <1>11, EndedTo DEF Finalize
  <2>7. Elsewhere(r) /\ Fewer(r) /\ Onward(r)
    BY <2>1, <2>2, <2>3, <2>4, <2>5, <2>6
  <2>8. Here(r)'
    BY <2>1, <2>2, <2>3, <2>4, <2>5, <2>6
  <2> QED
    BY <2>7, <2>8, StepAt
<1> QED
  BY <1>1, <1>2, <1>3, <1>4, <1>5, <1>6, <1>7, <1>8, <1>9, <1>10, <1>11 DEF Receiving

-----------------------------------------------------------------------------
(* A move starts, reserves the sessions, and gives them to the receiver.     *)

LEMMA SourceSettled ==
  ASSUME NEW q \in Receivers, OwnedVia(q), transfer[q].phase # "none",
         transfer'[q].source = transfer[q].source,
         \A w \in Windows : Settled(w) => Settled(w)'
  PROVE  Settled(transfer[q].source)' /\ transfer'[q].source # q
<1>1. PICK w \in Windows \ {q} : w = transfer[q].source /\ Settled(w)
  BY Numbers DEF OwnedVia, Settled
<1>2. Settled(w)'
  BY <1>1
<1> QED
  BY <1>1, <1>2

LEMMA StartCalm ==
  ASSUME TypeOK, Calm, NEW r \in Receivers, NEW s \in Windows, Start(s, r)
  PROVE  Calm'
<1> USE Numbers
<1>1. /\ Open(s) /\ Shows(s) /\ ~ Open(r) /\ s # r /\ life[r] = "absent"
      /\ \A q \in Receivers : ~ (Going(q) /\ move[q].from = s)
      /\ UNCHANGED <<shown, reception, mail, reply, escrow, rescue, transfer, owner>>
  BY DEF Start, Open, Busy, Going, registry, authority
<1>2. /\ move'[r] = [AtRest EXCEPT !.at = "opening", !.from = s]
      /\ \A q \in Receivers \ {r} : move'[q] = move[q]
  BY DEF Start, TypeOK
<1>3. /\ move'[r].at = "opening" /\ move'[r].from = s
      /\ ~ move'[r].prepared /\ ~ move'[r].removed
  BY <1>2 DEF AtRest
<1>4. /\ life'[r] = "open" /\ \A w \in Windows \ {r} : life'[w] = life[w]
  BY DEF Start, TypeOK
<1>5. /\ Here(r) /\ move[r].at = "idle" /\ transfer[r].phase = "none" /\ ~ Reserved(r)
      /\ ~ transfer[r].revoked /\ ~ transfer[r].finalized
  BY <1>1, HereNow DEF Here, Stage, Reserved
<1>6. Stage(r)' /\ Record(r)'
  BY <1>1, <1>3, <1>4, <1>5 DEF Stage, Record, Active, Open, Reserved, Early, Late, Away
<1>7. Answered(r)' /\ Post(r)'
  BY <1>1, <1>3, <1>4, <1>5, NoMail, SameMail DEF Here, Answered, Post, Awaits, Open, Shows, Reserved
<1>8. /\ \A q \in Receivers : Stage(q)' /\ Record(q)' /\ Answered(q)'
      /\ \A w \in Windows : Post(w)'
  BY <1>1, <1>2, <1>4, <1>6, <1>7, OthersKeep DEF Apart, Shows
<1>9. /\ \A q \in Receivers : Reserved(q)' <=> Reserved(q)
      /\ AnyReserved' <=> AnyReserved
      /\ \A w \in Windows : Shows(w)' <=> Shows(w)
      /\ \A w \in Windows : Settled(w)' <=> Settled(w)
  BY <1>1 DEF Reserved, AnyReserved, Shows, Settled
<1>10. Sourced'
  <2>1. move'[r].from \in Windows \ {r} /\ Open(s)'
    BY <1>1, <1>3, <1>4 DEF Open
  <2>2. ASSUME NEW q \in Receivers \ {r}, Active(q)
        PROVE  move[q].from \in Windows \ {q, r} /\ Open(move[q].from)
    BY <1>1, <2>2 DEF Calm, Sourced
  <2>3. ASSUME NEW q \in Receivers \ {r}, Active(q)'
        PROVE  move'[q].from \in Windows \ {q} /\ life'[move'[q].from] = "open"
    BY <1>2, <1>4, <2>2, <2>3 DEF Active, Open
  <2> QED
    BY <1>3, <2>1, <2>3 DEF Sourced, Open
<1>11. OneMove' /\ OneReserved'
  <2>1. \A q \in Receivers \ {r} : Going(q)' => Going(q) /\ move'[q].from # s
    BY <1>1, <1>2 DEF Going
  <2>2. \A q \in Receivers \ {r} : move'[q].from = move[q].from
    BY <1>2
  <2>3. OneMove'
    BY <1>3, <2>1, <2>2 DEF Calm, OneMove
  <2>4. OneReserved'
    BY <1>9 DEF Calm, OneReserved
  <2> QED
    BY <2>3, <2>4
<1>12. Owned'
  <2>1. ASSUME NEW q \in Receivers PROVE OwnedVia(q)'
    <3>1. OwnedVia(q) /\ (Restoring(q)' => Restoring(q) /\ q # r)
      BY <1>2, <1>3 DEF Calm, Owned, Restoring
    <3> QED
      BY <1>1, <1>2, <1>9, <3>1 DEF OwnedVia, Settled
  <2> QED
    BY <1>1, <1>4, <1>9, <2>1 DEF Calm, Owned, Open, Settled, Receivers
<1>13. Holding'
  <2>1. ASSUME NEW q \in Receivers PROVE ShownVia(q)'
    <3>1. CASE q = r
      BY <1>3, <1>5, <1>9, <3>1 DEF ShownVia
    <3>2. CASE q # r
      <4>1. ShownVia(q) /\ move'[q] = move[q] /\ (Active(q) => move[q].from \in Windows)
        BY <1>2, <3>2 DEF Calm, Holding, Sourced
      <4> QED
        BY <1>1, <1>9, <4>1 DEF ShownVia, Active
    <3> QED
      BY <3>1, <3>2
  <2> QED
    BY <1>1, <1>9, <2>1 DEF Calm, Holding
<1> QED
  BY <1>1, <1>8, <1>10, <1>11, <1>12, <1>13 DEF Calm

LEMMA PrepareCalm ==
  ASSUME TypeOK, Calm, NEW r \in Receivers, Prepare(r)
  PROVE  Calm'
<1> USE Numbers, HereNow, GoesTo
<1>1. /\ UNCHANGED <<life, shown, reception, mail, reply, escrow, rescue>>
      /\ move[r].at = "prepare"
  BY DEF Prepare, registry
<1>2. /\ transfer[r].phase = "none" /\ ~ Reserved(r) /\ ~ move[r].prepared /\ ~ move[r].removed
      /\ mail[r] = <<>> /\ reception[r].at = "none" /\ ~ escrow[r] /\ reply[r] = "none"
      /\ Open(r) /\ Active(r) /\ Going(r) /\ move[r].from \in Windows \ {r}
  BY <1>1 DEF Here, Stage, Record, Answered, Post, Awaits, Active, Going, Rests, Reserved, Early,
              TypeOK
<1>3. CASE Goes(r, "retire")
  <2>1. transfer' = transfer /\ owner' = owner
    BY <1>3, GoesTo DEF Prepare, TypeOK, Move
  <2>2. Elsewhere(r) /\ Fewer(r) /\ Onward(r)
    BY <1>1, <1>2, <1>3, <2>1
       DEF Elsewhere, Apart, Fewer, Onward, Active, Going, Rests, Restoring, Reserved, Shows
  <2>3. Stage(r)' /\ Record(r)'
    BY <1>1, <1>2, <1>3, <2>1 DEF Here, Stage, Record, Active, Open, Reserved, Early, Late, Away
  <2>4. Answered(r)' /\ Post(r)' /\ ShownVia(r)'
    BY <1>1, <1>2, <1>3, <2>1, NoMail, SameMail
       DEF Here, Answered, Post, ShownVia, Awaits, Open, Shows, Reserved
  <2> QED
    BY <2>2, <2>3, <2>4, StepAt DEF Here
<1>4. CASE ~ Goes(r, "retire")
  <2> USE <1>1, <1>2, PreparedTo, <1>4
  <2>1. ~ AnyReserved /\ move[r].from = owner /\ owner' = owner
    <3>1. ~ AnyReserved /\ MayOwn(move[r].from) /\ owner' = move[r].from
      BY <1>4, PreparedTo
    <3>2. move[r].from = owner
      BY <1>2, <3>1, OnlyOwnerAsks
    <3> QED
      BY <3>1, <3>2
  <2>2. \A q \in Receivers : Reserved(q)' <=> q = r
    <3>1. Reserved(r)'
      BY DEF Reserved
    <3>2. ASSUME NEW q \in Receivers \ {r} PROVE ~ Reserved(q)'
      <4>1. transfer'[q] = transfer[q] /\ ~ Reserved(q)
        BY <2>1 DEF AnyReserved
      <4> QED
        BY <4>1 DEF Reserved
    <3> QED
      BY <3>1, <3>2
  <2>3. \A w \in Windows : Shows(w)' => w = owner
    BY <2>1 DEF Calm, Holding, Shows
  <2>4. Stage(r)' /\ Record(r)'
    BY <2>2 DEF Stage, Record, Active, Open, Reserved, Early, Late, Away
  <2>5. Answered(r)' /\ Post(r)'
    BY NoMail, SameMail DEF Here, Answered, Post, Awaits, Open, Shows, Reserved
  <2>6. /\ \A q \in Receivers : Stage(q)' /\ Record(q)' /\ Answered(q)'
        /\ \A w \in Windows : Post(w)'
    BY <2>4, <2>5, OthersKeep DEF Apart, Shows
  <2>7. \A q \in Receivers : move'[q].from = move[q].from
    OBVIOUS
  <2>8. Sourced' /\ OneMove' /\ OneReserved'
    BY <2>2, <2>7 DEF Calm, Sourced, OneMove, OneReserved, Open, Active, Going, Rests
  <2>9. \A w \in Windows : Settled(w) => Settled(w)'
    BY DEF Settled
  <2>10. ASSUME NEW q \in Receivers PROVE ~ Restoring(q)'
    <3>1. CASE q = r
      BY <3>1 DEF Restoring
    <3>2. CASE q # r
      <4>1. ASSUME Restoring(q) PROVE FALSE
        <5>1. owner = move[q].from /\ Going(q)
          BY <4>1 DEF OwnedVia, Restoring, Going, Rests
        <5> QED
          BY <2>1, <3>2, <5>1 DEF Calm, OneMove
      <4> QED
        BY <3>2, <4>1 DEF Restoring
    <3> QED
      BY <3>1, <3>2
  <2>11. Owned'
    <3>1. owner \in Windows /\ Settled(owner)
      BY DEF Calm, Owned, Settled
    <3>2. ASSUME NEW q \in Receivers PROVE OwnedVia(q)'
      <4>1. CASE q = r
        BY <2>1, <2>2, <2>9, <2>10, <3>1, <4>1 DEF OwnedVia
      <4>2. CASE q # r
        <5>1. OwnedVia(q) /\ transfer'[q] = transfer[q] /\ ~ Reserved(q)' /\ ~ Restoring(q)'
          BY <2>2, <2>10, <4>2
        <5>2. CASE transfer[q].phase = "none"
          BY <5>1, <5>2 DEF OwnedVia
        <5>3. CASE transfer[q].phase # "none"
          BY <2>9, <5>1, <5>3, SourceSettled DEF OwnedVia
        <5> QED
          BY <5>2, <5>3
      <4> QED
        BY <4>1, <4>2
    <3> QED
      BY <2>1, <2>9, <3>1, <3>2 DEF Calm, Owned, Open, Settled
  <2>12. Holding'
    <3>1. ASSUME NEW q \in Receivers, q # r PROVE move[q].at \notin {"show", "commit"}
      BY <2>1 DEF Here, Stage, Record, Active, AnyReserved, Reserved
    <3>2. ShownVia(r)'
      BY <2>1, <2>3 DEF ShownVia
    <3>3. ASSUME NEW q \in Receivers, q # r PROVE ShownVia(q)'
      BY <2>2, <3>1, <3>3 DEF ShownVia
    <3> QED
      BY <2>2, <3>2, <3>3 DEF Holding, AnyReserved
  <2> QED
    BY <2>6, <2>8, <2>11, <2>12 DEF Calm
<1> QED
  BY <1>3, <1>4

LEMMA CleanCalm ==
  ASSUME TypeOK, Calm, NEW r \in Receivers, Clean(r)
  PROVE  Calm'
<1> USE Numbers, HereNow
<1>1. /\ move[r].at = "clean" /\ Goes(r, "finalize") /\ Advanced(r, "cleaned") /\ owner' = r
      /\ UNCHANGED <<life, shown, reception, mail, reply, escrow, rescue>>
  BY DEF Clean, registry
<1>2. /\ Open(r) /\ Active(r) /\ Reserved(r) /\ move[r].prepared /\ move[r].removed
      /\ transfer[r].phase = "received" /\ transfer[r].source = move[r].from
      /\ ~ transfer[r].revoked /\ reception[r].at = "done" /\ ~ escrow[r]
      /\ ~ InMail(r, "delivery") /\ reply[r] = "none"
  BY <1>1 DEF Here, Stage, Record, Answered, Post, Awaits, Active, Reserved, Early, Away,
              TypeOK
<1>3. /\ move'[r].at = "finalize" /\ \A q \in Receivers \ {r} : move'[q] = move[q]
      /\ move'[r].prepared /\ move'[r].removed
      /\ \A q \in Receivers : move'[q].from = move[q].from
  BY <1>1, <1>2, GoesTo
<1>4. /\ transfer'[r].phase = "cleaned" /\ ~ transfer'[r].revoked
      /\ transfer'[r].finalized = transfer[r].finalized
      /\ transfer'[r].source = transfer[r].source
      /\ \A w \in Windows \ {r} : transfer'[w] = transfer[w]
  BY <1>1, <1>2, AdvancedTo
<1>5. \A q \in Receivers : (Reserved(q) <=> q = r) /\ (Reserved(q)' <=> q = r)
  BY <1>2, <1>4 DEF Calm, OneReserved, Reserved
<1>6. Stage(r)' /\ Record(r)'
  BY <1>1, <1>2, <1>3, <1>4 DEF Here, Stage, Record, Active, Open, Reserved, Early, Late, Away
<1>7. Answered(r)' /\ Post(r)'
  BY <1>1, <1>2, <1>3, <1>4, SameMail DEF Here, Answered, Post, Open, Shows
<1>8. /\ \A q \in Receivers : Stage(q)' /\ Record(q)' /\ Answered(q)'
      /\ \A w \in Windows : Post(w)'
  <2>1. Apart(r)
    BY <1>1, <1>3, <1>4 DEF Apart
  <2>2. \A w \in Windows : Shows(w)' <=> Shows(w)
    BY <1>1 DEF Shows
  <2> QED
    BY <1>6, <1>7, <2>1, <2>2, OthersKeep
<1>9. Sourced' /\ OneMove' /\ OneReserved'
  BY <1>1, <1>2, <1>3, <1>5 DEF Calm, Sourced, OneMove, OneReserved, Open, Active, Going, Rests
<1>10. (\A w \in Windows : Settled(w) => Settled(w)') /\ Settled(r)'
  BY <1>4 DEF Settled
<1>11. ASSUME NEW q \in Receivers PROVE OwnedVia(q)'
  <2>1. ~ Restoring(q)'
    BY <1>2, <1>3 DEF OwnedVia, Restoring, AnyReserved
  <2>2. CASE transfer[q].phase = "none"
    BY <1>2, <1>4, <1>5, <2>1, <2>2 DEF OwnedVia
  <2>3. CASE transfer[q].phase # "none"
    BY <1>1, <1>4, <1>5, <1>10, <2>1, <2>3, SourceSettled DEF OwnedVia
  <2> QED
    BY <2>2, <2>3
<1>12. Owned'
  BY <1>1, <1>10, <1>11 DEF Calm, Owned, Open, Settled
<1>13. Holding'
  <2>1. ASSUME NEW q \in Receivers, q # r PROVE move[q].at \notin {"show", "commit"}
    BY <1>5, <2>1 DEF Here, Stage, Record, Active, Reserved
  <2>2. ASSUME NEW q \in Receivers PROVE ShownVia(q)'
    BY <1>1, <1>2, <1>3, <1>4, <1>5, <2>1 DEF Here, ShownVia, Shows
  <2> QED
    BY <1>5, <2>2 DEF Holding, AnyReserved
<1> QED
  BY <1>1, <1>8, <1>9, <1>12, <1>13 DEF Calm

-----------------------------------------------------------------------------
(* Steps that are the same for every move, or that change none.              *)

Alike(q) ==
  \/ move'[q] = move[q]
  \/ /\ move[q].at = "ready" /\ move'[q].at = "attached"
     /\ move'[q].from = move[q].from /\ move'[q].prepared = move[q].prepared
     /\ move'[q].removed = move[q].removed

LEMMA AlikeCalm ==
  ASSUME Calm, \A q \in Receivers : Alike(q),
         \A w \in Windows :
           \/ reception'[w] = reception[w]
           \/ reception[w].at = "attaching" /\ reception'[w].at = "attached",
         UNCHANGED <<life, shown, mail, reply, escrow, rescue, transfer, owner>>
  PROVE  Calm'
<1> USE Numbers, HereNow DEF Alike
<1>1. \A q \in Receivers :
        /\ move'[q].from = move[q].from
        /\ Active(q)' <=> Active(q)
        /\ Going(q)' <=> Going(q)
        /\ Restoring(q)' <=> Restoring(q)
        /\ Reserved(q)' <=> Reserved(q)
  BY DEF Active, Going, Rests, Restoring, Reserved
<1>2. /\ \A w \in Windows : Open(w)' <=> Open(w)
      /\ \A w \in Windows : Shows(w)' <=> Shows(w)
      /\ \A w \in Windows : Settled(w)' <=> Settled(w)
      /\ AnyReserved' <=> AnyReserved
  BY DEF Open, Shows, Settled, Reserved, AnyReserved
<1>3. ASSUME NEW q \in Receivers PROVE Stage(q)' /\ Record(q)' /\ Answered(q)'
  <2>1. Stage(q) /\ Record(q) /\ Answered(q) /\ Alike(q)
    BY DEF Here
  <2>2. Stage(q)'
    <3>1. CASE move'[q] = move[q]
      <4>1. transfer'[q] = transfer[q] /\ life'[q] = life[q]
        OBVIOUS
      <4> QED
        BY <2>1, <3>1, <4>1 DEF Stage, Open, Reserved
    <3>2. CASE move[q].at = "ready"
      BY <1>1, <1>2, <2>1, <3>2 DEF Stage, Early, Late, Away
    <3> QED
      BY <2>1, <3>1, <3>2
  <2>3. Record(q)' /\ Answered(q)'
    BY <1>1, <1>2, <2>1 DEF Record, Answered
  <2> QED
    BY <2>2, <2>3
<1>4. ASSUME NEW w \in Windows PROVE Post(w)'
  <2>1. Post(w) /\ (w # Main => Alike(w) /\ (Reserved(w)' <=> Reserved(w)))
    BY <1>1 DEF Calm, Receivers
  <2>2. (Awaits(w)' <=> Awaits(w)) /\ (Awaits(w) => move'[w].removed = move[w].removed)
    BY <2>1 DEF Awaits
  <2> QED
    BY <1>2, <2>1, <2>2, SameMail DEF Post
<1>5. Sourced' /\ OneMove' /\ OneReserved'
  <2>1. Sourced'
    BY <1>1, <1>2 DEF Calm, Sourced
  <2>2. OneMove' /\ OneReserved'
    BY <1>1 DEF Calm, OneMove, OneReserved
  <2> QED
    BY <2>1, <2>2
<1>6. Owned'
  <2>1. ASSUME NEW q \in Receivers PROVE OwnedVia(q)'
    <3>1. transfer[q].phase # "none" =>
            Settled(transfer[q].source)' /\ transfer'[q].source # q
      BY <1>2, SourceSettled
    <3> QED
      BY <1>1, <1>2, <3>1 DEF OwnedVia
  <2> QED
    BY <1>2, <2>1 DEF Calm, Owned, Settled
<1>7. Holding'
  <2>1. ASSUME NEW q \in Receivers PROVE ShownVia(q)'
    <3>1. ShownVia(q) /\ (Active(q) => move[q].from \in Windows)
      BY DEF Here
    <3>2. /\ Active(q) => move'[q].removed = move[q].removed
          /\ move'[q].at \in {"show", "commit"} => move'[q].at = move[q].at
      OBVIOUS
    <3> QED
      BY <1>1, <1>2, <3>1, <3>2 DEF ShownVia
  <2> QED
    BY <1>2, <2>1 DEF Calm, Holding
<1> QED
  BY <1>3, <1>4, <1>5, <1>6, <1>7 DEF Calm

LEMMA AttachCalm ==
  ASSUME TypeOK, Calm, NEW c, Attach(c)
  PROVE  Calm'
<1>1. ASSUME NEW q \in Receivers PROVE Alike(q)
  BY DEF Attach, Alike, TypeOK, Move
<1>2. ASSUME NEW w \in Windows
      PROVE  \/ reception'[w] = reception[w]
             \/ reception[w].at = "attaching" /\ reception'[w].at = "attached"
  BY DEF Attach, TypeOK, Reception
<1>3. UNCHANGED <<life, shown, mail, reply, escrow, rescue, transfer, owner>>
  BY DEF Attach, registry
<1> QED
  BY <1>1, <1>2, <1>3, AlikeCalm

LEMMA WindowCalm ==
  ASSUME TypeOK, Calm, NEW w \in Windows, Republish(w) \/ Mount(w) \/ Drain(w)
  PROVE  Calm'
<1> USE Numbers
<1>1. CASE Republish(w)
  BY <1>1, AlikeCalm DEF Republish, Alike, windowVars, authority
<1>2. CASE Mount(w)
  <2>1. owner' = owner
    BY <1>2, OnlyOwnerAsks DEF Mount, MayAsk
  <2> QED
    BY <1>2, <2>1, AlikeCalm DEF Mount, Alike, windowVars, registry
<1>3. CASE Drain(w)
  <2>1. CASE w \in Receivers
    BY <1>3, <2>1, ReceivingCalm
  <2>2. CASE w = Main
    <3>1. ~ escrow[w]
      BY <2>2 DEF Calm, Post, Awaits
    <3>2. escrow' = escrow /\ shown' = shown
      BY <1>3, <3>1 DEF Drain, TypeOK
    <3> QED
      BY <1>3, <3>2, AlikeCalm DEF Drain, Alike, authority
  <2> QED
    BY <2>1, <2>2 DEF Receivers
<1> QED
  BY <1>1, <1>2, <1>3

-----------------------------------------------------------------------------
(* The receiver is closed, and what it had begun itself ends with it.        *)

LEMMA RetireCalm ==
  ASSUME TypeOK, Calm, NEW r \in Receivers, Retire(r)
  PROVE  Calm'
<1> USE Numbers, HereNow
<1>1. /\ move[r].at = "retire" /\ Active(r) /\ transfer[r].phase # "cleaned"
      /\ move[r].from \in Windows \ {r}
      /\ reply[r] = "none" /\ ~ Settled(r)
      /\ UNCHANGED <<reply, rescue, transfer, owner>>
  BY DEF Retire, authority, Here, Stage, Post, Active, Settled, TypeOK
<1>2. /\ AfterRetire(move[r]) \in {"rollback", "ask"}
      /\ AfterRetire(move[r]) = "rollback" => move[r].prepared /\ Reserved(r)
  BY <1>1 DEF AfterRetire, Here, Stage
<1>3. CASE ~ Open(r)
  <2>1. Goes(r, AfterRetire(move[r])) /\ UNCHANGED <<life, shown, reception, mail, escrow>>
    BY <1>3 DEF Retire
  <2>2. Elsewhere(r) /\ Fewer(r) /\ Onward(r)
    BY <1>1, <1>2, <2>1, GoesTo
       DEF Elsewhere, Apart, Fewer, Onward, Active, Going, Rests, Restoring, Reserved, Shows
  <2>3. Stage(r)' /\ Record(r)'
    BY <1>1, <1>2, <1>3, <2>1, GoesTo
       DEF Here, Stage, Record, Active, Open, Reserved, Early, Late, Away
  <2>4. Answered(r)' /\ Post(r)'
    <3>1. /\ ~ Shows(r)' /\ ~ escrow'[r] /\ reception'[r].at = "none" /\ mail'[r] = <<>>
          /\ reply'[r] = "none" /\ ~ Open(r)'
      BY <1>1, <1>3, <2>1 DEF Here, Post, Open, Shows
    <3>2. move'[r].at \in {"rollback", "ask"}
      BY <1>2, <2>1, GoesTo
    <3> QED
      BY <3>1, <3>2, NoMailNext DEF Answered, Post
  <2>5. ShownVia(r)'
    <3>1. /\ move'[r].at \notin {"show", "commit"}
          /\ move'[r].from = move[r].from /\ move'[r].removed = move[r].removed
      BY <1>2, <2>1, GoesTo
    <3>2. ShownVia(r)
      BY DEF Here
    <3> QED
      BY <1>1, <2>1, <3>1, <3>2 DEF ShownVia, Shows, Reserved
  <2> QED
    BY <2>2, <2>3, <2>4, <2>5, StepAt DEF Here
<1>4. CASE Open(r)
  <2>1. /\ ~ Open(r)' /\ life'[r] = "gone" /\ ~ Shows(r)' /\ reception'[r].at = "none"
        /\ mail'[r] = <<>> /\ ~ escrow'[r]
        /\ \A w \in Windows \ {r} :
             /\ life'[w] = life[w] /\ shown'[w] = shown[w] /\ reception'[w] = reception[w]
             /\ mail'[w] = mail[w] /\ escrow'[w] = escrow[w]
    BY <1>4 DEF Retire, Ends, TypeOK, Open, Shows, NoReception
  <2>2. /\ move'[r].at = AfterRetire(move[r]) /\ move'[r].from = move[r].from
        /\ move'[r].prepared = move[r].prepared /\ move'[r].removed = move[r].removed
        /\ \A q \in Receivers \ {r} : move[q].from # r => move'[q] = move[q]
        /\ \A q \in Receivers \ {r} : move[q].from = r =>
             /\ move'[q].at = "over" /\ move'[q].from = r
             /\ ~ move'[q].prepared /\ ~ move'[q].removed
    BY <1>1, <1>4, WithoutTo
  <2>3. ASSUME NEW q \in Receivers \ {r}, move[q].from = r
        PROVE  /\ move[q].at # "idle" /\ (transfer[q].phase = "none" \/ move[q].at = "over")
               /\ ~ Awaits(q) /\ ~ escrow[q] /\ reply[q] = "none"
    <3>1. Stage(q) /\ Record(q) /\ OwnedVia(q) /\ Post(q)
      BY DEF Here
    <3>2. Active(q) => transfer[q].phase = "none"
      BY <1>1, <2>3, <3>1 DEF Record, OwnedVia
    <3>3. move[q].at # "idle"
      BY <2>3, <3>1 DEF Stage
    <3> QED
      BY <3>1, <3>2, <3>3 DEF Active, Stage, Post, Awaits, Reserved, TypeOK
  <2>4. \A q \in Receivers : Reserved(q)' <=> Reserved(q)
    BY <1>1 DEF Reserved
  <2>5. /\ \A w \in Windows : Settled(w)' <=> Settled(w)
        /\ AnyReserved' <=> AnyReserved
        /\ \A w \in Windows : Shows(w)' => Shows(w)
    BY <1>1, <2>1, <2>4 DEF Settled, AnyReserved, Shows
  <2>6. \A q \in Receivers :
          /\ move'[q].from = move[q].from
          /\ Active(q)' => Active(q) /\ move[q].from # r
          /\ Going(q)' => Going(q)
          /\ Restoring(q)' => Restoring(q)
    BY <1>1, <1>2, <2>2 DEF Active, Going, Rests, Restoring
  <2>7. ASSUME NEW q \in Receivers PROVE Stage(q)' /\ Record(q)' /\ Answered(q)'
    <3>1. CASE q = r
      BY <1>1, <1>2, <1>4, <2>1, <2>2, <2>4, <3>1
         DEF Here, Stage, Record, Answered, Active, Open, Reserved, Early, Late, Away
    <3>2. CASE q # r /\ move[q].from = r
      BY <1>1, <2>1, <2>2, <2>3, <2>4, <3>2
         DEF Here, Stage, Record, Answered, Active, Open, Reserved, Early, Late, Away
    <3>3. CASE q # r /\ move[q].from # r
      BY <1>1, <2>1, <2>2, <2>4, <3>3 DEF Here, Stage, Record, Answered, Active, Open
    <3> QED
      BY <3>1, <3>2, <3>3
  <2>8. ASSUME NEW w \in Windows PROVE Post(w)'
    <3>1. CASE w = r
      BY <1>1, <2>1, <3>1, NoMailNext DEF Post
    <3>2. CASE w # r
      <4>1. Post(w) /\ Shows(w)' = Shows(w) /\ life'[w] = life[w] /\ reply'[w] = reply[w]
        BY <1>1, <2>1, <3>2 DEF Calm, Shows
      <4>2. CASE w # Main /\ move[w].from = r
        <5>1. ~ Awaits(w) /\ ~ escrow[w] /\ reply[w] = "none"
          BY <2>3, <3>2, <4>2 DEF Receivers
        <5> QED
          BY <1>1, <2>1, <3>2, <4>1, <5>1, SameMail DEF Post, Open
      <4>3. CASE w = Main \/ move[w].from # r
        <5>1. w # Main => move'[w] = move[w]
          BY <2>2, <3>2, <4>3 DEF Receivers
        <5> QED
          BY <1>1, <2>1, <3>2, <4>1, <5>1, SameMail DEF Post, Awaits, Open, Reserved
      <4> QED
        BY <4>2, <4>3
    <3> QED
      BY <3>1, <3>2
  <2>9. Sourced' /\ OneMove' /\ OneReserved'
    BY <2>1, <2>4, <2>6 DEF Calm, Sourced, OneMove, OneReserved, Open
  <2>10. Owned'
    <3>1. ASSUME NEW q \in Receivers PROVE OwnedVia(q)'
      <4>1. transfer[q].phase # "none" =>
              Settled(transfer[q].source)' /\ transfer'[q].source # q
        BY <1>1, <2>5, SourceSettled
      <4> QED
        BY <1>1, <2>4, <2>5, <2>6, <4>1 DEF OwnedVia
    <3> QED
      BY <1>1, <2>1, <2>5, <3>1 DEF Calm, Owned, Open, Settled, Receivers
  <2>11. Holding'
    <3>1. ASSUME NEW q \in Receivers PROVE ShownVia(q)'
      <4>1. ShownVia(q) /\ (Active(q) => move[q].from \in Windows)
        BY DEF Here
      <4>2. /\ Active(q)' /\ move'[q].removed => Active(q) /\ move[q].removed
            /\ move'[q].at \in {"show", "commit"} => move'[q].at = move[q].at
        BY <1>2, <2>2, <2>6 DEF Active
      <4> QED
        BY <1>1, <2>4, <2>5, <2>6, <4>1, <4>2 DEF ShownVia
    <3> QED
      BY <1>1, <2>5, <3>1 DEF Calm, Holding
  <2> QED
    BY <1>1, <2>7, <2>8, <2>9, <2>10, <2>11 DEF Calm
<1> QED
  BY <1>3, <1>4

-----------------------------------------------------------------------------
LEMMA StepCalm == TypeOK /\ IInv /\ [Next]_vars => IInv'
<1> SUFFICES ASSUME TypeOK, IInv, [Next]_vars, Crashed' = {} PROVE Calm'
  BY DEF IInv
<1> USE Numbers
<1>1. ASSUME NEW w \in Windows, Crash(w) PROVE FALSE
  <2>1. life'[w] = "crashed"
    BY <1>1 DEF Crash, Ends, TypeOK
  <2> QED
    BY <2>1 DEF Crashed
<1>2. Crashed = {}
  BY CrashesStay DEF Crashed
<1>3. Calm
  BY <1>2 DEF IInv
<1>4. ASSUME NEW r \in Receivers, \/ \E s \in Windows : Start(s, r)
                                  \/ Moving(r) \/ Recovering(r) \/ Retry(r) \/ Receiving(r)
      PROVE  Calm'
  BY <1>3, <1>4, StartCalm, MovingCalm, PrepareCalm, CleanCalm, ReceivingCalm, RecoveringCalm,
     RetireCalm DEF Moving, Recovering
<1>5. ~ Rescued
  BY <1>3 DEF Calm, Rescued
<1>6. CASE UNCHANGED vars
  BY <1>3, <1>6, AlikeCalm DEF Alike, vars
<1> QED
  BY <1>1, <1>3, <1>4, <1>5, <1>6, WindowCalm, AttachCalm DEF Next

LEMMA CalmIsOne == TypeOK /\ Calm => OneScreen
<1> SUFFICES ASSUME TypeOK, Calm, NEW v \in Windows, NEW w \in Windows, Shows(v), Shows(w), v # w
             PROVE  \E r \in {v, w} \cap Receivers : Unsettled(r)
  BY DEF OneScreen
<1>1. PICK r \in Receivers : Reserved(r)
  BY DEF Calm, Holding, AnyReserved
<1>2. /\ {v, w} = {transfer[r].source, r} /\ Shows(r) /\ Open(r) /\ Shows(transfer[r].source)
  BY <1>1, HereNow DEF Here, ShownVia, Post
<1>3. Active(r) /\ transfer[r].source = move[r].from /\ ~ move[r].removed
  BY <1>1, <1>2, HereNow DEF Here, Stage, Record, ShownVia, Active, Reserved
<1>4. move[r].at \in Stages
  BY DEF TypeOK, Move
<1>5. move[r].at \notin {"idle", "opening", "prepare", "show", "commit", "over"} \cup Away \cup Late
  BY <1>1, <1>2, <1>3, HereNow DEF Here, Stage, ShownVia, Active, Reserved
<1>6. Unsettled(r)
  BY <1>2, <1>4, <1>5 DEF Unsettled, Stages, Away, Late
<1> QED
  BY <1>2, <1>6

\* However moves, failures, receipts that are late and recoveries overlap,
\* source and receiver never both keep the workspace while no window crashes.
THEOREM NeverBoth == Spec => []OneScreen
<1>1. Init => IInv
  BY InitCalm DEF IInv
<1>2. TypeOK /\ IInv => OneScreen
  BY CalmIsOne DEF IInv, OneScreen
<1> QED
  BY <1>1, <1>2, TypeInit, TypeNext, StepCalm, PTL DEF Spec

-----------------------------------------------------------------------------
(* Whom the sessions write to.                                               *)

\* The context issued last is the owner's, or the receiver's of the transfer
\* that holds the reservation.
GrantNamed ==
  \/ grant.to \in {Nobody, owner}
  \/ grant.to \in Receivers /\ grant.via = grant.to /\ Reserved(grant.to)

\* Contexts are issued for a transfer only after the source has removed the
\* workspace, and while it is reserved the source has not finished.
ViaGoesOn(r) ==
  grant.via = r \/ active.via = r =>
    transfer[r].phase # "none" /\ (Reserved(r) => Active(r) /\ move[r].removed)

\* A receiver that attached is attached until it is revoked or the sessions
\* are its own; so is a source that attached again.
ReceiverAttached(r) ==
  reception[r].at \in {"attached", "done"} /\ Reserved(r) /\ ~ transfer[r].revoked
    => grant.to = r /\ active.to = r
SourceAttached(r) == move[r].at = "attached" => active.to = move[r].from

\* The contexts that are kept for an attach call are those of the window.
ContextsNamed(r) ==
  /\ reception[r].at \in {"adopting", "attaching"} => reception[r].ctx.to = r
  /\ move[r].at \in {"restore", "ready"} => move[r].ctx.to = move[r].from

Detached(r) == Active(r) /\ move[r].removed
OwnerAttached == active.to = owner \/ \E r \in Receivers : Detached(r)

Attachment ==
  /\ GrantNamed /\ OwnerAttached
  /\ \A r \in Receivers :
       ViaGoesOn(r) /\ ReceiverAttached(r) /\ SourceAttached(r) /\ ContextsNamed(r)

\* An attach call names a window.
CallsNamed == \A c \in attaching : c.to # Nobody

AInv == Crashed = {} => Attachment /\ CallsNamed

LEMMA InitAttachment == Init => Attachment /\ CallsNamed
<1> SUFFICES ASSUME Init PROVE Attachment /\ CallsNamed
  OBVIOUS
<1> USE Numbers
<1>1. /\ owner = Main /\ grant = First /\ active = First
      /\ First.to = Main /\ First.via = Nobody
  BY DEF Init, First
<1>2. \A r \in Receivers : /\ r # Nobody /\ move[r].at = "idle"
                           /\ reception[r].at = "none"
  BY DEF Init, AtRest, NoReception
<1> QED
  BY <1>1, <1>2 DEF Init, Attachment, GrantNamed, OwnerAttached, ViaGoesOn, ReceiverAttached,
                    SourceAttached, ContextsNamed, CallsNamed

\* Most steps issue nothing, attach nobody and withdraw nothing.
Milder(r) ==
  /\ Reserved(r)' => Reserved(r) \/ (transfer[r].phase = "none" /\ reception'[r].at = "none")
  /\ Reserved(r) => Reserved(r)' \/ grant.to \in {Nobody, owner}
  /\ transfer'[r].phase = "none" => transfer[r].phase = "none"
  /\ transfer[r].revoked => transfer'[r].revoked \/ transfer[r].phase = "none"
  /\ Detached(r) => Detached(r)' \/ (~ Reserved(r)' /\ active.to = owner)
  /\ reception'[r].at \in {"attached", "done"} => reception[r].at \in {"attached", "done"}
  /\ reception'[r].at \in {"adopting", "attaching"} =>
       reception[r].at \in {"adopting", "attaching"} /\ reception'[r].ctx = reception[r].ctx
  /\ move'[r].at \in {"restore", "ready"} =>
       /\ move[r].at \in {"restore", "ready"}
       /\ move'[r].ctx = move[r].ctx /\ move'[r].from = move[r].from
  /\ move'[r].at = "attached" => move[r].at = "attached" /\ move'[r].from = move[r].from
Mild == UNCHANGED <<owner, grant, active>> /\ \A r \in Receivers : Milder(r)

LEMMA MildKeeps ==
  ASSUME Attachment, Mild, Calm
  PROVE  Attachment'
<1>1. GrantNamed'
  <2>1. CASE grant.to \in {Nobody, owner}
    BY <2>1 DEF Mild, GrantNamed
  <2>2. CASE grant.to \in Receivers /\ grant.via = grant.to /\ Reserved(grant.to)
    <3>1. Reserved(grant.to)' \/ grant.to \in {Nobody, owner}
      BY <2>2 DEF Mild, Milder
    <3> QED
      BY <2>2, <3>1 DEF Mild, GrantNamed
  <2> QED
    BY <2>1, <2>2 DEF Attachment, GrantNamed
<1>2. OwnerAttached'
  BY DEF Attachment, OwnerAttached, Mild, Milder
<1>3. ASSUME NEW r \in Receivers
      PROVE  ViaGoesOn(r)' /\ ReceiverAttached(r)' /\ SourceAttached(r)' /\ ContextsNamed(r)'
  <2>1. /\ ViaGoesOn(r) /\ ReceiverAttached(r) /\ SourceAttached(r) /\ ContextsNamed(r)
        /\ Milder(r) /\ grant' = grant /\ active' = active
    BY DEF Attachment, Mild
  <2>2. ViaGoesOn(r)'
    BY <2>1 DEF ViaGoesOn, Milder, Detached
  <2>3. transfer[r].phase = "none" => ~ Reserved(r)
    BY DEF Reserved
  <2>4. ReceiverAttached(r)'
    BY <2>1, <2>3 DEF ReceiverAttached, Milder
  <2>5. SourceAttached(r)' /\ ContextsNamed(r)'
    BY <2>1 DEF SourceAttached, ContextsNamed, Milder
  <2> QED
    BY <2>2, <2>4, <2>5
<1> QED
  BY <1>1, <1>2, <1>3 DEF Attachment

LEMMA MildAt ==
  ASSUME NEW r \in Receivers, UNCHANGED <<owner, grant, active>>, Milder(r),
         \A q \in Receivers \ {r} :
           move'[q] = move[q] /\ transfer'[q] = transfer[q] /\ reception'[q] = reception[q]
  PROVE  Mild
<1>1. ASSUME NEW q \in Receivers \ {r} PROVE Milder(q)
  BY DEF Milder, Reserved, Detached, Active
<1> QED
  BY <1>1 DEF Mild

\* Stages the source passes through when it neither asks nor attaches.
LEMMA GoesMildly ==
  ASSUME TypeOK, NEW r \in Receivers, NEW stage, Goes(r, stage), Active(r),
         stage \notin {"idle", "over", "restore", "attached"},
         stage = "ready" => move[r].at = "restore"
  PROVE  /\ move'[r].at = stage /\ Detached(r)' = Detached(r)
         /\ move'[r].at \in {"restore", "ready"} =>
              /\ move[r].at \in {"restore", "ready"}
              /\ move'[r].ctx = move[r].ctx /\ move'[r].from = move[r].from
         /\ move'[r].at # "attached"
         /\ \A q \in Receivers \ {r} : move'[q] = move[q]
  BY DEF TypeOK, Goes, Move, Detached, Active

LEMMA MovingMild ==
  ASSUME TypeOK, Calm, NEW r \in Receivers,
         \/ Booted(r) \/ ShowPhase(r) \/ Commit(r) \/ PublishGone(r)
         \/ Send(r) \/ Receipt(r) \/ ReceiptTimeout(r) \/ Receive(r)
         \/ Acknowledged(r) \/ RetireFails(r) \/ ReadyTimeout(r) \/ Restore(r)
         \/ (Retire(r) /\ ~ Open(r)) \/ (Ask(r) /\ ~ MayAsk(move[r].from))
  PROVE  Mild
<1> USE Numbers, HereNow
<1> DEFINE Fit(stage) == /\ Goes(r, stage)
                         /\ stage \notin {"idle", "over", "restore", "attached"}
                         /\ stage = "ready" => move[r].at = "restore"
           Same == /\ reception' = reception /\ UNCHANGED <<owner, grant, active>>
                   /\ transfer' = transfer
<1>1. (\E stage : Fit(stage)) /\ Active(r)
  <2>1. ASSUME Booted(r) PROVE Fit("prepare") \/ Fit("retire")
    BY <2>1 DEF Booted
  <2>2. ASSUME ShowPhase(r) PROVE Fit("commit")
    BY <2>2 DEF ShowPhase
  <2>3. ASSUME Commit(r) PROVE Fit("remove")
    BY <2>3 DEF Commit
  <2>4. ASSUME PublishGone(r) PROVE Fit("send")
    BY <2>4 DEF PublishGone
  <2>5. ASSUME Send(r) PROVE Fit("wait")
    BY <2>5 DEF Send
  <2>6. ASSUME Receipt(r) \/ ReceiptTimeout(r) PROVE Fit("receive") \/ Fit("revoke")
    BY <2>6 DEF Receipt, ReceiptTimeout
  <2>7. ASSUME Receive(r) PROVE Fit("clean")
    BY <2>7 DEF Receive
  <2>8. ASSUME Acknowledged(r) PROVE Fit("retire")
    BY <2>8 DEF Acknowledged
  <2>9. ASSUME RetireFails(r) \/ ReadyTimeout(r) PROVE Fit("failed")
    BY <2>9 DEF RetireFails, ReadyTimeout, Fails, Goes
  <2>10. ASSUME Restore(r) PROVE Fit("ready")
    BY <2>10 DEF Restore
  <2>11. ASSUME Retire(r), ~ Open(r) PROVE Fit("rollback") \/ Fit("ask")
    BY <2>11 DEF Retire, AfterRetire
  <2>12. ASSUME Ask(r), ~ MayAsk(move[r].from) PROVE Fit("failed")
    BY <2>12 DEF Ask, Fails, Goes
  <2>13. \E stage : Fit(stage)
    <3> HIDE DEF Fit
    <3> QED
      BY <2>1, <2>2, <2>3, <2>4, <2>5, <2>6, <2>7, <2>8, <2>9, <2>10, <2>11, <2>12
  <2>14. Active(r)
    BY DEF Booted, ShowPhase, Commit, PublishGone, Send, Receipt, ReceiptTimeout, Receive,
           Acknowledged, RetireFails, ReadyTimeout, Restore, Retire, Ask, Active
  <2> QED
    BY <2>13, <2>14
<1>2. /\ reception' = reception /\ UNCHANGED <<owner, grant, active>>
      /\ \A q \in Receivers \ {r} : transfer'[q] = transfer[q]
      /\ transfer'[r].finalized = transfer[r].finalized
      /\ transfer'[r].revoked = transfer[r].revoked
      /\ transfer'[r].phase # transfer[r].phase =>
           /\ transfer'[r].phase \in {"shown", "committed", "received"}
           /\ transfer[r].phase \notin {"none", "rolled_back"}
  <2>1. ASSUME \/ Booted(r) \/ PublishGone(r) \/ Send(r) \/ Receipt(r) \/ ReceiptTimeout(r)
               \/ Acknowledged(r)
        PROVE  Same
    BY <2>1 DEF Booted, PublishGone, Send, Receipt, ReceiptTimeout, Acknowledged, registry, authority
  <2>2. ASSUME \/ RetireFails(r) \/ ReadyTimeout(r) \/ Restore(r)
               \/ (Retire(r) /\ ~ Open(r)) \/ (Ask(r) /\ ~ MayAsk(move[r].from))
        PROVE  Same
    BY <2>2 DEF RetireFails, ReadyTimeout, Restore, Retire, Ask, registry, authority
  <2>3. ASSUME ShowPhase(r) \/ Commit(r) \/ Receive(r)
        PROVE  /\ reception' = reception /\ UNCHANGED <<owner, grant, active>>
               /\ \E phase \in {"shown", "committed", "received"} : Advanced(r, phase)
               /\ transfer[r].phase \notin {"none", "rolled_back"}
    BY <2>3 DEF ShowPhase, Commit, Receive, authority, registry, Here, Stage
  <2> QED
    BY <2>1, <2>2, <2>3, AdvancedTo
<1> HIDE DEF Same
<1>3. Milder(r)
  BY <1>1, <1>2, GoesMildly DEF Milder, Reserved
<1> QED
  BY <1>1, <1>2, <1>3, GoesMildly, MildAt

\* A move begins, is removed from the source, tried again, or is over.
LEMMA SourceMild ==
  ASSUME TypeOK, Calm, Attachment, NEW r \in Receivers,
         \/ \E s \in Windows : Start(s, r)
         \/ Remove(r) \/ Confirmed(r) \/ Ready(r) \/ Retry(r)
  PROVE  Mild
<1> USE Numbers, HereNow
<1>1. reception' = reception /\ transfer' = transfer /\ UNCHANGED <<owner, grant, active>>
  BY DEF Start, Remove, Confirmed, Ready, Retry, registry, authority
<1>2. /\ move'[r].at \notin {"restore", "ready", "attached"}
      /\ Detached(r) => Detached(r)' \/ (~ Reserved(r) /\ active.to = owner)
      /\ \A q \in Receivers \ {r} : move'[q] = move[q]
  <2>1. ASSUME NEW s \in Windows, Start(s, r)
        PROVE  /\ move'[r].at = "opening" /\ ~ Detached(r)
               /\ \A q \in Receivers \ {r} : move'[q] = move[q]
    <3>1. life[r] = "absent" /\ move' = [move EXCEPT ![r] = [AtRest EXCEPT !.at = "opening", !.from = s]]
      BY <2>1 DEF Start
    <3>2. move[r].at = "idle"
      BY <3>1 DEF Here, Stage
    <3>3. move'[r] = [AtRest EXCEPT !.at = "opening", !.from = s]
      BY <3>1 DEF TypeOK
    <3>4. move'[r].at = "opening"
      BY <3>3 DEF AtRest
    <3> QED
      BY <3>1, <3>2, <3>4 DEF Detached, Active
  <2>2. ASSUME Remove(r)
        PROVE  /\ move'[r].at \in {"publish", "retire"} /\ (Detached(r) => Detached(r)')
               /\ \A q \in Receivers \ {r} : move'[q] = move[q]
    <3>1. move[r].at = "remove" /\ move[r].from \in Windows
      BY <2>2 DEF Remove, Active
    <3> QED
      BY <2>2, <3>1, RemovedTo DEF Detached, Active
  <2>3. ASSUME Confirmed(r)
        PROVE  /\ move'[r].at = "over" /\ ~ Detached(r)
               /\ \A q \in Receivers \ {r} : move'[q] = move[q]
    BY <2>3, EndedTo DEF Confirmed, Detached
  <2>4. ASSUME Ready(r)
        PROVE  /\ move'[r].at = "over" /\ ~ Reserved(r) /\ active.to = owner
               /\ \A q \in Receivers \ {r} : move'[q] = move[q]
    <3>1. move[r].at = "attached" /\ move' = [move EXCEPT ![r] = Ended(@)]
      BY <2>4 DEF Ready
    <3>2. ~ Reserved(r) /\ owner = move[r].from
      BY <3>1 DEF OwnedVia, Restoring, AnyReserved
    <3>3. active.to = move[r].from
      BY <3>1 DEF Attachment, SourceAttached
    <3> QED
      BY <3>1, <3>2, <3>3, EndedTo
  <2>5. ASSUME Retry(r)
        PROVE  /\ move'[r].at = "retire" /\ (Detached(r) => Detached(r)')
               /\ \A q \in Receivers \ {r} : move'[q] = move[q]
    BY <2>5, RetryTo DEF Detached, Active
  <2> QED
    BY <2>1, <2>2, <2>3, <2>4, <2>5
<1>3. Milder(r)
  BY <1>1, <1>2 DEF Milder, Reserved
<1> QED
  BY <1>1, <1>2, <1>3, MildAt

LEMMA FinalizeMild ==
  ASSUME TypeOK, Calm, Attachment, NEW r \in Receivers, Finalize(r)
  PROVE  Mild
<1> USE Numbers, HereNow
<1>1. /\ move[r].at = "finalize" /\ reception' = reception
      /\ UNCHANGED <<owner, grant, active>>
  BY DEF Finalize, authority
<1>2. /\ transfer[r].phase = "cleaned" /\ Active(r) /\ ~ transfer[r].finalized
      /\ ~ transfer[r].revoked /\ reception[r].at = "done"
  BY <1>1 DEF Here, Stage, Record, Answered, Active, Early
<1>3. Reserved(r) /\ owner = r
  BY <1>2 DEF Reserved, OwnedVia
<1>4. grant.to = owner /\ active.to = owner
  BY <1>2, <1>3 DEF Attachment, ReceiverAttached
<1>5. /\ move'[r].at = "over" /\ \A q \in Receivers \ {r} : move'[q] = move[q]
  BY EndedTo DEF Finalize
<1>6. /\ ~ Reserved(r)' /\ transfer'[r].phase = "cleaned"
      /\ \A q \in Receivers \ {r} : transfer'[q] = transfer[q]
  BY <1>2, MarkedFinalized DEF Reserved
<1>7. Milder(r)
  BY <1>1, <1>2, <1>3, <1>4, <1>5, <1>6 DEF Milder
<1> QED
  BY <1>1, <1>5, <1>6, <1>7, MildAt

LEMMA PrepareMild ==
  ASSUME TypeOK, Calm, NEW r \in Receivers, Prepare(r)
  PROVE  Mild
<1> USE Numbers, HereNow
<1>1. /\ move[r].at = "prepare" /\ reception' = reception /\ UNCHANGED <<grant, active>>
  BY DEF Prepare
<1>2. /\ transfer[r].phase = "none" /\ ~ move[r].removed /\ reception[r].at = "none"
      /\ ~ Reserved(r) /\ ~ Detached(r)
  BY <1>1 DEF Here, Stage, Answered, Reserved, Detached
<1>3. CASE Goes(r, "retire")
  <2>1. transfer' = transfer /\ owner' = owner
    BY <1>1, <1>3, GoesTo DEF Prepare, TypeOK, Move
  <2>2. move'[r].at = "retire" /\ \A q \in Receivers \ {r} : move'[q] = move[q]
    BY <1>3, GoesTo
  <2>3. Milder(r)
    BY <1>1, <1>2, <2>1, <2>2 DEF Milder, Reserved
  <2> QED
    BY <1>1, <2>1, <2>2, <2>3, MildAt
<1>4. CASE ~ Goes(r, "retire")
  <2>1. /\ MayOwn(move[r].from) /\ owner' = move[r].from
        /\ move'[r].at = "show" /\ transfer'[r].phase = "prepared"
        /\ \A q \in Receivers \ {r} : move'[q] = move[q] /\ transfer'[q] = transfer[q]
    BY <1>4, PreparedTo
  <2>2. move[r].from \in Windows
    BY <1>1 DEF Active
  <2>3. owner' = owner
    BY <2>1, <2>2, OnlyOwnerAsks
  <2>4. Milder(r)
    BY <1>1, <1>2, <2>1 DEF Milder
  <2> QED
    BY <1>1, <2>1, <2>3, <2>4, MildAt
<1> QED
  BY <1>3, <1>4

LEMMA RetireMild ==
  ASSUME TypeOK, Calm, NEW r \in Receivers, Retire(r), Open(r)
  PROVE  Mild
<1> USE Numbers, HereNow
<1>1. /\ move[r].at = "retire" /\ Active(r) /\ transfer' = transfer
      /\ UNCHANGED <<owner, grant, active>>
      /\ move[r].from \in Windows \ {r} /\ ~ Settled(r)
  BY DEF Retire, authority, Here, Stage, Active, Settled
<1>2. /\ reception'[r].at = "none"
      /\ \A w \in Windows \ {r} : reception'[w] = reception[w]
  BY DEF Retire, Ends, TypeOK, NoReception
<1>3. /\ move'[r].at = AfterRetire(move[r])
      /\ move'[r].removed = move[r].removed
      /\ \A q \in Receivers \ {r} : move[q].from # r => move'[q] = move[q]
      /\ \A q \in Receivers \ {r} : move[q].from = r => move'[q].at = "over"
  BY <1>1, WithoutTo
<1>4. ASSUME NEW q \in Receivers \ {r}, move[q].from = r PROVE ~ Detached(q)
  <2>1. Record(q) /\ OwnedVia(q)
    BY DEF Here
  <2>2. ASSUME Detached(q) PROVE FALSE
    <3>1. transfer[q].source = r /\ transfer[q].phase # "none"
      BY <1>4, <2>1, <2>2 DEF Detached, Record
    <3> QED
      BY <1>1, <2>1, <3>1 DEF OwnedVia
  <2> QED
    BY <2>2
<1>5. Milder(r)
  <2>1. move'[r].at \in {"rollback", "ask"}
    BY <1>3 DEF AfterRetire
  <2> QED
    BY <1>1, <1>2, <1>3, <2>1 DEF Milder, Detached, Active, Reserved
<1>6. ASSUME NEW q \in Receivers \ {r} PROVE Milder(q)
  <2>1. CASE move[q].from = r
    BY <1>1, <1>2, <1>3, <1>4, <2>1 DEF Milder, Reserved
  <2>2. CASE move[q].from # r
    BY <1>1, <1>2, <1>3, <2>2 DEF Milder, Reserved, Detached, Active
  <2> QED
    BY <2>1, <2>2
<1> QED
  BY <1>1, <1>5, <1>6 DEF Mild

LEMMA DoingMildly ==
  ASSUME TypeOK, NEW r \in Receivers, NEW stage, Doing(r, stage)
  PROVE  /\ reception'[r].at = stage /\ reception'[r].ctx = reception[r].ctx
         /\ \A q \in Receivers \ {r} : reception'[q] = reception[q]
  BY Numbers DEF TypeOK, Doing, Reception

\* What the receiver does, unless it is given contexts.
LEMMA ReceivingMild ==
  ASSUME TypeOK, Calm, NEW r \in Receivers, Receiving(r), ~ (AskVia(r) /\ MayAskVia(r))
  PROVE  Mild
<1> USE Numbers, HereNow
<1> DEFINE Kept == \A q \in Receivers \ {r} : reception'[q] = reception[q]
           Same == reception'[r] = reception[r]
<1>1. move' = move /\ transfer' = transfer /\ UNCHANGED <<owner, grant, active>>
  <2>1. ASSUME RevokeHere(r) PROVE move' = move /\ transfer' = transfer /\ UNCHANGED <<owner, grant, active>>
    <3>1. transfer[r].revoked
      BY <2>1, TakenMail DEF RevokeHere, Here, Post
    <3>2. transfer' = transfer /\ owner' = owner
      BY <2>1, <3>1, RevokedAgain
    <3> QED
      BY <2>1, <3>1, <3>2 DEF RevokeHere, Revoked
  <2>2. ASSUME ~ RevokeHere(r) PROVE move' = move /\ transfer' = transfer /\ UNCHANGED <<owner, grant, active>>
    BY <2>2 DEF Receiving, Delivered, AskVia, AdoptDelivery, AttachedHere, AttachTimeout, GiveUp,
                FinalizedHere, Abandon, authority
  <2> QED
    BY <2>1, <2>2
<1>2. Kept /\ \/ Same
              \/ reception'[r].at \in {"asking", "failing", "failed", "revoked"}
              \/ reception[r].at = "attached" /\ reception'[r].at = "done"
              \/ /\ reception[r].at = "adopting" /\ reception'[r].at = "attaching"
                 /\ reception'[r].ctx = reception[r].ctx
  <2>1. ASSUME Delivered(r) PROVE Kept /\ reception'[r].at = "asking"
    BY <2>1 DEF Delivered, TypeOK
  <2>2. ASSUME AskVia(r) PROVE Kept /\ reception'[r].at = "failing"
    BY <2>2, DoingMildly DEF AskVia
  <2>3. ASSUME AdoptDelivery(r)
        PROVE  Kept /\ \/ reception'[r].at = "failing"
                       \/ /\ reception[r].at = "adopting" /\ reception'[r].at = "attaching"
                          /\ reception'[r].ctx = reception[r].ctx
    BY <2>3, DoingMildly DEF AdoptDelivery
  <2>4. ASSUME AttachedHere(r) PROVE Kept /\ reception[r].at = "attached" /\ reception'[r].at = "done"
    BY <2>4, DoingMildly DEF AttachedHere
  <2>5. ASSUME AttachTimeout(r) \/ GiveUp(r) PROVE Kept /\ reception'[r].at \in {"failing", "failed"}
    BY <2>5, DoingMildly DEF AttachTimeout, GiveUp
  <2>6. ASSUME RevokeHere(r) PROVE Kept /\ (Same \/ reception'[r].at = "revoked")
    BY <2>6, DoingMildly DEF RevokeHere
  <2>7. ASSUME FinalizedHere(r) \/ Abandon(r) PROVE Kept /\ Same
    BY <2>7 DEF FinalizedHere, Abandon
  <2> QED
    BY <2>1, <2>2, <2>3, <2>4, <2>5, <2>6, <2>7 DEF Receiving
<1>3. Milder(r)
  BY <1>1, <1>2 DEF Milder, Reserved, Detached, Active
<1> QED
  BY <1>1, <1>2, <1>3, MildAt

LEMMA WindowMild ==
  ASSUME UNCHANGED <<move, transfer, reception, owner, grant, active>>
  PROVE  Mild
  BY DEF Mild, Milder, Reserved, Detached, Active

-----------------------------------------------------------------------------
(* Steps that issue, attach or withdraw.                                     *)

\* The sessions are given to a receiver that is attached already.
LEMMA CleanAttached ==
  ASSUME TypeOK, Calm, Attachment, NEW r \in Receivers, Clean(r)
  PROVE  Attachment'
<1> USE Numbers, HereNow
<1>1. /\ move[r].at = "clean" /\ Goes(r, "finalize") /\ Advanced(r, "cleaned") /\ owner' = r
      /\ UNCHANGED <<reception, grant, active>>
  BY DEF Clean
<1>2. /\ transfer[r].phase = "received" /\ Active(r) /\ ~ transfer[r].finalized
      /\ ~ transfer[r].revoked /\ reception[r].at = "done" /\ move[r].removed
  BY <1>1 DEF Here, Stage, Record, Answered, Active, Early, Away
<1>3. Reserved(r) /\ grant.to = r /\ active.to = r
  BY <1>2 DEF Reserved, Attachment, ReceiverAttached
<1>4. /\ move'[r].at = "finalize" /\ move'[r].removed
      /\ \A q \in Receivers \ {r} : move'[q] = move[q]
      /\ transfer'[r].phase = "cleaned" /\ ~ transfer'[r].finalized /\ ~ transfer'[r].revoked
      /\ \A q \in Receivers \ {r} : transfer'[q] = transfer[q]
  BY <1>1, <1>2, GoesTo, AdvancedTo
<1>5. GrantNamed' /\ OwnerAttached'
  BY <1>1, <1>3 DEF GrantNamed, OwnerAttached
<1>6. ASSUME NEW q \in Receivers
      PROVE  ViaGoesOn(q)' /\ ReceiverAttached(q)' /\ SourceAttached(q)' /\ ContextsNamed(q)'
  <2>1. ViaGoesOn(q) /\ ReceiverAttached(q) /\ SourceAttached(q) /\ ContextsNamed(q)
    BY DEF Attachment
  <2>2. CASE q = r
    BY <1>1, <1>2, <1>3, <1>4, <2>1, <2>2
       DEF ViaGoesOn, ReceiverAttached, SourceAttached, ContextsNamed, Active
  <2>3. CASE q # r
    BY <1>1, <1>4, <2>1, <2>3
       DEF ViaGoesOn, ReceiverAttached, SourceAttached, ContextsNamed, Active, Reserved
  <2> QED
    BY <2>2, <2>3
<1> QED
  BY <1>5, <1>6 DEF Attachment

\* A transfer is revoked by its source, or rolled back.
LEMMA RevokeAttached ==
  ASSUME TypeOK, Calm, Attachment, RevokedIsOut, NEW r \in Receivers, Revoke(r) \/ RollBack(r)
  PROVE  Attachment'
<1> USE Numbers, HereNow
<1>1. /\ Revoked(r) /\ reception' = reception /\ Active(r)
      /\ move[r].at \in {"revoke", "rollback"}
  BY DEF Revoke, RollBack, Active
<1>2. /\ transfer[r].phase \notin {"none", "cleaned"} /\ Reserved(r)
      /\ (Revoke(r) => move[r].removed)
  BY <1>1 DEF Here, Stage, Record, Active, Reserved, Away, Revoke
<1>3. owner' = owner
  BY <1>1, <1>2, RevokedTo
<1>4. PICK stage \in {"ack", "ask"} : Goes(r, stage)
  BY DEF Revoke, RollBack
<1>5. /\ transfer'[r].revoked
      /\ \A q \in Receivers \ {r} : transfer'[q] = transfer[q]
      /\ transfer'[r].phase # "none" /\ (Reserved(r)' => Revoke(r))
  BY <1>2, MarkedRevoked, MarkedRolledBack DEF Revoke, Reserved
<1>6. /\ grant'.via # r /\ active'.via # r
      /\ grant' = grant \/ (grant.via = r /\ grant' = Void)
      /\ active' = active \/ (active.via = r /\ active' = Void)
  <2>1. CASE transfer[r].revoked
    BY <1>1, <2>1 DEF Revoked, RevokedIsOut
  <2>2. CASE ~ transfer[r].revoked
    BY <1>1, <2>2, VoidType DEF Revoked, Withdrawn
  <2> QED
    BY <2>1, <2>2
<1>7. /\ move'[r].at = stage /\ move'[r].removed = move[r].removed
      /\ \A q \in Receivers \ {r} : move'[q] = move[q]
  BY <1>4, GoesTo
<1>8. \A q \in Receivers : q # r => ~ Reserved(q) /\ ~ Reserved(q)'
  BY <1>2, <1>5 DEF Calm, OneReserved, Reserved
<1>9. GrantNamed'
  <2>1. CASE grant' = Void
    BY <1>6, <2>1 DEF GrantNamed, Void
  <2>2. CASE grant' = grant
    <3>1. grant.via # r
      BY <1>6, <2>2
    <3> QED
      BY <1>3, <1>8, <2>2, <3>1 DEF Attachment, GrantNamed
  <2> QED
    BY <1>6, <2>1, <2>2
<1>10. \A q \in Receivers : Detached(q)' <=> Detached(q)
  BY <1>1, <1>7 DEF Detached, Active
<1>11. OwnerAttached'
  <2>1. CASE active' = active
    BY <1>3, <1>10, <2>1 DEF Attachment, OwnerAttached
  <2>2. CASE active' # active
    BY <1>2, <1>6, <1>10, <2>2 DEF Attachment, ViaGoesOn, OwnerAttached, Detached
  <2> QED
    BY <2>1, <2>2
<1>12. ASSUME NEW q \in Receivers
       PROVE  ViaGoesOn(q)' /\ ReceiverAttached(q)' /\ SourceAttached(q)' /\ ContextsNamed(q)'
  <2>1. ViaGoesOn(q) /\ ReceiverAttached(q) /\ SourceAttached(q) /\ ContextsNamed(q)
    BY DEF Attachment
  <2>2. CASE q = r
    BY <1>1, <1>4, <1>5, <1>6, <1>7, <2>1, <2>2
       DEF ViaGoesOn, ReceiverAttached, SourceAttached, ContextsNamed
  <2>3. CASE q # r
    <3>1. move'[q] = move[q] /\ transfer'[q] = transfer[q] /\ ~ Reserved(q)'
      BY <1>5, <1>7, <1>8, <2>3
    <3>2. ViaGoesOn(q)' /\ ReceiverAttached(q)'
      BY <1>1, <1>6, <2>1, <3>1, VoidType DEF ViaGoesOn, ReceiverAttached
    <3>3. move[q].at # "attached"
      BY <1>2 DEF OwnedVia, Restoring, AnyReserved
    <3> QED
      BY <1>1, <2>1, <3>1, <3>2, <3>3 DEF SourceAttached, ContextsNamed
  <2> QED
    BY <2>2, <2>3
<1> QED
  BY <1>9, <1>11, <1>12 DEF Attachment

LEMMA Issued ==
  ASSUME NEW w, NEW via, Issue(w, via)
  PROVE  grant'.to = w /\ grant'.via = via
  BY DEF Issue

\* The receiver is given contexts for the transfer.
LEMMA AskViaAttached ==
  ASSUME TypeOK, Calm, Attachment, NEW r \in Receivers, AskVia(r), MayAskVia(r)
  PROVE  Attachment'
<1> USE Numbers, HereNow
<1>1. /\ reception[r].at = "asking" /\ Issue(r, r)
      /\ reception' = [reception EXCEPT ![r] = [@ EXCEPT !.at = "adopting", !.ctx = grant']]
      /\ UNCHANGED <<move, transfer, owner, active>>
  BY DEF AskVia
<1>2. Awaits(r) /\ move[r].removed
  BY <1>1 DEF Here, Post
<1>3. Reserved(r) /\ Active(r) /\ Detached(r) /\ transfer[r].phase # "none"
  BY <1>2 DEF Awaits, Active, Detached, Reserved
<1>4. grant'.to = r /\ grant'.via = r
  BY <1>1, Issued
<1>5. /\ reception'[r].at = "adopting" /\ reception'[r].ctx = grant'
      /\ \A q \in Receivers \ {r} : reception'[q] = reception[q]
  <2>1. reception'[r] = [reception[r] EXCEPT !.at = "adopting", !.ctx = grant']
    BY <1>1 DEF TypeOK
  <2>2. reception[r] \in Reception
    BY DEF TypeOK
  <2> QED
    BY <1>1, <2>1, <2>2 DEF TypeOK, Reception
<1>6. GrantNamed' /\ OwnerAttached'
  BY <1>1, <1>3, <1>4 DEF GrantNamed, OwnerAttached, Detached, Active, Reserved
<1>7. ASSUME NEW q \in Receivers
      PROVE  ViaGoesOn(q)' /\ ReceiverAttached(q)' /\ SourceAttached(q)' /\ ContextsNamed(q)'
  <2>1. ViaGoesOn(q) /\ ReceiverAttached(q) /\ SourceAttached(q) /\ ContextsNamed(q)
    BY DEF Attachment
  <2>2. Reserved(q) => q = r
    BY <1>3 DEF Calm, OneReserved
  <2>3. CASE q = r
    <3>1. ViaGoesOn(q)'
      BY <1>1, <1>3, <1>4, <2>3 DEF ViaGoesOn, Detached, Active, Reserved
    <3>2. ReceiverAttached(q)' /\ SourceAttached(q)'
      BY <1>1, <1>5, <2>1, <2>3 DEF ReceiverAttached, SourceAttached
    <3>3. ContextsNamed(q)'
      BY <1>1, <1>4, <1>5, <2>1, <2>3 DEF ContextsNamed
    <3> QED
      BY <3>1, <3>2, <3>3
  <2>4. CASE q # r
    BY <1>1, <1>4, <1>5, <2>1, <2>2, <2>4
       DEF ViaGoesOn, ReceiverAttached, SourceAttached, ContextsNamed, Active, Reserved
  <2> QED
    BY <2>3, <2>4
<1> QED
  BY <1>6, <1>7 DEF Attachment

\* A source that takes the workspace back, or a window that mounts what it
\* has adopted, is given contexts: it is the owner, and nothing is reserved.
LEMMA OwnerIssued ==
  ASSUME Calm, Attachment, ~ AnyReserved, grant'.to = owner, grant'.via = Nobody,
         UNCHANGED <<transfer, reception, owner, active>>,
         \A q \in Receivers :
           /\ Detached(q) => Detached(q)'
           /\ move'[q].at \in {"restore", "ready", "attached"} =>
                move'[q] = move[q] \/ (move'[q].at = "restore" /\ move'[q].ctx.to = move'[q].from)
  PROVE  Attachment'
<1> USE Numbers
<1>1. GrantNamed' /\ OwnerAttached'
  BY DEF Attachment, GrantNamed, OwnerAttached
<1>2. ASSUME NEW q \in Receivers
      PROVE  ViaGoesOn(q)' /\ ReceiverAttached(q)' /\ SourceAttached(q)' /\ ContextsNamed(q)'
  <2>1. ViaGoesOn(q) /\ ReceiverAttached(q) /\ SourceAttached(q) /\ ContextsNamed(q)
    BY DEF Attachment
  <2>2. ~ Reserved(q) /\ ~ Reserved(q)'
    BY DEF AnyReserved, Reserved
  <2>3. ViaGoesOn(q)' /\ ReceiverAttached(q)'
    BY <2>1, <2>2 DEF ViaGoesOn, ReceiverAttached
  <2>4. SourceAttached(q)' /\ ContextsNamed(q)'
    BY <2>1 DEF SourceAttached, ContextsNamed
  <2> QED
    BY <2>3, <2>4
<1> QED
  BY <1>1, <1>2 DEF Attachment

LEMMA AskAttached ==
  ASSUME TypeOK, Calm, Attachment, NEW r \in Receivers, Ask(r), MayAsk(move[r].from)
  PROVE  Attachment'
<1> USE Numbers, HereNow
<1>1. /\ move[r].at = "ask" /\ ~ AnyReserved /\ MayOwn(move[r].from)
      /\ Issue(move[r].from, Nobody) /\ owner' = move[r].from
      /\ move' = [move EXCEPT ![r].at = "restore", ![r].ctx = grant']
      /\ UNCHANGED <<transfer, reception, active>>
  BY DEF Ask, MayAsk
<1>2. move[r].from \in Windows
  BY <1>1 DEF Active
<1>3. move[r].from = owner /\ owner' = owner
  BY <1>1, <1>2, OnlyOwnerAsks
<1>4. grant'.to = owner /\ grant'.via = Nobody
  BY <1>1, <1>3, Issued
<1>5. move'[r].ctx = grant'
  <2>1. move'[r] = [move[r] EXCEPT !.at = "restore", !.ctx = grant']
    BY <1>1 DEF TypeOK
  <2>2. move[r] \in Move
    BY DEF TypeOK
  <2> QED
    BY <2>1, <2>2 DEF Move
<1>6. /\ move'[r].at = "restore" /\ move'[r].from = move[r].from
      /\ move'[r].removed = move[r].removed
      /\ \A q \in Receivers \ {r} : move'[q] = move[q]
  BY RestoreTo
<1>7. ASSUME NEW q \in Receivers
      PROVE  /\ Detached(q) => Detached(q)'
             /\ move'[q].at \in {"restore", "ready", "attached"} =>
                  move'[q] = move[q] \/ (move'[q].at = "restore" /\ move'[q].ctx.to = move'[q].from)
  <2>1. CASE q = r
    BY <1>1, <1>3, <1>4, <1>5, <1>6, <2>1 DEF Detached, Active
  <2>2. CASE q # r
    BY <1>6, <2>2 DEF Detached, Active
  <2> QED
    BY <2>1, <2>2
<1> QED
  BY <1>1, <1>3, <1>4, <1>7, OwnerIssued

LEMMA MountAttached ==
  ASSUME TypeOK, Calm, Attachment, NEW w \in Windows, Mount(w)
  PROVE  Attachment'
<1>1. /\ ~ AnyReserved /\ MayOwn(w) /\ Issue(w, Nobody) /\ owner' = w
      /\ UNCHANGED <<move, reception, transfer, active>>
  BY DEF Mount, MayAsk, windowVars
<1>2. w = owner
  BY <1>1, OnlyOwnerAsks
<1>3. grant'.to = owner /\ grant'.via = Nobody
  BY <1>1, <1>2, Issued
<1> QED
  BY <1>1, <1>2, <1>3, OwnerIssued DEF Detached, Active

\* An attach call succeeds only with the context issued last.
LEMMA AttachAttached ==
  ASSUME TypeOK, Calm, Attachment, CallsNamed, NEW c, Attach(c)
  PROVE  Attachment'
<1> USE Numbers, HereNow
<1>1. /\ UNCHANGED <<transfer, owner, grant>>
      /\ active' = IF Valid(c) THEN c ELSE active
      /\ move' = [r \in Receivers |->
           IF Valid(c) /\ move[r].at = "ready" /\ move[r].ctx = c
           THEN [move[r] EXCEPT !.at = "attached"] ELSE move[r]]
      /\ reception' = [w \in Windows |->
           IF Valid(c) /\ reception[w].at = "attaching" /\ reception[w].ctx = c
           THEN [reception[w] EXCEPT !.at = "attached"] ELSE reception[w]]
  BY DEF Attach
<1>2. CASE ~ Valid(c)
  <2>1. active' = active
    BY <1>1, <1>2
  <2>2. \A q \in Receivers : move'[q] = move[q] /\ reception'[q] = reception[q]
    BY <1>1, <1>2
  <2>3. Mild
    BY <1>1, <2>1, <2>2 DEF Mild, Milder, Reserved, Detached, Active
  <2> QED
    BY <2>3, MildKeeps
<1>3. CASE Valid(c)
  <2>1. active' = grant /\ c = grant /\ Open(grant.to)
    BY <1>1, <1>3 DEF Valid
  <2>2. grant.to # Nobody
    BY <2>1 DEF Attach, CallsNamed
  <2>3. \A q \in Receivers :
          /\ Reserved(q)' <=> Reserved(q)
          /\ move'[q].removed = move[q].removed /\ move'[q].from = move[q].from
          /\ Active(q)' <=> Active(q)
          /\ \/ move'[q] = move[q]
             \/ move[q].at = "ready" /\ move'[q].at = "attached" /\ move[q].ctx = grant
          /\ \/ reception'[q] = reception[q]
             \/ /\ reception[q].at = "attaching" /\ reception'[q].at = "attached"
                /\ reception[q].ctx = grant
    <3>1. \A q \in Receivers : move[q] \in Move /\ reception[q] \in Reception
      BY DEF TypeOK
    <3> QED
      BY <1>1, <2>1, <3>1 DEF Reserved, Active, Move, Reception
  <2>4. GrantNamed'
    BY <1>1, <2>3 DEF Attachment, GrantNamed
  <2>5. OwnerAttached'
    <3>1. active'.to = grant.to /\ owner' = owner
      BY <1>1, <2>1
    <3>2. grant.to = owner \/ \E r \in Receivers : grant.via = r /\ Reserved(r)
      BY <2>2 DEF Attachment, GrantNamed
    <3>3. ASSUME NEW r \in Receivers, grant.via = r, Reserved(r) PROVE Detached(r)'
      <4>1. Active(r) /\ move[r].removed
        BY <3>3 DEF Attachment, ViaGoesOn
      <4>2. Active(r)' /\ move'[r].removed
        BY <2>3, <4>1
      <4> QED
        BY <4>2 DEF Detached
    <3> QED
      BY <3>1, <3>2, <3>3 DEF OwnerAttached
  <2>6. ASSUME NEW q \in Receivers
        PROVE  ViaGoesOn(q)' /\ ReceiverAttached(q)' /\ SourceAttached(q)' /\ ContextsNamed(q)'
    <3>1. ViaGoesOn(q) /\ ReceiverAttached(q) /\ SourceAttached(q) /\ ContextsNamed(q)
      BY DEF Attachment
    <3>2. ViaGoesOn(q)'
      <4>1. /\ grant'.via = grant.via /\ active'.via = grant.via
            /\ transfer'[q].phase = transfer[q].phase
            /\ move'[q].removed = move[q].removed
        BY <1>1, <2>1, <2>3
      <4>2. (Reserved(q)' <=> Reserved(q)) /\ (Active(q)' <=> Active(q))
        BY <2>3
      <4> QED
        BY <3>1, <4>1, <4>2 DEF ViaGoesOn
    <3>3. ReceiverAttached(q)'
      BY <1>1, <2>1, <2>3, <3>1 DEF ReceiverAttached, ContextsNamed
    <3>4. SourceAttached(q)'
      <4>1. CASE move'[q] = move[q]
        <5>1. ASSUME move[q].at = "attached" PROVE grant.to = move[q].from
          <6>1. ~ AnyReserved /\ owner = move[q].from
            BY <5>1 DEF OwnedVia, Restoring
          <6> QED
            BY <2>2, <6>1 DEF Attachment, GrantNamed, AnyReserved
        <5> QED
          BY <2>1, <4>1, <5>1 DEF SourceAttached
      <4>2. CASE move[q].at = "ready" /\ move[q].ctx = grant
        BY <2>1, <2>3, <3>1, <4>2 DEF SourceAttached, ContextsNamed
      <4> QED
        BY <2>3, <4>1, <4>2
    <3>5. ContextsNamed(q)'
      BY <2>3, <3>1 DEF ContextsNamed
    <3> QED
      BY <3>2, <3>3, <3>4, <3>5
  <2> QED
    BY <2>4, <2>5, <2>6 DEF Attachment
<1> QED
  BY <1>2, <1>3

LEMMA CallsKept ==
  ASSUME TypeOK, Calm, Attachment, CallsNamed, [Next]_vars
  PROVE  CallsNamed'
<1> USE Numbers, HereNow
<1>1. ASSUME attaching' \subseteq attaching PROVE CallsNamed'
  BY <1>1 DEF CallsNamed
<1>2. ASSUME NEW r \in Receivers, \/ \E s \in Windows : Start(s, r)
                                  \/ Moving(r) \/ Retry(r)
      PROVE  attaching' = attaching
  BY <1>2 DEF Moving, Start, Booted, Prepare, ShowPhase, Commit, Remove, PublishGone, Send,
     Receipt, ReceiptTimeout, Receive, Clean, Finalize, Retry, authority
<1>3. ASSUME NEW r \in Receivers, Recovering(r) PROVE CallsNamed'
  <2>1. ASSUME Restore(r) PROVE CallsNamed'
    <3>1. attaching' = attaching \cup {move[r].ctx} /\ move[r].at = "restore"
      BY <2>1 DEF Restore
    <3>2. move[r].ctx.to = move[r].from /\ move[r].from \in Windows
      BY <3>1 DEF Attachment, ContextsNamed, Active
    <3> QED
      BY <3>1, <3>2 DEF CallsNamed
  <2>2. ASSUME ~ Restore(r) PROVE attaching' = attaching
    BY <1>3, <2>2 DEF Recovering, Revoke, Acknowledged, Retire, RetireFails, RollBack, Confirmed,
       Ask, Ready, ReadyTimeout, authority
  <2> QED
    BY <1>1, <2>1, <2>2
<1>4. ASSUME NEW r \in Receivers, Receiving(r) PROVE CallsNamed'
  <2>1. ASSUME AdoptDelivery(r) PROVE CallsNamed'
    <3>1. reception[r].at = "adopting" /\ attaching' \subseteq attaching \cup {reception[r].ctx}
      BY <2>1 DEF AdoptDelivery
    <3>2. reception[r].ctx.to = r
      BY <3>1 DEF Attachment, ContextsNamed
    <3> QED
      BY <3>1, <3>2 DEF CallsNamed
  <2>2. ASSUME ~ AdoptDelivery(r) PROVE attaching' = attaching
    BY <1>4, <2>2 DEF Receiving, Delivered, AskVia, AttachedHere, AttachTimeout, GiveUp,
       RevokeHere, FinalizedHere, Abandon, authority
  <2> QED
    BY <1>1, <2>1, <2>2
<1>5. ASSUME NEW w \in Windows, Mount(w) PROVE CallsNamed'
  <2>1. attaching' = attaching \cup {grant'} /\ grant'.to = w
    BY <1>5, Issued DEF Mount
  <2> QED
    BY <2>1 DEF CallsNamed
<1>6. ASSUME NEW w \in Windows, Republish(w) \/ Crash(w) \/ Drain(w) PROVE attaching' = attaching
  BY <1>6 DEF Republish, Crash, Drain, authority
<1>7. ASSUME NEW c, Attach(c) PROVE attaching' \subseteq attaching
  BY <1>7 DEF Attach
<1>8. Rescued \/ UNCHANGED vars => attaching' = attaching
  BY DEF Rescued, vars
<1> QED
  BY <1>1, <1>2, <1>3, <1>4, <1>5, <1>6, <1>7, <1>8 DEF Next

LEMMA StepAttachment ==
  TypeOK /\ RevokedIsOut /\ IInv /\ AInv /\ [Next]_vars => AInv'
<1> SUFFICES ASSUME TypeOK, RevokedIsOut, IInv, AInv, [Next]_vars, Crashed' = {}
             PROVE  Attachment' /\ CallsNamed'
  BY DEF AInv
<1> USE Numbers
<1>1. ASSUME NEW w \in Windows, Crash(w) PROVE FALSE
  <2>1. life'[w] = "crashed"
    BY <1>1 DEF Crash, Ends, TypeOK
  <2> QED
    BY <2>1 DEF Crashed
<1>2. Crashed = {}
  BY CrashesStay DEF Crashed
<1>3. Calm /\ Attachment /\ CallsNamed
  BY <1>2 DEF IInv, AInv
<1>4. ~ Rescued
  BY <1>3 DEF Calm, Rescued
<1>5. ASSUME NEW r \in Receivers, (\E s \in Windows : Start(s, r)) \/ Moving(r) \/ Retry(r)
      PROVE  Attachment'
  BY <1>3, <1>5, MovingMild, SourceMild, PrepareMild, FinalizeMild, CleanAttached, MildKeeps
     DEF Moving
<1>6. ASSUME NEW r \in Receivers, Recovering(r) PROVE Attachment'
  BY <1>3, <1>6, MovingMild, SourceMild, RetireMild, RevokeAttached, AskAttached, MildKeeps
     DEF Recovering
<1>7. ASSUME NEW r \in Receivers, Receiving(r) PROVE Attachment'
  BY <1>3, <1>7, ReceivingMild, AskViaAttached, MildKeeps
<1>8. ASSUME NEW w \in Windows, Republish(w) \/ Drain(w) PROVE Attachment'
  <2>1. UNCHANGED <<move, transfer, reception, owner, grant, active>>
    BY <1>8 DEF Republish, Drain, windowVars, authority
  <2> QED
    BY <1>3, <2>1, WindowMild, MildKeeps
<1>9. ASSUME UNCHANGED vars PROVE Attachment'
  BY <1>3, <1>9, WindowMild, MildKeeps DEF vars
<1> QED
  BY <1>1, <1>3, <1>4, <1>5, <1>6, <1>7, <1>8, <1>9, CallsKept, MountAttached, AttachAttached
     DEF Next

LEMMA AttachmentSettles == TypeOK /\ IInv /\ AInv => SettledIsAttached
<1> SUFFICES ASSUME TypeOK, Calm, Attachment,
                    \A r \in Receivers : move[r].at \in {"idle", "over"},
                    NEW w \in Windows, Shows(w)
             PROVE  owner = w /\ active.to = w
  BY DEF SettledIsAttached, IInv, AInv
<1> USE Numbers, HereNow
<1>1. active.to = owner
  BY DEF Attachment, OwnerAttached, Detached, Active
<1>2. CASE ~ AnyReserved
  BY <1>1, <1>2 DEF Calm, Holding
<1>3. CASE AnyReserved
  <2>1. PICK r \in Receivers : Reserved(r)
    BY <1>3 DEF AnyReserved
  <2>2. move[r].at = "over" /\ ~ Open(r)
    BY <2>1 DEF Here, Stage, Reserved
  <2>3. w # r /\ transfer[r].phase # "cleaned"
    BY <2>2 DEF Here, Post, Stage
  <2>4. w = transfer[r].source
    BY <2>1, <2>3 DEF Here, ShownVia
  <2> QED
    BY <1>1, <2>1, <2>3, <2>4 DEF OwnedVia
<1> QED
  BY <1>2, <1>3

\* With no crash, a window that shows the workspace while every move rests is
\* the owner of its sessions, and what they write goes to it: whoever gave up,
\* was revoked or came too late has been detached or attached again.
THEOREM SettledAttached == Spec => []SettledIsAttached
<1>1. Init => IInv /\ AInv /\ RevokedIsOut
  <2>1. Init => RevokedIsOut
    BY DEF Init, RevokedIsOut, NoTransfer, Windows, Receivers
  <2> QED
    BY <2>1, InitCalm, InitAttachment DEF IInv, AInv
<1> QED
  BY <1>1, TypeInit, TypeNext, OutNext, StepCalm, StepAttachment, AttachmentSettles, PTL DEF Spec

=============================================================================
