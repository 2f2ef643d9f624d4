----------------------------- MODULE StatusFeed -----------------------------
(***************************************************************************)
(* The state of the terminal sessions and how it reaches those who show    *)
(* it: the session state store with its quiet timer                        *)
(* (src-tauri/src/session_state/store.rs, store/expiry.rs), the status     *)
(* feed (status_feed.rs), its connections (socket.rs) and their clients    *)
(* (scripts/status_feed_probe.py), the attention task (attention/mod.rs),  *)
(* and the page of a window (src/stores/sessionAttentionStore.ts).         *)
(*                                                                         *)
(* Every change of a session gets the next revision of the session and the *)
(* next number of the feed, under one gate.  A subscriber's queue holds a  *)
(* few changes; when it overflows the subscriber is told to read a         *)
(* snapshot.  What a status says is abstracted to its revision and to      *)
(* whether a working session is shown idle because its output went quiet.  *)
(***************************************************************************)
EXTENDS Integers, Sequences

CONSTANTS
  Order,      \* the sessions, in the order of their ids
  Remote,     \* clients on a socket
  Local,      \* tasks of the same process that subscribe at startup
  Page,       \* the window
  Kept,       \* revision of each session whose completion an earlier run kept, or 0
  Casts,      \* bound: who may take part together, observers being independent
  Capacity,   \* changes a subscriber's queue holds
  MaxWire,    \* frames a connection holds before the write waits
  MaxInput    \* bound: evidence and output that arrive

Sessions == {Order[i] : i \in DOMAIN Order}
Subscribers == Remote \cup Local

ASSUME OrderAssumption ==
  /\ Order \in Seq(Sessions)
  /\ \A i, j \in DOMAIN Order : Order[i] = Order[j] => i = j
ASSUME SubscribersAssumption == Remote \cap Local = {} /\ Page \notin Subscribers
ASSUME CastsAssumption == Casts \subseteq SUBSET (Subscribers \cup {Page})
ASSUME KeptAssumption == Kept \in [Sessions -> Nat]
ASSUME LimitsAssumption == Capacity \in Nat \ {0} /\ MaxWire \in Nat \ {0} /\ MaxInput \in Nat

VARIABLES
  \* The store.
  rev,        \* revision of each session
  busy,       \* its evidence says working, so that quiet can end it
  late,       \* the last output it has reduced is old enough
  quiet,      \* the projection it holds says idle because of that
  heard,      \* output the reader has and the store has not
  input,      \* what may still arrive
  \* The quiet worker.
  worker,     \* where it is, whether it was woken, whether it watches
  permit,     \* a wake-up kept for it
  \* The feed.
  seq,        \* number of the last change
  published,  \* revision last published of each session
  queue,      \* what waits for each subscriber
  \* The other sides.
  cast,       \* who takes part
  wire,       \* frames on their way to a client
  asked,      \* snapshot requests on their way from it
  mirror,     \* what a client or task knows
  page,       \* what the window knows
  mail,       \* changes on their way to the window
  answer      \* the snapshot on its way to the window

store == <<rev, busy, late, quiet, heard, input>>
feed == <<seq, published, queue>>
connections == <<cast, wire, asked, mirror>>
window == <<page, mail, answer>>
vars == <<rev, busy, late, quiet, heard, input, worker, permit, seq, published,
          queue, cast, wire, asked, mirror, page, mail, answer>>

Delta == [kind : {"delta"}, seq : Nat, session : Sessions, rev : Nat]
Snapshot == [kind : {"snapshot"}, seq : Nat, known : [Sessions -> Nat]]
Resync == [kind |-> "resync"]

Queue == [open : BOOLEAN, events : Seq(Delta), needs : BOOLEAN, told : BOOLEAN]
Mirror == [synced : BOOLEAN, pending : BOOLEAN, seq : Nat, known : [Sessions -> Nat]]
PageState == [at : {"off", "listening", "asked", "ready"}, epoch : BOOLEAN, seq : Nat,
              known : [Sessions -> Nat], buffered : Seq(Delta), failed : BOOLEAN]

TypeOK ==
  /\ rev \in [Sessions -> Nat] /\ published \in [Sessions -> Nat] /\ seq \in Nat
  /\ busy \in [Sessions -> BOOLEAN] /\ late \in [Sessions -> BOOLEAN]
  /\ quiet \in [Sessions -> BOOLEAN]
  /\ heard \in [Sessions -> {"nothing", "fresh", "old"}]
  /\ input \in 0..MaxInput
  /\ worker \in [at : {"arm", "pass", "sleep", "wait"}, woken : BOOLEAN, watch : BOOLEAN]
  /\ permit \in BOOLEAN
  /\ queue \in [Subscribers -> Queue]
  /\ \A c \in Subscribers : Len(queue[c].events) <= Capacity
  /\ cast \in Casts
  /\ wire \in [Remote -> Seq(Delta \cup Snapshot \cup {Resync})]
  /\ asked \in [Remote -> Nat]
  /\ mirror \in [Subscribers -> Mirror]
  /\ page \in PageState
  /\ mail \in Seq(Delta)
  /\ answer \in Snapshot \cup {Resync}

Unknown == [s \in Sessions |-> 0]
Closed == [open |-> FALSE, events |-> <<>>, needs |-> FALSE, told |-> FALSE]
Opened == [Closed EXCEPT !.open = TRUE]
Blank == [synced |-> FALSE, pending |-> FALSE, seq |-> 0, known |-> Unknown]
NoAnswer == Resync

\* The completions that an earlier run kept are rows before any status is known.
NewPage == [at |-> "off", epoch |-> FALSE, seq |-> 0, known |-> Kept,
            buffered |-> <<>>, failed |-> FALSE]

(* The tasks have subscribed to the empty store.                             *)
Init ==
  /\ rev = Unknown /\ published = Unknown /\ seq = 0
  /\ busy = [s \in Sessions |-> FALSE] /\ late = [s \in Sessions |-> FALSE]
  /\ quiet = [s \in Sessions |-> FALSE] /\ heard = [s \in Sessions |-> "nothing"]
  /\ input = MaxInput
  /\ worker = [at |-> "arm", woken |-> FALSE, watch |-> FALSE] /\ permit = FALSE
  /\ cast \in Casts
  /\ queue = [c \in Subscribers |-> IF c \in Local \cap cast THEN Opened ELSE Closed]
  /\ wire = [c \in Remote |-> <<>>] /\ asked = [c \in Remote |-> 0]
  /\ mirror = [c \in Subscribers |-> [Blank EXCEPT !.synced = c \in Local]]
  /\ page = NewPage
  /\ mail = <<>> /\ answer = NoAnswer

-----------------------------------------------------------------------------
(* Under the gates.                                                          *)

\* Some of the sessions, in the order of their ids.
InOrder(some) ==
  LET first[i \in 0..Len(Order)] ==
        IF i = 0 THEN <<>>
        ELSE IF Order[i] \in some THEN Append(first[i - 1], Order[i])
        ELSE first[i - 1]
  IN first[Len(Order)]

\* publish: a change the feed already has is not published again; the others
\* are numbered in the order of the ids.
Events(changed) ==
  LET news == InOrder({s \in changed : published[s] <= rev[s]})
  IN [i \in DOMAIN news |->
        [kind |-> "delta", seq |-> seq + i, session |-> news[i], rev |-> rev[news[i]] + 1]]

\* (Mutants: the limit is met one change too late; a change replaces the one
\* of its session.)
PushedOver(q, events) ==
  IF events = <<>> \/ q.needs \/ ~ q.open THEN q
  ELSE IF Len(q.events) <= Capacity
  THEN [q EXCEPT !.events = @ \o events]
  ELSE [q EXCEPT !.events = <<>>, !.needs = TRUE, !.told = FALSE]
PushedCoalesced(q, events) ==
  IF events = <<>> \/ q.needs \/ ~ q.open THEN q
  ELSE LET others == SelectSeq(q.events, LAMBDA e : e.session # events[1].session) IN
       IF Len(others) + Len(events) <= Capacity
       THEN [q EXCEPT !.events = others \o events]
       ELSE [q EXCEPT !.events = <<>>, !.needs = TRUE, !.told = FALSE]

\* push: a queue that has overflowed keeps nothing until the next snapshot.
Pushed(q, events) ==
  IF events = <<>> \/ q.needs \/ ~ q.open THEN q
  ELSE IF Len(q.events) + Len(events) <= Capacity
  THEN [q EXCEPT !.events = @ \o events]
  ELSE [q EXCEPT !.events = <<>>, !.needs = TRUE, !.told = FALSE]

\* (Mutant: the snapshot empties the queue and leaves the overflow recorded.)
ChangeKeepsNeed(changed, reset) ==
  LET events == Events(changed) IN
  /\ rev' = [s \in Sessions |-> IF s \in changed THEN rev[s] + 1 ELSE rev[s]]
  /\ published' = [s \in Sessions |-> IF s \in changed THEN rev'[s] ELSE published[s]]
  /\ seq' = seq + Len(events)
  /\ queue' = [c \in Subscribers |->
                 IF c \in reset THEN [queue[c] EXCEPT !.open = TRUE, !.events = <<>>]
                 ELSE Pushed(queue[c], events)]

\* Sessions change, the feed publishes them and the subscribers in reset,
\* whose queue is emptied, read a snapshot.
Change(changed, reset) ==
  LET events == Events(changed) IN
  /\ rev' = [s \in Sessions |-> IF s \in changed THEN rev[s] + 1 ELSE rev[s]]
  /\ published' = [s \in Sessions |-> IF s \in changed THEN rev'[s] ELSE published[s]]
  /\ seq' = seq + Len(events)
  /\ queue' = [c \in Subscribers |-> IF c \in reset THEN Opened ELSE Pushed(queue[c], events)]

Emitted(changed) == IF page.at = "off" THEN mail ELSE mail \o Events(changed)

\* (Mutant: the sessions are read before the due changes are published.)
TakenEarly == [kind |-> "snapshot", seq |-> seq', known |-> rev]
Taken == [kind |-> "snapshot", seq |-> seq', known |-> rev']

-----------------------------------------------------------------------------
(* Quiet sessions.                                                           *)

\* What the output the reader has makes of a working session.
NewLate(s) == IF busy[s] /\ heard[s] # "nothing" THEN heard[s] = "old" ELSE late[s]
NewHeard(s) == IF busy[s] THEN "nothing" ELSE heard[s]
NewQuiet(s) == busy[s] /\ NewLate(s)
Due(s) == NewQuiet(s) # quiet[s]

\* (Mutant: only a worker that waits is woken.)
NotifiedWaiting(wake) ==
  /\ worker' = [worker EXCEPT !.woken = @ \/ (wake /\ worker.at = "wait")]
  /\ UNCHANGED permit

\* notify_one: the worker that has armed its wait is woken, else the next
\* wait is.
Notified(wake) ==
  /\ worker' = [worker EXCEPT !.woken = @ \/ (wake /\ worker.at # "arm")]
  /\ permit' = (permit \/ (wake /\ worker.at = "arm"))

\* reconcile_locked for some sessions, and a snapshot for some subscribers.
Reconcile(which, reset) ==
  LET changed == {s \in which : Due(s)} IN
  /\ late' = [s \in Sessions |-> IF s \in which THEN NewLate(s) ELSE late[s]]
  /\ heard' = [s \in Sessions |-> IF s \in which THEN NewHeard(s) ELSE heard[s]]
  /\ quiet' = [s \in Sessions |-> IF s \in which THEN NewQuiet(s) ELSE quiet[s]]
  /\ Change(changed, reset)
  /\ mail' = Emitted(changed)
  /\ UNCHANGED <<busy, input>>

\* The deadlines that were set anew call the worker.
Rescheduled(which) ==
  Notified(\E s \in which : busy[s] /\ (Due(s) \/ heard[s] # "nothing"))

\* ingest: evidence, after the output the reader has by now.
Ingest(s, working) ==
  LET folded == heard[s] # "nothing"
      old == IF folded THEN heard[s] = "old" ELSE late[s]
  IN
  /\ input > 0
  /\ input' = input - 1
  /\ busy' = [busy EXCEPT ![s] = working]
  /\ late' = [late EXCEPT ![s] = old]
  /\ heard' = [heard EXCEPT ![s] = "nothing"]
  /\ quiet' = [quiet EXCEPT ![s] = working /\ old]
  /\ Change({s}, {})
  /\ mail' = Emitted({s})
  /\ Notified(working # busy[s] \/ (working /\ (folded \/ quiet'[s] # quiet[s])))
  /\ UNCHANGED <<connections, page, answer>>

\* The reader sees output; nothing of the store is touched.
Output(s) ==
  /\ input > 0
  /\ input' = input - 1
  /\ heard' = [heard EXCEPT ![s] = "fresh"]
  /\ UNCHANGED <<rev, busy, late, quiet, worker, permit, feed, connections, window>>

\* QUIET_AFTER_MS passes since the last output in the store, or since the
\* last one the reader has.
Elapse(s) ==
  /\ \/ /\ ~ late[s] /\ late' = [late EXCEPT ![s] = TRUE] /\ UNCHANGED heard
     \/ /\ late[s] /\ heard[s] = "fresh" /\ heard' = [heard EXCEPT ![s] = "old"]
        /\ UNCHANGED late
  /\ UNCHANGED <<rev, busy, quiet, input, worker, permit, feed, connections, window>>

\* current_projection: one session is looked at.
Look(s) ==
  /\ Reconcile({s}, {})
  /\ Rescheduled({s})
  /\ UNCHANGED <<connections, page, answer>>

\* The worker arms its wait before it looks at the sessions.
Arm ==
  /\ worker.at = "arm"
  /\ worker' = [worker EXCEPT !.at = "pass", !.woken = permit]
  /\ permit' = FALSE
  /\ UNCHANGED <<store, feed, connections, window>>

\* quiet_worker_pass: with a working session it wakes by itself.
Pass ==
  /\ worker.at = "pass"
  /\ Reconcile(Sessions, {})
  /\ worker' = [worker EXCEPT !.at = "sleep", !.watch = \E s \in Sessions : busy[s]]
  /\ UNCHANGED <<permit, connections, page, answer>>

\* Only now it waits; a call since it armed is not lost.
Sleep ==
  /\ worker.at = "sleep"
  /\ worker' = [worker EXCEPT !.at = "wait"]
  /\ UNCHANGED <<permit, store, feed, connections, window>>

Wake ==
  /\ worker.at = "wait" /\ (worker.woken \/ worker.watch)
  /\ worker' = [worker EXCEPT !.at = "arm", !.woken = FALSE]
  /\ UNCHANGED <<permit, store, feed, connections, window>>

-----------------------------------------------------------------------------
(* A connection and its client.                                              *)

\* subscribe: the queue is there before the snapshot is taken.
Subscribe(c) ==
  /\ c \in cast /\ ~ queue[c].open
  /\ Reconcile(Sessions, {c})
  /\ Rescheduled(Sessions)
  /\ wire' = [wire EXCEPT ![c] = <<Taken>>]
  /\ asked' = [asked EXCEPT ![c] = 0]
  /\ mirror' = [mirror EXCEPT ![c] = Blank]
  /\ UNCHANGED <<cast, page, answer>>

Leave(c) ==
  /\ queue[c].open
  /\ queue' = [queue EXCEPT ![c] = Closed]
  /\ UNCHANGED <<store, worker, permit, seq, published, connections, window>>

\* recv: what the subscriber gets next, and what is left.
Waiting(c) ==
  queue[c].open /\ ((queue[c].needs /\ ~ queue[c].told) \/ queue[c].events # <<>>)
Received(c) ==
  IF queue[c].needs /\ ~ queue[c].told THEN Resync ELSE Head(queue[c].events)
Dequeued(c) ==
  IF queue[c].needs /\ ~ queue[c].told
  THEN [queue EXCEPT ![c].told = TRUE]
  ELSE [queue EXCEPT ![c].events = Tail(@)]

Room(c) == queue[c].open /\ Len(wire[c]) < MaxWire

Forward(c) ==
  /\ Room(c) /\ Waiting(c)
  /\ wire' = [wire EXCEPT ![c] = Append(@, Received(c))]
  /\ queue' = Dequeued(c)
  /\ UNCHANGED <<store, worker, permit, seq, published, cast, asked, mirror, window>>

\* resnapshot, for a request or every 90 seconds.
Resnapshot(c) ==
  /\ Room(c)
  /\ Reconcile(Sessions, {c})
  /\ Rescheduled(Sessions)
  /\ wire' = [wire EXCEPT ![c] = Append(@, Taken)]
  /\ UNCHANGED <<cast, mirror, page, answer>>

Answer(c) ==
  /\ asked[c] > 0
  /\ asked' = [asked EXCEPT ![c] = @ - 1]
  /\ Resnapshot(c)

Periodic(c) == UNCHANGED asked /\ Resnapshot(c)

\* FeedTracker.observe.
Synced(frame) ==
  [synced |-> TRUE, pending |-> FALSE, seq |-> frame.seq, known |-> frame.known]
Fits(m, frame) ==
  m.synced /\ frame.seq = m.seq + 1 /\ frame.rev > m.known[frame.session]
Applied(m, frame) ==
  [m EXCEPT !.seq = frame.seq, !.known[frame.session] = frame.rev]
Lost(m) == [m EXCEPT !.synced = FALSE, !.pending = TRUE]

Observe(c) ==
  /\ queue[c].open /\ wire[c] # <<>>
  /\ LET frame == Head(wire[c])
         m == mirror[c]
         asks == \/ frame.kind = "resync"
                 \/ frame.kind = "delta" /\ ~ Fits(m, frame) /\ ~ m.pending
     IN
     /\ mirror' = [mirror EXCEPT ![c] =
                     IF frame.kind = "snapshot" THEN Synced(frame)
                     ELSE IF frame.kind = "delta" /\ Fits(m, frame) THEN Applied(m, frame)
                     ELSE Lost(m)]
     /\ asked' = [asked EXCEPT ![c] = IF asks THEN @ + 1 ELSE @]
  /\ wire' = [wire EXCEPT ![c] = Tail(@)]
  /\ UNCHANGED <<store, worker, permit, feed, cast, window>>

-----------------------------------------------------------------------------
(* A task of the process: it reads the snapshot itself.                      *)

Take(c) ==
  /\ Waiting(c) /\ ~ mirror[c].pending
  /\ LET event == Received(c) IN
     mirror' = [mirror EXCEPT ![c] =
                  IF event.kind = "delta" /\ event.seq = @.seq + 1
                  THEN Applied(@, event) ELSE Lost(@)]
  /\ queue' = Dequeued(c)
  /\ UNCHANGED <<store, worker, permit, seq, published, cast, wire, asked, window>>

Reread(c) ==
  /\ mirror[c].pending
  /\ Reconcile(Sessions, {c})
  /\ Rescheduled(Sessions)
  /\ mirror' = [mirror EXCEPT ![c] = Synced(Taken)]
  /\ UNCHANGED <<cast, wire, asked, page, answer>>

-----------------------------------------------------------------------------
(* The page of a window: it listens first, then reads one snapshot.          *)

Listen ==
  /\ Page \in cast /\ page.at = "off"
  /\ page' = [page EXCEPT !.at = "listening"]
  /\ UNCHANGED <<store, worker, permit, feed, connections, mail, answer>>

\* frontend_snapshot.
ReadForPage ==
  /\ page.at = "listening"
  /\ Reconcile(Sessions, {})
  /\ Rescheduled(Sessions)
  /\ answer' = Taken
  /\ page' = [page EXCEPT !.at = "asked"]
  /\ UNCHANGED connections

\* retainDormantCompletions: a kept completion whose session has no row becomes
\* one, at the revision of the earlier run.  (Over a row that asks for nothing it
\* takes the row's revision, and a session whose status drops the completion has
\* a row by then: neither moves a revision.)
Retained(known) == [s \in Sessions |-> IF known[s] = 0 THEN Kept[s] ELSE known[s]]

\* applyPayload: what is older than the row is ignored.
Applies(known, event) ==
  IF event.rev < known[event.session] THEN known
  ELSE [known EXCEPT ![event.session] = event.rev]

\* applyChanged.
Shown(p, event) ==
  IF p.epoch /\ event.seq <= p.seq THEN p
  ELSE [p EXCEPT !.epoch = TRUE, !.seq = event.seq,
                 !.known = Retained(Applies(IF p.epoch THEN p.known ELSE Unknown, event))]

\* The changes that came meanwhile are shown in their order.
Replayed(p, events) ==
  LET shown[i \in 0..Len(events)] ==
        IF i = 0 THEN p ELSE Shown(shown[i - 1], events[i])
  IN [shown[Len(events)] EXCEPT !.buffered = <<>>]

\* applySnapshot, or the read failed and nothing but the changes is shown.
PageAnswered ==
  /\ page.at = "asked"
  /\ \/ page' = Replayed([page EXCEPT !.at = "ready", !.epoch = TRUE,
                            !.seq = answer.seq, !.known = Retained(answer.known)], page.buffered)
     \/ page' = Replayed([page EXCEPT !.at = "ready", !.failed = TRUE], page.buffered)
  /\ answer' = NoAnswer
  /\ UNCHANGED <<store, worker, permit, feed, connections, mail>>

\* (Mutant: changes are shown although the snapshot has not come.)
DeliverAtOnce ==
  /\ mail # <<>>
  /\ page' = Shown(page, Head(mail))
  /\ mail' = Tail(mail)
  /\ UNCHANGED <<store, worker, permit, feed, connections, answer>>

Deliver ==
  /\ mail # <<>>
  /\ page' = IF page.at = "ready" THEN Shown(page, Head(mail))
             ELSE [page EXCEPT !.buffered = Append(@, Head(mail))]
  /\ mail' = Tail(mail)
  /\ UNCHANGED <<store, worker, permit, feed, connections, answer>>

-----------------------------------------------------------------------------
Quieting == Arm \/ Pass \/ Sleep \/ Wake
Connection(c) ==
  \/ Subscribe(c) \/ Leave(c) \/ Forward(c) \/ Answer(c) \/ Periodic(c) \/ Observe(c)
Task(c) == Take(c) \/ Reread(c)
Paging == Listen \/ ReadForPage \/ PageAnswered \/ Deliver

Next ==
  \/ \E s \in Sessions : Output(s) \/ Elapse(s) \/ Look(s) \/ \E b \in BOOLEAN : Ingest(s, b)
  \/ Quieting
  \/ \E c \in Remote : Connection(c)
  \/ \E c \in Local : Task(c)
  \/ Paging

Spec == Init /\ [][Next]_vars

(* The worker, the connections and the tasks run, and a client reads what it *)
(* is sent.  Evidence, output, time, the 90 second snapshot and the clients' *)
(* coming and going are not fair.                                            *)
Fairness ==
  /\ WF_vars(Arm) /\ WF_vars(Pass) /\ WF_vars(Sleep) /\ WF_vars(Wake)
  /\ \A c \in Remote : WF_vars(Forward(c)) /\ WF_vars(Answer(c)) /\ WF_vars(Observe(c))
  /\ \A c \in Local : WF_vars(Take(c)) /\ WF_vars(Reread(c))

FairSpec == Spec /\ Fairness

-----------------------------------------------------------------------------
(* Properties.                                                               *)

Underway(c) ==
  \/ queue[c].events # <<>> \/ queue[c].needs
  \/ c \in Remote /\ wire[c] # <<>>

(* A subscriber that believes it is in step and has nothing under way knows  *)
(* the latest revision of every session, through overflow, resync, periodic  *)
(* and requested snapshots that cross its changes.                           *)
MirrorIsCurrent ==
  \A c \in Subscribers :
    queue[c].open /\ mirror[c].synced /\ ~ Underway(c) => mirror[c].known = rev

(* A subscriber falls out of step only because it was told to: the feed      *)
(* never sends it a change that does not follow the last one.                *)
OnlyResyncLosesStep ==
  [][\A c \in Subscribers :
       mirror[c].synced /\ ~ mirror'[c].synced /\ queue[c].open /\ queue'[c].open
         => \/ c \in Local /\ Received(c) = Resync
            \/ c \in Remote /\ Head(wire[c]) = Resync]_mirror

(* A window whose first read succeeded misses no change, whatever came       *)
(* between its listening, the snapshot and the answer.  Only a session that  *)
(* an earlier run left with a completion may be passed over, and no longer   *)
(* than until its revision reaches the one of that run: the completion that  *)
(* stood in for it hides its changes as older ones                           *)
(* (sessionAttentionStore.ts:137, 224).                                      *)
WindowIsCurrent ==
  page.at = "ready" /\ ~ page.failed /\ mail = <<>> =>
    \A s \in Sessions :
      page.known[s] = rev[s] \/ (page.known[s] = Kept[s] /\ rev[s] < Kept[s])

(* An overflowed subscriber is brought up to date without the 90 second      *)
(* snapshot: when changes stop it knows every session or has left.           *)
CatchesUp ==
  \A c \in Subscribers :
    []<>(~ queue[c].open \/ (mirror[c].synced /\ mirror[c].known = rev))

(* A session gone quiet is shown idle, and one heard again is shown working, *)
(* although nobody reads a snapshot and no evidence comes.                   *)
ProjectionSettles == \A s \in Sessions : Due(s) ~> ~ Due(s)

=============================================================================
