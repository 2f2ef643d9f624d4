---------------------------- MODULE OutputStream ----------------------------
(***************************************************************************)
(* The output of one terminal session on its way to the pane that shows    *)
(* it.  The reader thread appends chunks to the scrollback and offers them *)
(* to a bounded queue; the forwarder task batches them, asks FrontendFlow  *)
(* for a permit and posts them on the session's data channel; the pane     *)
(* parks, writes or discards them, acknowledges them, and reads the        *)
(* scrollback whenever it knows that it has missed something.              *)
(*                                                                         *)
(* A chunk is a number: chunk i lies between the absolute offsets i-1 and  *)
(* i.  What the reader of the pane sees is the sequence of the chunks that *)
(* were written to the terminal since it was last reset.                   *)
(***************************************************************************)
EXTENDS Integers, FiniteSetsExt, SequencesExt

CONSTANTS
  MaxOutput,    \* bound on the chunks the program prints
  QueueCap,     \* FRONTEND_QUEUE_CAP
  BatchMax,     \* FRONTEND_BATCH_MAX_BYTES, in chunks
  Window,       \* FRONTEND_MAX_INFLIGHT_BATCHES
  HiddenBudget, \* FRONTEND_HIDDEN_BUDGET_BYTES, in chunks
  StaleLimit,   \* FRONTEND_STALE_TIMEOUTS
  PendingCap,   \* TERMINAL_BATCH_RETAINED_MAX_BYTES, in chunks
  Hidings,      \* the ways the pane may stop painting: "window", "pane"
  Troubles,     \* what may go wrong: "view", "timeout", "fail", "loss", "recover"
  MaxTroubles   \* bound on how often something of that happens

ASSUME Bounds ==
  /\ {MaxOutput, QueueCap, BatchMax, Window, StaleLimit, PendingCap} \subseteq Nat \ {0}
  /\ HiddenBudget \in Nat /\ Hidings \subseteq {"window", "pane"}
  /\ Troubles \subseteq {"view", "timeout", "fail", "loss", "recover"} /\ MaxTroubles \in Nat

VARIABLES
  written,  \* scrollback_end: chunks in the scrollback
  queue,    \* frontend_tx/frontend_rx
  carry,    \* the forwarder's chunks to take before the queue
  fwd,      \* the forwarder task
  flow,     \* FrontendFlowState
  channel,  \* batches posted on the current data channel
  gap,      \* PtyOutputChannel.gap: a batch before the next one was lost
  ack,      \* TerminalAckCoalescer: highest acknowledgement, and whether it was sent
  signals,  \* terminalVisibilityUpdates: set_frontend_visible calls not yet run
  view,     \* where the pane is: "shown", or hidden with its "window" or as a "pane"
  term,     \* the mounted pane: channel, pending batches, scrollback position
  attach,   \* attachFrontendChannel: "none", "requested", "replaced"
  pump,     \* pumpTerminalWrites
  sync,     \* scrollbackSyncInFlight
  screen,   \* chunks written to the terminal since its last reset
  fresh,    \* TerminalStreamHealth: an apply is as late as the last output
  spent     \* troubles so far

backend == <<written, queue, carry, fwd, flow>>
pane == <<view, term, attach, pump, sync, screen, fresh>>
wire == <<channel, gap, ack, signals>>
vars == <<backend, pane, wire, spent>>

Chunk == 1..MaxOutput
Offset == 0..MaxOutput
Range2 == {r \in [from : Offset, to : Offset] : r.from < r.to}
Gen == 1..(MaxTroubles + 1)
Seqno == Nat \ {0}
Batch == [range : Range2, gen : Gen, seq : Seqno, resync : BOOLEAN]
Held == [range : [from : Offset, to : Offset], gen : Gen, seq : Nat, resync : BOOLEAN]
FlowState == [gen : Gen, next : Seqno, inflight : SUBSET Seqno, visible : BOOLEAN,
              budget : 0..HiddenBudget, stale : 0..StaleLimit, dropped : BOOLEAN]
\* doubt and mixed are history, of which the program knows nothing: up to which
\* offset a pump beside a read may have hidden a loss, and whether a batch was
\* ever written beside a read.
Terminal == [ready : BOOLEAN, channel : {0} \cup Gen, visible : BOOLEAN, resync : BOOLEAN,
             pending : Seq(Batch), synced : Offset,
             doubt : Offset, mixed : BOOLEAN]

TypeOK ==
  /\ written \in Offset
  /\ queue \in Seq(Range2) /\ Len(queue) <= QueueCap
  /\ carry \in Seq(Range2) /\ Len(carry) <= 2
  /\ fwd \in [pc : {"idle", "reserve", "send"}, batch : Held]
  /\ fwd.pc = "reserve" => fwd.batch.range \in Range2
  /\ fwd.pc = "send" => fwd.batch \in Batch
  /\ flow \in FlowState /\ Cardinality(flow.inflight) <= Window
  /\ channel \in Seq(Batch) /\ \A i \in DOMAIN channel : channel[i].gen = flow.gen
  /\ gap \in BOOLEAN /\ fresh \in BOOLEAN
  /\ view \in {"shown", "window", "pane"} /\ attach \in {"none", "requested", "replaced"}
  /\ term \in Terminal
  /\ pump \in [pc : {"idle", "sync", "loop", "write"}, batch : Held]
  /\ pump.pc = "write" => pump.batch \in Batch
  /\ sync \in [pc : {"none", "read", "have", "write"}, end : Offset, by : {"pump", "attach"}]
  /\ screen \in Seq(Chunk)
  /\ spent \in 0..MaxTroubles

NoBatch == [range |-> [from |-> 0, to |-> 0], gen |-> 1, seq |-> 0, resync |-> FALSE]
Size(r) == r.to - r.from
Chunks(r) == [i \in 1..Size(r) |-> r.from + i]

Spend(k) == k \in Troubles /\ spent < MaxTroubles /\ spent' = spent + 1

NewFlow(gen) == [gen |-> gen, next |-> 1, inflight |-> {}, visible |-> TRUE,
                 budget |-> HiddenBudget, stale |-> 0, dropped |-> FALSE]

Init ==
  /\ written = 0 /\ queue = <<>> /\ carry = <<>>
  /\ fwd = [pc |-> "idle", batch |-> NoBatch]
  /\ flow = NewFlow(1)
  /\ channel = <<>> /\ gap = FALSE /\ signals = <<>>
  /\ ack = [gen |-> 0, seq |-> 0, sent |-> TRUE]
  /\ view = "shown" /\ attach = "replaced"
  /\ term = [ready |-> FALSE, channel |-> 0, visible |-> TRUE,
             resync |-> FALSE, pending |-> <<>>, synced |-> 0,
             doubt |-> 0, mixed |-> FALSE]
  /\ pump = [pc |-> "idle", batch |-> NoBatch]
  /\ sync = [pc |-> "none", end |-> 0, by |-> "pump"]
  /\ screen = <<>> /\ fresh = TRUE
  /\ spent = 0

-----------------------------------------------------------------------------
(* The reader thread: append, publish, and never wait.                     *)

\* Mutant: a full queue drops the chunk without mark_dropped.
ReadSilently ==
  /\ written < MaxOutput
  /\ written' = written + 1 /\ fresh' = FALSE
  /\ queue' = IF Len(queue) < QueueCap THEN Append(queue, [from |-> written, to |-> written + 1])
              ELSE queue
  /\ UNCHANGED <<carry, fwd, flow, view, term, attach, pump, sync, screen, wire, spent>>

Read ==
  /\ written < MaxOutput
  /\ written' = written + 1 /\ fresh' = FALSE
  /\ IF Len(queue) < QueueCap
     THEN queue' = Append(queue, [from |-> written, to |-> written + 1]) /\ UNCHANGED flow
     ELSE flow' = [flow EXCEPT !.dropped = TRUE] /\ UNCHANGED queue
  /\ UNCHANGED <<carry, fwd, view, term, attach, pump, sync, screen, wire, spent>>

(* The forwarder: as many adjoining chunks as fit; a chunk that does not   *)
(* adjoin is put back in front.                                            *)

Collect ==
  LET source == carry \o queue
      count == Max({n \in 1..Len(source) : \A i \in 2..n :
                      /\ source[i].from = source[i-1].to
                      /\ source[i-1].to - source[1].from < BatchMax})
      whole == [from |-> source[1].from, to |-> source[count].to]
      looksOn == count < Len(source) /\ Size(whole) < BatchMax
      taken == IF looksOn THEN count + 1 ELSE count
  IN /\ fwd.pc = "idle" /\ source # <<>>
     /\ fwd' = [pc |-> "reserve", batch |-> [NoBatch EXCEPT !.range = whole]]
     /\ carry' = SubSeq(source, count + 1, Max({taken, Len(carry)}))
     /\ queue' = SubSeq(source, Max({taken, Len(carry)}) + 1, Len(source))
     /\ UNCHANGED <<written, flow, pane, wire, spent>>

\* forgive_expired_locked: the batches up to number k have missed their
\* deadline; 0: none has.
Forgive(f, k) ==
  IF k = 0 THEN f
  ELSE [f EXCEPT !.inflight = {n \in @ : n > k}, !.stale = Min({@ + 1, StaleLimit})]

\* What is past its deadline when reserve looks.
Expired(k) ==
  /\ fwd.pc = "reserve"
  /\ IF k = 0 THEN UNCHANGED spent
     ELSE flow.stale < StaleLimit /\ Spend("timeout")

Full(f) == Cardinality(f.inflight) >= Window
Refused(f, n) ==
  \/ f.stale >= StaleLimit
  \/ ~f.visible /\ (Full(f) \/ f.budget < n)

AutoConsume(k) ==
  LET f == Forgive(flow, k) IN
  /\ Expired(k) /\ Refused(f, Size(fwd.batch.range))
  /\ flow' = [f EXCEPT !.dropped = TRUE]
  /\ fwd' = [pc |-> "idle", batch |-> NoBatch]
  /\ UNCHANGED <<written, queue, carry, pane, wire>>

\* Mutant: a visible pane is served without looking at the window.
GrantAlways(k) ==
  LET f == Forgive(flow, k) IN
  /\ Expired(k) /\ ~Refused(f, Size(fwd.batch.range))
  /\ flow' = [f EXCEPT !.next = @ + 1, !.dropped = FALSE, !.inflight = @ \cup {f.next}]
  /\ fwd' = [pc |-> "send", batch |-> [range |-> fwd.batch.range, gen |-> f.gen,
                                      seq |-> f.next, resync |-> f.dropped]]
  /\ UNCHANGED <<written, queue, carry, pane, wire>>

Grant(k) ==
  LET f == Forgive(flow, k)
      size == Size(fwd.batch.range)
  IN /\ Expired(k) /\ ~Refused(f, size) /\ ~Full(f)
     /\ flow' = [f EXCEPT !.next = @ + 1, !.dropped = FALSE,
                          !.inflight = @ \cup {f.next},
                          !.budget = IF f.visible THEN @ ELSE @ - size]
     /\ fwd' = [pc |-> "send", batch |-> [range |-> fwd.batch.range, gen |-> f.gen,
                                         seq |-> f.next, resync |-> f.dropped]]
     /\ UNCHANGED <<written, queue, carry, pane, wire>>

Reserve == \E k \in {0} \cup flow.inflight : AutoConsume(k) \/ Grant(k)

Send ==
  /\ fwd.pc = "send" /\ fwd.batch.gen = flow.gen
  /\ channel' = Append(channel, fwd.batch)
  /\ fwd' = [pc |-> "idle", batch |-> NoBatch]
  /\ UNCHANGED <<written, queue, carry, flow, pane, gap, ack, signals, spent>>

\* FlowSendError::Replaced: the batch is gone, cancel finds a newer generation.
SendReplaced ==
  /\ fwd.pc = "send" /\ fwd.batch.gen # flow.gen
  /\ fwd' = [pc |-> "idle", batch |-> NoBatch]
  /\ UNCHANGED <<written, queue, carry, flow, pane, wire, spent>>

\* FlowSendError::Disconnected: retry_failed frees this reservation only.
SendFails ==
  /\ fwd.pc = "send" /\ fwd.batch.gen = flow.gen /\ Spend("fail")
  /\ flow' = [flow EXCEPT !.dropped = TRUE,
                          !.inflight = @ \ {fwd.batch.seq}]
  /\ carry' = <<fwd.batch.range>> \o carry
  /\ fwd' = [pc |-> "idle", batch |-> NoBatch]
  /\ UNCHANGED <<written, queue, pane, wire>>

-----------------------------------------------------------------------------
(* Acknowledgements are cumulative: the coalescer keeps the highest one.   *)

Raise(a, gen, seq) ==
  IF gen > a.gen \/ (gen = a.gen /\ seq > a.seq)
  THEN [gen |-> gen, seq |-> seq, sent |-> FALSE] ELSE a

AckAll(a, batches) == FoldSeq(LAMBDA b, acc : Raise(acc, b.gen, b.seq), a, batches)

Ack ==
  /\ ~ack.sent
  /\ ack' = [ack EXCEPT !.sent = TRUE]
  /\ flow' = IF ack.gen # flow.gen THEN flow
             ELSE [flow EXCEPT !.stale = 0,
                               !.inflight = {n \in @ : n > ack.seq}]
  /\ UNCHANGED <<written, queue, carry, fwd, pane, channel, gap, signals, spent>>

\* set_visible_for_channel, for the channel the pane owned when it asked.
SignalArrives ==
  /\ signals # <<>> /\ signals' = Tail(signals)
  /\ LET s == Head(signals) IN
     flow' = IF s.channel # flow.gen THEN flow
             ELSE IF s.visible
                  THEN [flow EXCEPT !.visible = TRUE, !.stale = 0, !.budget = HiddenBudget]
                  ELSE [flow EXCEPT !.visible = FALSE, !.inflight = {}]
  /\ UNCHANGED <<written, queue, carry, fwd, pane, channel, gap, ack, spent>>

-----------------------------------------------------------------------------
(* The pane.                                                               *)

CanWrite == term.ready /\ view = "shown"

\* setFrontendVisibleIfChanged
Signalled(visible) ==
  IF term.channel = 0 THEN signals
  ELSE Append(signals, [visible |-> visible, channel |-> term.channel])

SetView(v) ==
  /\ v # view /\ Spend("view")
  /\ view' = v
  /\ IF term.visible = (v = "shown") THEN UNCHANGED <<term, signals>>
     ELSE /\ signals' = Signalled(v = "shown")
          /\ term' = [term EXCEPT !.visible = (v = "shown"),
                                  !.resync = @ \/ v = "pane"]
  /\ UNCHANGED <<backend, attach, pump, sync, screen, fresh, channel, gap, ack>>

\* The tail of the pending batches that fits the retained bytes.
Retained(batches) ==
  LET weight(i) == FoldSeq(LAMBDA b, n : n + Size(b.range), 0, SubSeq(batches, i, Len(batches)))
      fits(i) == i > Len(batches) \/ weight(i) <= PendingCap
  IN SubSeq(batches, Min({i \in 1..(Len(batches) + 1) : fits(i)}), Len(batches))

\* enqueueFrontendBatch
Deliver ==
  /\ channel # <<>> /\ attach = "none"
  /\ channel' = Tail(channel) /\ gap' = FALSE
  /\ LET b == Head(channel)
         flagged == term.resync \/ b.resync \/ gap
         parked == Append(term.pending, b)
         kept == Retained(parked)
     IN IF view = "pane"
        THEN /\ term' = [term EXCEPT !.resync = TRUE]
             /\ ack' = Raise(ack, b.gen, b.seq)
        ELSE /\ term' = [term EXCEPT !.pending = kept,
                                     !.resync = flagged \/ kept # parked]
             /\ ack' = IF sync.pc # "none" \/ ~CanWrite THEN Raise(ack, b.gen, b.seq)
                       ELSE AckAll(ack, SubSeq(parked, 1, Len(parked) - Len(kept)))
  /\ UNCHANGED <<backend, view, attach, pump, sync, screen, fresh, signals, spent>>

\* Batches of the old channel after recovery has begun: acknowledged, dropped.
DeliverStale ==
  /\ channel # <<>> /\ attach = "requested"
  /\ channel' = Tail(channel)
  /\ ack' = Raise(ack, Head(channel).gen, Head(channel).seq)
  /\ UNCHANGED <<backend, pane, gap, signals, spent>>

\* A frame of the channel never arrives; the transport skips it and tells.
Lose ==
  /\ channel # <<>> /\ Spend("loss")
  /\ channel' = Tail(channel) /\ gap' = TRUE
  /\ UNCHANGED <<backend, pane, ack, signals>>

-----------------------------------------------------------------------------
(* Reading the scrollback: performBackendScrollbackSync.                   *)

SyncSnapshot ==
  /\ sync.pc = "read"
  /\ sync' = [sync EXCEPT !.pc = "have", !.end = written]
  /\ UNCHANGED <<backend, wire, view, term, attach, pump, screen, fresh, spent>>

\* Without success syncDroppedBatchScrollbackIfNeeded sets the flag again.
SyncEnds(synchronized, end) ==
  /\ sync' = [sync EXCEPT !.pc = "none", !.end = 0, !.by = "pump"]
  /\ term' = [term EXCEPT !.synced = end, !.resync = @ \/ ~synchronized,
                          !.doubt = IF end < term.synced THEN Max({@, term.synced}) ELSE @]

SyncFails ==
  /\ sync.pc \in {"read", "have"}
  /\ IF sync.pc = "have" /\ ~CanWrite THEN UNCHANGED spent ELSE Spend("fail")
  /\ SyncEnds(FALSE, term.synced)
  /\ UNCHANGED <<backend, wire, view, attach, pump, screen, fresh>>

\* planTerminalScrollbackRecovery: append what lies after the synchronized
\* offset, or reset the terminal and replay everything.
SyncPlan ==
  LET append == term.synced > 0 /\ term.synced <= sync.end
      from == IF append THEN term.synced ELSE 0
  IN /\ sync.pc = "have" /\ CanWrite
     /\ IF from = sync.end
        THEN /\ SyncEnds(TRUE, sync.end)
             /\ UNCHANGED screen
        ELSE /\ sync' = [sync EXCEPT !.pc = "write"]
             /\ screen' = (IF append THEN screen ELSE <<>>)
                            \o Chunks([from |-> from, to |-> sync.end])
             /\ UNCHANGED term
     /\ UNCHANGED <<backend, wire, view, attach, pump, fresh, spent>>

\* Mutant: the offset is read when the write is done, apart from the bytes.
SyncWrittenLate ==
  /\ sync.pc = "write"
  /\ SyncEnds(CanWrite, written)
  /\ fresh' = TRUE
  /\ UNCHANGED <<backend, wire, view, attach, pump, screen, spent>>

\* Mutant: the check that the pane still paints comes before the assignment.
SyncWrittenIfShown ==
  /\ sync.pc = "write"
  /\ SyncEnds(CanWrite, IF CanWrite THEN sync.end ELSE term.synced)
  /\ fresh' = TRUE
  /\ UNCHANGED <<backend, wire, view, attach, pump, screen, spent>>

SyncWritten ==
  /\ sync.pc = "write"
  /\ SyncEnds(CanWrite, sync.end)
  /\ fresh' = TRUE
  /\ UNCHANGED <<backend, wire, view, attach, pump, screen, spent>>

Sync == SyncSnapshot \/ SyncFails \/ SyncPlan \/ SyncWritten

-----------------------------------------------------------------------------
(* Writing the pending batches: pumpTerminalWrites.                        *)

\* The drain timer, a batch or a resync of the pane.  None of them waits for the
\* attachment's own read: the pump joins it and takes the flag, even if the read
\* has its bytes already.
PumpStart ==
  /\ pump.pc = "idle" /\ CanWrite
  /\ term.pending # <<>> \/ term.resync
  /\ IF term.resync
     THEN /\ term' = [term EXCEPT !.resync = FALSE,
                                  !.doubt = IF sync.pc \in {"have", "write"} /\ sync.end < written
                                            THEN written ELSE @]
          /\ pump' = [pump EXCEPT !.pc = "sync"]
          /\ sync' = IF sync.pc = "none" THEN [pc |-> "read", end |-> 0, by |-> "pump"] ELSE sync
     ELSE /\ pump' = [pump EXCEPT !.pc = "loop"]
          /\ UNCHANGED <<term, sync>>
  /\ UNCHANGED <<backend, wire, view, attach, screen, fresh, spent>>

PumpSynced ==
  /\ pump.pc = "sync" /\ sync.pc = "none"
  /\ pump' = [pump EXCEPT !.pc = IF term.resync THEN "idle" ELSE "loop"]
  /\ UNCHANGED <<backend, wire, view, term, attach, sync, screen, fresh, spent>>

\* The head batch is acknowledged and dropped, with or without asking for a
\* scrollback read.
PumpDiscards ==
  LET b == Head(term.pending)
      ahead == b.range.from > term.synced
  IN /\ pump.pc = "loop" /\ term.pending # <<>>
     /\ \/ term.resync
        \/ view = "pane"
        \/ view = "shown" /\ (ahead \/ b.range.to <= term.synced)
     /\ term' = [term EXCEPT !.pending = Tail(@),
                             !.resync = @ \/ view = "pane" \/ ahead]
     /\ ack' = Raise(ack, b.gen, b.seq)
     /\ UNCHANGED <<backend, channel, gap, signals, view, attach, pump, sync, screen, fresh, spent>>

PumpWrites ==
  LET b == Head(term.pending)
      from == Max({b.range.from, term.synced})
  IN /\ pump.pc = "loop" /\ term.pending # <<>> /\ ~term.resync /\ view = "shown"
     /\ b.range.from <= term.synced /\ term.synced < b.range.to
     /\ term' = [term EXCEPT !.pending = Tail(@), !.mixed = @ \/ sync.pc # "none"]
     /\ screen' = screen \o Chunks([from |-> from, to |-> b.range.to])
     /\ pump' = [pc |-> "write", batch |-> b]
     /\ UNCHANGED <<backend, wire, view, attach, sync, fresh, spent>>

\* Mutant: a batch that has been written is not acknowledged.
PumpWrittenUnacked ==
  /\ pump.pc = "write"
  /\ term' = [term EXCEPT !.synced = Max({@, pump.batch.range.to})]
  /\ pump' = [pc |-> "loop", batch |-> NoBatch]
  /\ fresh' = TRUE
  /\ UNCHANGED <<backend, wire, view, attach, sync, screen, spent>>

PumpWritten ==
  /\ pump.pc = "write"
  /\ term' = [term EXCEPT !.synced = Max({@, pump.batch.range.to})]
  /\ ack' = Raise(ack, pump.batch.gen, pump.batch.seq)
  /\ pump' = [pc |-> "loop", batch |-> NoBatch]
  /\ fresh' = TRUE
  /\ UNCHANGED <<backend, channel, gap, signals, view, attach, sync, screen, spent>>

\* No batch is left, or the window went away and they stay parked.
PumpStops ==
  /\ pump.pc = "loop"
  /\ \/ term.pending = <<>> /\ UNCHANGED ack
     \/ /\ term.pending # <<>> /\ ~term.resync /\ view = "window"
        /\ ack' = Raise(ack, Head(term.pending).gen, Head(term.pending).seq)
  /\ pump' = [pump EXCEPT !.pc = "idle"]
  /\ UNCHANGED <<backend, channel, gap, signals, view, term, attach, sync, screen, fresh, spent>>

Pump == PumpStart \/ PumpSynced \/ PumpDiscards \/ PumpWrites \/ PumpWritten \/ PumpStops

-----------------------------------------------------------------------------
(* Attaching: recoverFrontendStream and attachFrontendChannel.             *)

\* The health check of a pane that paints: output came after the last apply.
Recover ==
  /\ ~fresh /\ view = "shown" /\ attach = "none" /\ Spend("recover")
  /\ flow.gen > 1 => sync.by # "attach"
  /\ attach' = "requested"
  /\ term' = [term EXCEPT !.ready = FALSE, !.pending = <<>>, !.resync = TRUE]
  /\ ack' = AckAll(ack, IF pump.pc = "write" THEN <<pump.batch>> \o term.pending
                        ELSE term.pending)
  /\ pump' = [pc |-> "idle", batch |-> NoBatch]
  /\ sync' = [pc |-> "none", end |-> 0, by |-> "pump"]
  /\ UNCHANGED <<backend, channel, gap, signals, view, screen, fresh>>

\* FrontendFlow::replace_channel
ReplaceChannel ==
  /\ attach = "requested" /\ attach' = "replaced"
  /\ flow' = NewFlow(flow.gen + 1)
  /\ channel' = <<>> /\ gap' = FALSE
  /\ UNCHANGED <<written, queue, carry, fwd, ack, signals,
                 view, term, pump, sync, screen, fresh, spent>>

\* The backend believes the new channel visible: the pane tells it the truth,
\* and reads the scrollback at once when it can.
Attached ==
  /\ attach = "replaced" /\ attach' = "none"
  /\ term' = [term EXCEPT !.ready = TRUE, !.channel = flow.gen,
                          !.visible = (view = "shown"), !.resync = view # "shown"]
  /\ signals' = Append(signals, [visible |-> view = "shown", channel |-> flow.gen])
  /\ sync' = IF view = "shown" THEN [pc |-> "read", end |-> 0, by |-> "attach"] ELSE sync
  /\ fresh' = TRUE
  /\ UNCHANGED <<backend, channel, gap, ack, view, pump, screen, spent>>

-----------------------------------------------------------------------------

Forwarder == Collect \/ Reserve \/ Send \/ SendReplaced \/ SendFails
Wire == Deliver \/ DeliverStale \/ Ack \/ SignalArrives
Attach == ReplaceChannel \/ Attached

\* What the two processes do by themselves.
System == Forwarder \/ Wire \/ Sync \/ Pump \/ Attach \/ Recover

Next == System \/ Read \/ Lose \/ \E v \in {"shown"} \cup Hidings : SetView(v)

\* The processes do not stop while they can do something.  What the program
\* prints, what is shown and which frames are lost is up to nobody.
Fairness == WF_vars(System)

Spec == Init /\ [][Next]_vars /\ Fairness

-----------------------------------------------------------------------------
(* Properties.                                                             *)

On(r, c) == r.from < c /\ c <= r.to

\* Batches that still reach the pane if nothing goes wrong.
Travelling ==
  { carry[i] : i \in DOMAIN carry } \cup { queue[i] : i \in DOMAIN queue }
  \cup { channel[i].range : i \in DOMAIN channel }
  \cup { term.pending[i].range : i \in DOMAIN term.pending }
  \cup (IF fwd.pc = "reserve" \/ (fwd.pc = "send" /\ fwd.batch.gen = flow.gen)
        THEN {fwd.batch.range} ELSE {})
  \cup (IF pump.pc = "write" THEN {pump.batch.range} ELSE {})

\* Somebody knows that output is missing and will make the pane read the
\* scrollback.
ResyncOwed ==
  \/ flow.dropped \/ gap \/ term.resync \/ attach # "none" \/ sync.pc = "read"
  \/ fwd.pc = "send" /\ fwd.batch.gen = flow.gen /\ fwd.batch.resync
  \/ \E i \in DOMAIN channel : channel[i].resync

\* No output is lost unnoticed (session.rs:1925: "so the overflow is re-read,
\* never silently lost"): a chunk the pane does not claim to have is on its
\* way, lies before a batch that will show the gap, or a read is owed.  The one
\* exception: output up to the point where a pump took the flag for a read that
\* had its bytes already, or where a read set the pane's offset back.
LossIsKnown ==
  \A c \in (Max({term.synced, term.doubt}) + 1)..written :
    \/ ResyncOwed
    \/ sync.pc \in {"have", "write"} /\ c <= sync.end
    \/ \E r \in Travelling : c <= r.to

\* What a pane discards as "already present" is present: everything up to its
\* synchronized offset is on the screen, each chunk after all earlier ones, until
\* a batch is written beside a read.
ScreenIsComplete ==
  ~term.mixed =>
    /\ \A c \in 1..term.synced : \E i \in DOMAIN screen : screen[i] = c
    /\ \A i \in DOMAIN screen : \A c \in 1..(screen[i] - 1) :
          \E j \in 1..(i - 1) : screen[j] = c

\* A recovering pane discards exactly the bytes it already has
\* (session.rs:1085): no chunk is on the screen twice.
ShownOnce == \A i, j \in DOMAIN screen : screen[i] = screen[j] => i = j

\* So it is as long as the pane has not been recovered in the middle of a write
\* and no batch was written beside a read, through hidden windows, lost frames,
\* missed deadlines, failed reads and pumps that join a read: a batch and a
\* scrollback read that overlap are cut at the same offset.
ShownOnceUntilRecovery ==
  flow.gen = 1 /\ attach # "requested" /\ ~term.mixed => ShownOnce

\* A pane that stays on the screen ends up with all output.
CatchesUp == <>[](view = "shown") => <>[](term.synced = written)

\* It does, or the backend or the transport still owes it a read with the
\* next batch and the health check sees nothing wrong or has given up; or all
\* that is missing was printed before a pump spent the flag on an older read.
CatchesUpOrIsOwed ==
  <>[](view = "shown")
    => <>[](\/ term.synced = written
            \/ term.doubt = written
            \/ /\ flow.dropped \/ gap
               /\ fresh \/ spent = MaxTroubles)
=============================================================================
