# Formal models of mycmux

mycmux is a desktop terminal workspace: a Tauri backend in Rust (`src-tauri/src`), a
TypeScript frontend running in one or several webview windows (`src`), and Python
helpers. It runs many AI command line agents at once, in panes and tabs that can be
torn out into windows of their own, and it can split a piece of work over several
agents (a WorkOrder). This directory holds TLA+ modules translated from that code, the
TLC configurations that check them, and theorems that TLAPS checks for all constants.

Paths below are relative to the repository root.

## 1. Inventory

The whole program is far larger than what a model checker should look at. The table
lists its parts, the state each keeps, what it does, and what makes it hard.

| Part | State | Operations | Hard behaviour |
|---|---|---|---|
| **WorkOrder execution lane** `workorder/{executor,advance,store}.rs`, `commands/workorder.rs`, `lib/workOrderBridge.ts` | plan version, item states, spawn outbox rows in SQLite; a map of promises in the leader window | GO, seal, claim, dispatch, emit, advance, spawn result, retry, cancel | overlapping asynchronous commands with one connection each; crash between statements; lost, repeated and failed launches |
| **WorkOrder contract** `workorder/{store,context}.rs`, `commands/workorder.rs` | versions, source snapshots, session bindings | draft, edit (new version), activate, refresh sources, seal, cancel, delete | a plan read before an await and sealed after it; a source row that moves on after the check that no seal exists |
| **WorkOrder evidence** `workorder/{store,done,model}.rs` | reports, gate results, item state | record a report, record a gate result, promote to verified, the done predicate | upsert, read and update of one gate in separate autocommitted statements |
| **PTY output flow** `pty/session.rs` | scrollback ring, bounded queue, in-flight window, hidden budget, data channel; the pane's pending batches and its offset in the scrollback | read, batch, reserve, post, acknowledge, hide, replace channel; write, discard, reread | reader thread, forwarder task, channel, pump and scrollback reads overlap; whatever is dropped must be known to be missing |
| **PTY manager, monitors** `pty/{manager,monitor,scrollback_store}` | map of sessions, transcript tails | create, attach, kill, detect agent and state | duplicate create, kill while spawning |
| **Tear-out** `tearout/*`, `lib/tearout/*`, `lib/workspaceTearOut.ts` | transfer phases, reservations, who owns a session, attachment contexts with an epoch | move a workspace with its running sessions to a new window, revoke, retire, roll back, try again | two windows, the backend and the registry's rescue, each with its own timeouts; a context used after it was withdrawn |
| **Session state** `session_state/*` | evidence reduced to one projection per session, its revision, quiet deadlines | ingest evidence, reconcile with the reader's output, expire | a timer, output and evidence of other operations in any order; a wake-up that must not be lost |
| **Status feed** `status_feed.rs`, `socket.rs`, `attention/mod.rs`, `sessionAttentionStore.ts` | bounded queue per subscriber, numbers of the feed and of each session | publish, subscribe, receive, resync, snapshot | overflow while the resync or a snapshot is under way; a snapshot answer and changes that overtake each other |
| **Agent state** `agent_state/*` | hook events, ledger, installed settings | receive hook, reconcile, install hooks | late hooks of an earlier session |
| **Attention** `attention/*` | open attention items, dismissals | raise, resolve, dismiss | an item that is resolved while it is raised again |
| **CLI accounts** `cli_accounts/*` | live login, account snapshots, staging directories | capture, switch, staged login, live sync | token rotation by a CLI between two reads; name and token are two writes |
| **Usage** `usage/*`, `commands/usage.rs` | quota cache, refresh tokens, reset tickets | refresh, redeem | two processes refreshing one rotating token |
| **Storage** `db/storage.rs` | workspaces, tabs, scrollback in JSON/SQLite | load, save, migrate | saves of several windows |
| **Window registry** `window_registry.rs`, `SocketListener.tsx`, `commands/workspace.rs` | fragment of every window, adoption queues, the window each workspace is attributed to, close intents, the leader | reopen, drain, publish, dock, close, rescue after a crash, save | lists published late, a drain answered while the window closes, a save between a drain and the publish after it |
| **Settings flush** `settings_flush.rs` | generations of preference writes | note, acknowledge, wait at exit | exit before the last write reached the disk |
| **Socket API** `socket.rs`, `components/layout/SocketListener.tsx` | pending calls by id, leader role | call, answer, time out | answer after the timeout |
| **Live brief, AI log, history** `livebrief/*`, `ailog/*`, `history/*` | indexes and summaries of transcripts | index, repair, query, summarise | append-only files that are truncated or rewritten |
| **Agent design, titles, skills, launcher directories** | caches over files | scan, read, edit | mostly pure reading |
| **Online, publish, web panes, artifacts, previews** `commands/*` | uploads, native views, converted documents | publish, render, convert | network and native toolkits |
| **Codex app server, DSH ACP** | one child process each | request, answer, stop | opt-in experiments |
| **Watchdog, retention, snap layouts, e2e, platform code** | probes, timestamps | sample, prune | OS integration |
| **Frontend stores and components** `src/stores`, `src/components` | zustand stores | render, edit the layout | modelled only where a backend protocol needs its other side |
| **Integrations, scripts, skills** (Python) | none of its own | call the socket API | clients |

### What makes each part correct

- *Execution lane*: nothing starts before its dependencies are verified, next to a
  conflicting writer or outside the budget; a launch is durable before anyone hears of
  it; a session is bound once; a launch that was asked for is answered.
- *Contract*: one version is sealed, with its sources, and never changes; the sealed
  boundary is the one the prompt names.
- *Output flow*: output that a pane does not show is known to be missing; what is
  discarded as present is present; nothing is shown twice; a visible pane catches up.
- *Window registry, tear-out*: every workspace is on exactly one screen or on its way to
  one, and never missing from the saved file while somebody holds it; a transfer that
  rolled back leaves the source as it was.
- *Session state, status feed*: a subscriber that follows the protocol ends with the
  newest revision of every session; a quiet session does not win over output.
- *CLI accounts, usage*: a token saved under a name belongs to that name; one refresh of
  a rotating token at a time.
- *Settings flush, socket*: only values seen on disk are acknowledged; every request is
  answered once.

## 2. Plan

Modules in the order of their importance.

| Module | Models | Composed with | State |
|---|---|---|---|
| `LaunchPlan` | abstract specification of the execution lane | implemented by `WorkOrder` | written |
| `WorkOrder` | GO to running agents: seal, outbox, advance, emit, result, retry | refines `LaunchPlan` | written, proved |
| `WorkOrderContract` | versions, sources, handoff file, seal | shares the seal with `WorkOrder` | written, proved |
| `OutputStream` | PTY output from the reader thread to the pane | - | written, proved (`OutputStream_proofs`) |
| `WindowHandover` | registry, adoption queues, startup, dock, close, crash rescue, leader's saves | - | written, proved (`WindowHandover_proofs`) |
| `TearoutMove` | a workspace's move to a new window, its recovery, attachment authority | the registry's part is that of `WindowHandover`, for one workspace | written, proved (`TearoutMove_proofs`, `TearoutScreen_proofs`) |
| `StatusFeed` | session revisions, quiet worker, feed queues, snapshots, three kinds of reader | - | written, proved (`StatusFeed_proofs`) |
| `AccountTokens` | Claude accounts: rotation by the CLI, watcher, capture, switch, refresh by the poll | - | written, proved (`AccountTokens_proofs`) |
| `TearoutRelease` | docking a moved workspace back, release decisions with their 250 ms deadline | would extend `TearoutMove` | planned next |
| `SettingsFlush`, `SocketCalls`, `QuitSave` | generations of a preference; pending calls; saves at exit | - | planned, small |

Runs stay below three minutes each; small questions about one module are merged into one
run.

## 3. The modules

Every definition that stands for code is mapped to its lines in `PROJECT.json` ("map").
Operators whose comment starts with "Mutant" are deliberate bugs; no specification uses
them, they show that a property can fail.

### WorkOrder (execution lane)

Every Tauri command is an asynchronous task with a SQLite connection of its own. A
command in progress is a process `p \in Procs` with a program counter; each action is one
transaction or one autocommitted statement, so all commands interleave between
statements.

| Variable | Code |
|---|---|
| `order` | `work_orders.state`: draft, sealed, or the row deleted |
| `item` | `work_items.state` of every item |
| `spawn` | the `dispatch_outbox` row of kind `spawn`: its status, and whether the payload is a complete `SpawnRequest` |
| `autoAdvance` | the autonomy setting read by `advance` |
| `proc` | the commands in progress: what they still have to dispatch and to emit, and the promise that waits for them |
| `wire` | `workorder://spawn-request` events emitted and not yet handled |
| `bridge` | the promise that `workOrderBridge.ts` keeps per request id |
| `tabs` | agent tabs opened for an item |

| Actions | Code |
|---|---|
| `GoStart`, `GoFail`, `GoSeal`, `GoMark`, `GoDispatch` | `workorder_go`, `go_with_digests`, `seal_plan` |
| `Emit`, `EmitFail`, `EmitDone` | `emit_spawn_requests`, `requeue_spawn_request` |
| `AdvanceRead`, `AdvanceItem`, `AdvanceFail`, `AdvanceEnd` | `advance` and `decide_advance` |
| `SpawnResult` | `record_spawn_result`, followed by the command's own advance |
| `Retry`, `CancelDraft`, `SetAutoAdvance` | the commands of these names |
| `Receive`, `OpenTab`, `OpenTabFail` | `handleWorkOrderSpawnRequest` |
| `LoseEvent`, `Reload`, `Crash` | no leader window, a new page, a new process |
| `Report`, `PassGates` | summary of `record_report` and `record_gate_result`, which only tests call so far |

`Dispatchable` is `decide_advance` itself: items in plan order, each decided against those
taken before it, as a recursive function.

`LaunchPlan` is what a user may rely on: an item waits, is open, lapsed, bound or
verified. `KeepsThePlan` maps an outbox row and an item state to such a stage (`Stage`).
It is more than the invariants together: `LaunchPlan!Repeat` needs a free place, which
`retry_spawn` never looks for.

### WorkOrderContract (plan versions, sources, seal)

GO and refresh are two kinds of one command (`job`). `Start` reads the current version and
a digest of every source; `Check` and `Write` are the two statements of
`record_source_snapshot`; `Read` and `Cover` are GO's own reading and the handoff file;
`Seal` or `WorktreeFails` come after the awaited worktree. `Bump` and `Activate` make and
choose versions, `Cancel` deletes an unsealed order, `Advance` is a source session that
goes on talking, `Crash` loses the commands. `handoff` holds the digests a handoff file
was written from, `binding` the event boundary the seal copies.

### OutputStream (PTY output)

A chunk is a number, a batch a range of offsets. The backend half: `Read` (reader thread,
never waits), `Collect`, `Reserve`, `Send`, `SendReplaced`, `SendFails` (forwarder), `Ack`,
`SignalArrives`, `ReplaceChannel` (commands). The pane half: `SetView`, `Deliver`, `Lose`,
`SyncSnapshot`, `SyncPlan`, `SyncWritten`, `SyncFails` (a scrollback read), `PumpStart` to
`PumpStops` (the write pump), `Recover`, `Attached`. Each await of the TypeScript ends an
action; what a callback reads before and after an await is read in two different steps.
`PumpStart` has no regard for a read under way, as in the code: the drain timer, a batch
and a resync of the pane may all start the pump while the attachment still reads the
scrollback, and the pump then joins that read. Two fields of `term` are history, which no
action looks at: `doubt`, the offset up to which such a pump may have hidden a loss, and
`mixed`, whether a batch was ever written beside a read. The properties name their
exemptions with them (section 6).
`screen` is the list of chunks written to the terminal since its last reset; the window of
the flow control is the set of sequence numbers that are sent and not acknowledged.

### WindowHandover (who has which workspace)

The registry is one mutex-protected table of the process; every command on it is one
action. A window is what `SocketListener.tsx` and the layout store make of it: `phase` is
its life from boot through docking or closing to its end, and each await of its handlers
ends an action, so that everything else happens in between.

| Variable | Code |
|---|---|
| `fragment`, `queue`, `assigned`, `closing`, `leader` | the fields of `WindowRegistry` |
| `shown` | the workspaces of a window's store |
| `got` | the answer of `take_pending_adoption`, not handled yet |
| `told` | the adoption event, or the drain at mount, that is still to come |
| `pub`, `dirty` | the publish under way, and the debounce of the next one |
| `save`, `disk` | the leader's save under way, the workspaces of `data.json` |

| Actions | Code |
|---|---|
| `OpenSaved`, `OpenSavedFails`, `MainLoaded`, `ChildDrains`, `ChildHydrated` | `reopenSavedWindows`, `hydrateChildWindow` |
| `Drain`, `DrainSkipped`, `Adopt`, `AdoptSkipped` | the drain handler and what it does after its await |
| `Publish`, `PublishSkipped`, `Published` | `publishNow` and `publish_window_fragment` |
| `DockStart` to `DockIntent` | `transferWindowWorkspacesAndClose`, `release_workspaces` |
| `CloseStart` to `CloseKillFails`, `Destroyed` | `closeWindowWorkspacesAndDestroy` |
| `Crash` | `handle_window_destroyed` without a close intent |
| `ClaimLeader`, `SaveRead`, `SaveBuild`, `SaveAbandoned` | the leader's autosave |
| `SaveLook`, `SaveWrite` | `save_persistent_data`: what is held, read before the wait for the lock of the file; then the write |

### StatusFeed (revisions of the sessions and their readers)

A status is reduced to its revision and to whether output that went quiet makes a working
session idle. `Change` is the publishing gate: everybody's queue gets the numbered changes
in the same step. `heard` is output that the PTY reader has counted and the store has not
looked at; `late` says that the minute since the last output has passed, which
`Elapse` may make true at any time.

| Actions | Code |
|---|---|
| `Ingest`, `Output`, `Elapse`, `Look` | `SessionStateStore`: evidence, reader, clock, `current_projection` |
| `Arm`, `Pass`, `Sleep`, `Wake` | the quiet worker around tokio's `Notify`: the wait is armed before the pass |
| `Subscribe`, `Leave`, `Forward`, `Answer`, `Periodic` | `status_feed.rs` and the connection in `socket.rs` |
| `Observe` | `FeedTracker.observe` of `scripts/status_feed_probe.py` |
| `Take`, `Reread` | the attention task |
| `Listen`, `ReadForPage`, `PageAnswered`, `Deliver` | `sessionAttentionStore.ts`: listen, read, buffer, replay |

`Kept` is, for every session, the revision at which an earlier run of the application left a
completion that the window still keeps, or 0. The window starts with those (`NewPage`), puts
one back wherever a session has no row (`Retained`, for `retainDormantCompletions`), and
ignores a change that is older than the row it would replace (`Applies`).

### TearoutMove (a workspace moves with its sessions)

A move opens a new window, so it is named by its receiver `r`. `move[r].at` is how far
`performWorkspaceWindowMove` is, `reception[r].at` how far the page of the receiver is with
the delivery; both lose everything when their window crashes. `transfer[r]` is the record
of the backend, `grant` the attachment context issued last (any other is refused), `active`
the one whose channel the sessions write to. `attaching` are attach calls that the
backend has not worked off; they overlap with everything.

| Actions | Code |
|---|---|
| `Start` to `Finalize` (`Moving`) | the source's way through `tearout_prepare`, `show`, `commit`, delivery, receipt, `received`, `cleaned`, `finalize` |
| `Revoke` to `ReadyTimeout` (`Recovering`), `Retry` | the source's recovery: revoke, retire the receiver, roll back, ask for contexts, restore, attach |
| `Delivered` to `Abandon` (`Receiving`) | `receive`, `receiveRevoke`, `finalizeIncoming`, `clearAbandonedIncoming` in `tearout/runtime.ts` |
| `Attach` | the attach command, which compares the whole context |
| `Republish`, `Crash`, `Rescued`, `Drain`, `Mount` | the registry's part, and terminals of an adopted workspace |

### AccountTokens (live login, stored copies, refreshed tokens)

The live login is two files other processes write, the name and the token. A stored copy
is a pair of both. A token is a pair of its owner and a number; refreshing it once makes it
`spent`. One mutex serialises the holders of the stored copies, and `job` is the one in
progress: the watcher's tick, a capture and a switch read token and name in steps, and the
CLI writes between them. `known` is the cache of owners, `moved` what the file stamps of the
tick and of the prewarm would report.

| Variable | Code |
|---|---|
| `live`, `cli`, `pending` | `~/.claude.json` and the credential store; what a CLI process holds in memory; a login between its two writes |
| `snap`, `orphans`, `rejected`, `foreign` | `cli_account_snapshots/`, the orphans there, `refresh_rejected_at` and `foreign_token_owner` of the registry |
| `known`, `moved`, `watch`, `job`, `use` | `owners()`, `FileStamps`, the watcher thread, the holder of `mutation_lock()`, the poll at one row |

| Actions | Code |
|---|---|
| `WatchWarm` to `WatchFile` | `start_live_sync`, `sync_provider_with_grok` |
| `JobToken`, `JobText`, `CaptureIdentity`, `CaptureSave`, `UserCapture` | `capture_reusing`, `save_captured_account`, `capture_resolved` |
| `StagedLogin`, `ResolveOrphan`, `Remove` | `capture_staged_with_credentials`, `resolve_orphan_inner`, `remove_resolved` |
| `SwitchBegin` to `SwitchPutName` | `switch_account_with_grok`, `restore_with_writer` |
| `UsePlan` to `UseMark` | `get_account_usage`: `fetch_claude_profile`, `refresh_claude_snapshot`, `refresh_failure` |
| `Cli...`, `Restart` | the CLI, a login or logout outside, a new process |

`NeverMisfiled` is about steps, not states: a copy that an older version filed under the
wrong name may be there at the start, and restoring it is refused or repaired, never
spread.

## 4. Runs

| Run | Instance | Shows |
|---|---|---|
| `fan` | integrator and two items with a shared write scope, budget 2, two commands, all faults | types, dependencies, write scopes, outbox and item agree, persist before emit, refinement of `LaunchPlan` |
| `live` | two independent items for one free place, tabs may fail, two retries, fairness | `max_new_pty` is kept, a bound item gets no second tab, promises are answered, launches nobody retries settle |
| `contract_overlap` | one source, two commands, two versions, crashes | one sealed version, the current one, final |
| `contract_boundary` (violation) | the same | a refresh during GO's await moves the boundary past the prompt |
| `output_flow` | two chunks, queue 1, window 1, one of budget, three troubles of any kind | every loss is known, the screen has no holes, nothing twice until a recovery, a shown pane catches up or is owed a read; each but for what `doubt` and `mixed` name |
| `output_overflow` (violation) | window 2, budget 1, hiding windows | the end of a burst stays unshown |
| `handover` | the startup window and one saved window, a workspace each, every fault, the startup window saves | one holder per workspace, commands go to it, nothing is lost or comes back but by the named causes, adoptions complete |
| `handover_save` (violation) | the same, both may save | between drain and publish a save removes a workspace that is shown |
| `status_feed` | two sessions, one with a completion of an earlier run, one reader of each kind, queue 1, two inputs | who is in step knows every revision (a window may stand at the kept completion's), only an overflow loses the step, all catch up, a quiet session becomes idle |
| `tearout` | three windows, one crash, one retry, a changed source, a receiver that cannot be closed | a revoked move stays out, one screen, never nowhere, attached where it is shown, reservations end |
| `accounts` | two accounts, two things that users, CLI or timers start, two tokens of an account, every kind of act | no copy comes to hold another name or token, a live login is filed |
| `accounts_race` (violation) | switches and polls only | a poll spends the token that a switch has just made live |

**Bounds.** Three items are the least with a dependency, a conflict and a choice. Two
commands in progress are enough for every race between a read and a write; a third only
repeats them, because all decisions are taken inside a transaction. Two retries reach a
retry of a retried launch. `MaxTabs` leaves room for the tabs that two failed attempts and
a repeat can open. One source and two versions reach every
overlap of seal, refresh and activation; two sources are needed for partial coverage, and
then one command suffices for the ordering questions. In `output_flow` the queue, window
and hidden budget are one, so every limit is reached by one chunk and passed by the second,
and one is dropped while the other is on its way; three troubles allow hide and show with
a loss, a recovery or a failed read between them, or a missed deadline and a late
answer. Both history fields are raised in it (a pump joins a read that has its bytes; a
batch is written beside one). Its invariants were also explored with three chunks and two
troubles (2.4 million states). Deadlock is checked where the system never stops (`fan`, `live`,
`contract_overlap`); the other instances stop when their events or output are
used up, and say so. Commands, and in the contract sources, are interchangeable and
reduced by symmetry in the runs without liveness. In `handover` a window that leaves is
always met by one that stays, and a workspace by another it could be confused with; a
third window only gives the rescue a choice. In `status_feed` a queue and a wire of one
overflow with the second change, and two inputs are enough for a change during a resync;
the readers do not see each other, so each behaviour has one of them (`Casts`). The kept
completion is at revision two, so a restarted session is behind it, reaches it and passes
it. Its safety
was also explored with three inputs (1.6 million states). `tearout` has the source, its
receiver and a third window, into which a rescued or failed workspace can move on. In
`accounts` the CLI rotates its token whenever it can, and two acts are enough for a login or a
switch in the middle of whatever the other one started; three of them were explored for
safety (12.7 million states). Two tokens of an account are the live one and its successor:
with one of them spent there is one to spend and one to lose. These
four systems may rest when nobody does anything, so deadlock is not checked there.

**Fairness.** `WorkOrder!Fairness`: a command that was accepted is driven by the async
runtime until it ends (weak fairness of its steps); the page handles delivered events
(weak); a promise with its outcome calls `workorder_spawn_result`, and since only the
bound `Procs` keeps it waiting, that call is strongly fair. Users, retries, reports and
faults owe nothing. `OutputStream!Fairness` is one weak fairness condition for
everything the two processes do by themselves: they do not stop while something is left
to do. Within it nothing is favoured, so a post or a read may fail as long as the bound
allows; printing, hiding and losing frames are not fair. The health check, which runs on
a timer, belongs to the page and is modelled by what it looks at.
`WindowHandover!Fairness`: startup, the answers of calls under way and the handlers of
events that were delivered; no user, failure, publish or save owes anything.
`StatusFeed!Fairness`: the worker, the connections and tasks run, and a client reads what
it is sent; evidence, output, the clock and the 90 second snapshot are not fair, so that
nobody catches up only because of the periodic snapshot. `TearoutMove!Fairness`: the
source goes on, because each of its awaits has a time limit or is a backend call; within
that nothing is favoured, so that every receipt may be late. The receiver owes nothing.
`AccountTokens!Fairness`: the watcher's loop and the holder of the mutex go on (weak); an owner
that is asked for again and again is answered once, and `try_lock` succeeds once although
others take the mutex in between, which they hold for milliseconds in every 20 seconds
(both strong). The CLI, users and the poll owe nothing.

## 5. Theorems

The theorems hold for every plan, budget, number of commands, sources, versions, windows,
workspaces, crashes and retries that meet the assumptions in the modules. For a plan these
are what the code establishes before it is sealed: one unassigned root, ordinals, a
symmetric conflict relation, a positive budget. The windows need only a startup window and
a value that is none of them.

*Execution lane.* `TypeCorrect` comes first. `TableStep` then lists what a step can do to
the tables (`order`, `item`, `spawn`), whoever takes it; `StepOfTables` shows that every
action is one of these, so that the other proofs have eleven cases and not twice as many.
`TablesOK` is the inductive invariant. The five properties are not inductive without

- `OpenLaunchWaits`: the outbox status and the item's state determine each other closely
  enough to know, from an item that is verified, that its row is delivered;
- `UnsealedIsIdle`: before the seal no row and no item has moved;
- `IntegratorFirst`: while the integrator's session is not bound, no other item has a row.
  This is why a retry, which takes a place without counting, cannot exceed the budget: at
  that moment nothing else holds one.

`DependenciesCorrect`, `ConflictsCorrect`, `BudgetCorrect`, `LaunchAgreementCorrect` and
`DeliveryCorrect` follow. `PlanRefined` maps each case of `TableStep` to a step of
`LaunchPlan` or a stutter. `DurabilityCorrect` adds the volatile half: an event, a promise,
a queued request or a tab exists only for a complete row (`LaunchesDurable`); each action
adds at most one such claim and has the row at that moment.

`BoundHasItsTab` (`NoTabForBound`) assumes `Undisturbed`: commands do not fail and the leader's
page is not reloaded. Each of these failures alone lets a bound item get a second tab, TLC finds; lost
events, tabs that fail to open and crashes do not, and the theorem allows them all. `OwedOnce`
says that a command answers at most one promise and no promise is waited for twice, so a
command that ends well keeps it (`AdvanceHasTarget`: an advance that finds work has the
integrator's request, and so cannot end badly). `PromiseKept` says that a bound item
either still has its promise, which swallows further events, or is `Forgotten`, as after a crash:
no event, no command and no promise is about it. `NobodyAsksAgain` shows that it stays so, since
every step that takes up a launch takes up an open one.

*Contract.* `ContractInv` is the type invariant with `SealedIsCurrent`; `SealStep` says that
only `Seal` touches the sealed versions and their bindings, and what it has checked.
`OneSealedVersion`, `SealChecksSources` and `SealedForGood` follow.

*Windows.* `WindowHandover_proofs` proves `Typed`, `OneHolder` (`HeldOnce`) and `RoutesToHolder`
(`RoutedToHolder`). What a window holds is not enough for an induction: a fragment or a
publish under way speaks of workspaces that may be elsewhere by the time it counts. `IInv`
is therefore

- `Custody`: no two windows hold, have published or are publishing the same workspace;
- `AbsentIsFresh`: the saved group of a window not opened yet is with nobody else;
- `DockIsQuiet`: from its last fragment to its end a docking window has no publish under
  way, and what it gives away is what it published. This is why the dock waits for the
  publish: with the mutant that does not wait, an old list arrives afterwards and takes the
  workspace back (`RoutedToHolder`);
- `MainIsOpened`, `Routed`, `InboxIsNew`: the startup window opens once; the attribution follows
  the fragments; what comes out of a queue was not shown there before.

The second part of the module proves the action properties: `LossesAreNamed` (`KeptUnlessClosed`)
and `ReturnsAreNamed` (`ComesBackOnlyByRescue`). They speak of
single steps, but only of steps from states that can happen. `StepInv` says which: what a
docking window gives away it has published, a window that has not opened has drained
nothing, and sessions end only after the close intent is recorded. Most steps are
`Neutral`: they take nothing from anyone and bring nothing back.

*Moves.* `TearoutMove_proofs` proves `Typed` and `RevokedStaysOut` (`RevokedIsOut`). With the type
invariant this property is inductive. Most steps are `Quiet`: they issue nothing, make
nothing active and revoke nothing, or only withdraw; one lemma settles them. The rest are
`Attach`, which makes active only what is the last grant, the contexts a receiver asks for,
which a revoked transfer does not get, and the revocations themselves.

`NeverLost` (`NeverNowhere`), in the same module, is about every failure and every crash but that of a
source. Its invariant is `Keeping`, under `NoSourceCrashed`: by `Fresh` and `SourceNamed` a window that
is a source stays named as one, so a step to a state in which no source has crashed comes from
such a state. `Keeping` says that the workspace is held somewhere or is taken off by a move
(`Somewhere`), and of each move

- `Course`: how far the source is determines the phase of the transfer, and whether the
  workspace is off its screen; an ended move whose receiver lives is cleaned or was never
  prepared;
- `Posted`: what is on its way into the receiver, and what the receiver does with it, means that the
  workspace is off the source's screen, so taking it back leaves a move that restores it;
- `Arrived`: a receiver that has answered shows the workspace and has *published* it; if it has
  crashed, the rescue has put it into the startup window's queue, or on its screen. This is what
  the order "publish, then the receipt" in the receiver is for;
- `Stays`: only a window that a move was prepared for holds the workspace, and after the
  move it stays there until another one begins;
- `Sources`: a source is open and has the workspace until it removes it; it is not itself
  about to give it up, and no delivery that can be taken back lies on it (`Sheltered`).

`MainStays` says why a rescue always has the startup window to go to: once a window was opened,
the startup window is the source of some move, so the hypothesis keeps it alive. `LocalStep` is the lemma for
the steps that concern one move; what it asks of a step is what may happen to a source's
screen (`Gives`, `Regains`) and to a receiver's (`Loyal`). The beginning of a move, its
preparation, the end of a receiver and a crash have lemmas of their own; `NotLost` is the
argument of the last two: what ends with a receiver is still at the source of its move.

`TearoutScreen_proofs` proves `NeverBoth` (`OneScreen`). Who may show the workspace follows from
nothing one window knows, so `Calm` ties the parties together, while no window has crashed:

- `Stage`, `Record`, `Answered`: how far the source is, what the transfer's record says, and
  what the receiver has done agree;
- `Post`: a delivery, an adoption or a place in the queue is there only while the source
  still waits, or has yet to hear that it waits in vain (`Awaits`). A delivery that comes late
  thus cannot put the workspace on a second screen after the source took it back;
- `OneMove`, `OneReserved`: a window moves one workspace at a time, and the sessions are
  reserved for one move;
- `Owned`, `Holding`: the owner is a window the sessions were given to for good, it is
  open, and while nothing is reserved nobody else shows the workspace; while they are, only
  source and receiver can.

One lemma, `StepAt`, says that a step which concerns one move and lets no one else show the
workspace keeps all of it. Starting, reserving, cleaning, and closing the receiver have lemmas of
their own. A crash is outside: its rescue can put the workspace on a third screen, which is why
`OneScreen` excepts it.

`SettledAttached` (`SettledIsAttached`) is about the other half of a move, the channel. The
conjuncts of `Attachment` say of each party what the newest context is worth:

- `GrantNamed`, `ContextsNamed`, `CallsNamed`: the context issued last is the owner's, or the
  receiver's of the transfer that holds the reservation; one that is kept for an attach
  call names the window that keeps it;
- `ViaGoesOn`: a context is issued for a transfer only after the source gave the workspace
  up, and while the reservation lasts the source has not finished;
- `ReceiverAttached`, `SourceAttached`: whoever has been answered is the one written to, until
  it is revoked;
- `OwnerAttached`: the sessions write to their owner unless a move that took the workspace
  away is still going on. With every move at rest there is none.

Steps that neither issue nor withdraw are `Mild` and share a lemma; the five that do
(`Clean`, `Revoke` and `RollBack`, `AskVia`, `Ask` and `Mount`, `Attach`) have their own.

*Output.* `OutputStream_proofs` proves `TypesKept` (`TypeOK`) without any condition: the queues
stay within their sizes (`QueuesTyped`: a failed post leaves room for what it puts back),
the window of unacknowledged batches is within `Window` and older than the next number
(`FlowTyped`), every channel generation is accounted for by a recovery (`Recovered`).
`ScreenComplete` (`ScreenIsComplete`), `ShownAtMostOnce` (`ShownOnceUntilRecovery`) and
`LossNoticed` (`LossIsKnown`) hold for any number of chunks and any sizes, without any hypothesis on
when the pump starts; what they exempt, the history in `term` says. `HistoryKept`: `mixed`
is never taken back, and what is printed leaves the exemption of `doubt` only by printing more.
The invariant is

- `OneWriter`: a batch and a read are on the terminal at the same time only once `mixed` is set.
  Until then the pane writes what is pending or reads the scrollback, never both;
- `Printed`: nothing on its way reaches beyond what was printed, and, until `mixed`, a read
  that came back reaches at least as far as the pane;
- `Painted`, `PaintedOnce`, until `mixed`: on the screen every chunk comes after all earlier ones, up
  to where the write under way will end (`Top`), and once while there was no recovery. The
  lemma `Continued` says that writing the chunks that follow keeps this;
- `LastIsKnown`: `LossIsKnown` with one chunk. It is enough to look at the last chunk printed:
  when it is not lost unnoticed, no earlier one is, because a batch that does not adjoin
  the previous one carries the flag. A pump that takes the flag for a read that has its
  bytes raises `doubt` to all that is printed, so the invariant holds again from the next
  chunk on; a read that sets the offset back raises it to where the offset was.

*Status feed.* `StatusFeed_proofs` proves `TypesKept`, `MirrorsCurrent` (`MirrorIsCurrent`),
`WindowsCurrent` (`WindowIsCurrent`) and `OnlyResync` (`OnlyResyncLosesStep`) for any sessions,
subscribers and capacities. What a subscriber will know is spread over its mirror, the
frame on the wire and its queue, so the invariant speaks of them as one list of frames to
come:

- `Following`: the frames are dated after what the mirror knows and before the present
  (`Dated`), each change follows the number before it (`Numbered`), the last one has the
  last number (`Reaches`), and every current revision is known or told by one of them
  (`Complete`); a queue that needs a resync keeps no changes;
- `Posted`, `Paged`: the same for the page, whose events come without a queue of their own
  and may overlap the snapshot it asked for: what it has not seen and its snapshot cover
  every session;
- `Published`: what was published is what the sessions have.

For the window a session counts as covered when its row has the current revision or stands,
later than that, at the revision its kept completion has; nothing else may hide a change.

The order of the sessions in a batch and the replay of buffered events are recursive
functions. `Numbers`, `Stages` and `SameStages` replace induction by a least counterexample
(`WFMin`), which the provers can use because it takes a set and no operator, and show that
such a definition has a value and that its value follows the steps.

*Accounts.* `AccountTokens_proofs` proves `Typed` and `NeverPaired` (`NeverMisfiled`). The property is about
steps, so the proof says of every step what it may do to a copy (`FilesRight`): leave it, remove
it, file a login under its owner's name, or replace a token by another of the same owner.
`ClaimFiled` is why a capture is safe whatever was written while it read: both names and the
owner the provider gave agree on what is saved, and a token's owner never changes. The
invariant `IInv` keeps what such a step relies on: a switch has a target
(`SwitchHasTarget`), the poll is at the row of an account and stays there while its capture
runs (`QuestionsNamed`), the successor it is about to store has the owner of the token it
replaces (`SameLineage`), and a copy set aside bears its owner's name (`OrphansOwned`), so
registering it later is right too.

*Only model-checked.* All liveness (`ClaimsSettle`, `LaunchesSettle`, `HandoverCompletes`,
`CatchesUp` of `StatusFeed`, `ProjectionSettles`, `CatchesUpOrIsOwed`, `ReservationEnds`,
`LiveIsFiled`): fairness and ENABLED are out of the prover's reach.
`BoundaryMatchesHandoff`, `CatchesUp` of `OutputStream`, `SaveIsAdditive` and
`NeverSpendsLive` are refuted by TLC.

## 6. What the models found

- *The boundary moves during GO* (`contract_boundary`).
- *A burst whose end is dropped for a hidden window* (`output_overflow`): the flag waits for
  a batch that does not come.
- *A save between a drain and the publish after it* (`handover_save`): for a moment the
  registry knows nobody who has the workspace, and `data.json` loses it until the next save.
  The save also looks before it waits for the lock of the file (`commands/workspace.rs:45`,
  `:136`), so a fragment published in between is too late for it.
- *A refresh of the live token* (`accounts_race`): the poll looks at the live name and token,
  waits its turn and asks for the refresh, with no mutex held. A switch in between restores
  the very copy that is being refreshed; the terminal then holds a token that is spent, and
  the next tick may file that token over the refreshed copy.

Each is quoted against the comment it contradicts in `PROJECT.json`. Other behaviour that
the models show; where a property would forbid it, it names the exemption:

- *Execution lane.* A crash between seal and claim leaves an order that is sealed without a
  complete request. Verification alone starts nothing: advance runs after GO and after a
  spawn result only. Under failed emits a retry can open a second tab, because the request
  went back to pending while the first tab was opening; and a launch that failed twice can
  leave a tab behind that no row accepts (`NoTabForBound` is about bound items).
- *Accounts.* When the owner of the live token is not registered the tick ends without
  forgetting the stamps (`live_sync.rs:372`): registering that owner later does not bring the
  watcher back. A CLI that rotates between the two writes of a restore, whose second one
  fails, finds its new token replaced by the old one. A rejection of a copy that a staged
  login has just replaced marks the new one.
- *Contract.* A refresh that passed its check before the seal still rewrites the snapshot
  row of the sealed version (the binding stays); a source snapshot can be inserted for an
  order that was cancelled in between.
- *Output.* A stream recovery in the middle of a terminal write shows its bytes twice
  (`ShownOnceUntilRecovery`). A pump that the drain timer (`XTermWrapper.tsx:2241-2257`) or
  `runFrontendResync` (`:2284-2287`) starts while the attachment's own read is in flight does
  not wait for it either. If the resync flag is set, the pump deletes it and joins the read
  (`:2632`), although that read may have been answered before the loss the flag is about; when
  it succeeds, nobody is left to ask again (`doubt`). If the flag is not set, the pump
  writes its batches beside the read, and bytes are shown twice or the offset goes back
  (`mixed`). `session.rs:1925-1927` counts on every overflow being "re-read, never silently
  lost", which the first case contradicts. `LossIsKnown`, `ScreenIsComplete`,
  `ShownOnceUntilRecovery` and `CatchesUpOrIsOwed` exempt just these cases.
- *Status feed.* After a restart of the application a session counts its revisions from one
  again, while the window still has the completion that the last run kept, at that run's
  revision (`sessionAttentionStore.ts:137`). Until the session has passed it, its changes are
  ignored as older ones (`:224`), new questions and permissions among them, although
  `docs/features/implemented/agent-dormancy.md:27` says that an old completion does not cover
  the notice of a new run. `WindowIsCurrent` exempts that revision by name.
- *Windows.* A docking window ignores the adoption event (`SocketListener.tsx:2783`). If the dock is
  refused afterwards, the window is open again with a queue nobody tells it to drain
  (`HandoverCompletes` allows a window that began to close). The answer of a drain that meets
  a closing window is dropped (`DrainDropped` in `KeptUnlessClosed`).
- *Moves.* (a) After `Committed` the escrow is in the receiver's queue. If the receiver
  crashes, the rescue gives the escrow to the leader; when the source is another window it
  restores the workspace as well, and both show it (`OneScreen` exempts crashes). (b) If
  `tearout_retire` fails, the retry does not roll the phase back
  (`workspaceTearOut.ts:160`, `prepared && !retrying`): the transfer stays reserved, and the
  source's own contexts are refused (`mod.rs:378`). `ReservationEnds` exempts it by name.
  (c) A crash of the source strands its reservation, and (d) between the end of the
  receiver and the restore it takes the workspace with it (`NeverNowhere` exempts it).
  (e) The receiver's own drain at startup can take the escrow before the delivery comes;
  the delivery is then refused as a duplicate and recovered from, and meanwhile both
  windows may show the workspace (`Unsettled`).

## 7. What is left out

- *WorkOrder*: prompts, worktree contents, git; the report and gate tables; several orders
  (they share nothing but the process); priorities of sessions.
- *Contract*: text of digests and prompts; plan edits are a new version whatever they
  change.
- *OutputStream*: one session and one pane at a time; bytes inside a chunk; the eviction of
  old output from the ring, which makes a read start later than asked; the end of the
  session and retiring its channel; replay to a torn-out window; the input direction. A
  terminal write and the reset of the screen are one step each; the hidden budget counts
  chunks.
- *WindowHandover*: waits of a close that time out while a save or publish is still under
  way, a window that cannot be destroyed, a close intent that is not answered, a startup
  window that crashes before it has loaded, frames and styles, the end of the process.
- *StatusFeed*: the rules that reduce evidence, the receipts that let a completion be kept, timestamps, server epochs (the process does
  not restart within a behaviour), several windows, which do not share anything.
- *TearoutMove*: docking back and the release decisions, the native drag loop, spare windows,
  single panes, several sessions of which one fails, windows that the user closes during a
  move, backend calls that fail for other reasons than those modelled, a new window that
  cannot be built.
- *AccountTokens*: Codex and Grok, whose name and token are one file; the macOS keychain, which
  the stamps do not see; expiry clocks (a poll may try or refresh at any time), backoff and
  retry times; numbers, caches and cooldowns of the poll; the bound of the owner cache; a
  refresh that does not rotate; failing files, except the name that a restore cannot write;
  renaming, the rescue of rejected copies at start, backups. Profiles are named by their
  account, so an account that is removed and registered again is the same one.
- *Everything marked not modelled* in `PROJECT.json`, with its reason. Parsing, file
  scanning, rendering and network code have little control that a model checker could
  add to; the concurrent parts are in the plan above.

## 8. Running

    tlc -workers 2 -config WorkOrderFan.cfg MCWorkOrder
    tlc -workers 2 -config ContractOverlap.cfg MCWorkOrderContract
    tlc -workers 2 -config OutputFlow.cfg MCOutputStream
    tlc -workers 2 -config Handover.cfg MCWindowHandover
    tlc -workers 2 -config StatusFeed.cfg MCStatusFeed
    tlc -workers 2 -config Tearout.cfg MCTearoutMove
    tlc -workers 2 -config AccountTokens.cfg MCAccountTokens
    tlapm WorkOrder_proofs.tla
    tlapm WorkOrderContract_proofs.tla
    tlapm WindowHandover_proofs.tla
    tlapm TearoutMove_proofs.tla
    tlapm TearoutScreen_proofs.tla
    tlapm AccountTokens_proofs.tla
    tlapm StatusFeed_proofs.tla
    tlapm OutputStream_proofs.tla
