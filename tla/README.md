# Goal progress: a verification project

TLA+ models of codex-goal-progress, the local Helper that keeps a checklist of
results ("Goal Contract") for a Codex or Claude session, stores its changes as
events and shows the progress. Paths below are relative to the repository;
`core`, `store`, `host` stand for `packages/core/src`, `packages/store/src` and
`packages/host/src`.

## 1. The system

| Component | State it keeps | Operations | Talks to |
|---|---|---|---|
| Contract and core (`core/index.ts`, `contracts`) | none; pure functions on a contract | `applyGoalProgressCommand`, `reduceGoalProgressEvent`, `calculateGoalProgress`, `projectGoalProgressViewModel`, `migrateGoalContractV1ToV2` | called by the store and the handlers |
| Event store (`store/event-store.ts`, `atomic.ts`) | `events.jsonl` and `snapshot.json` per session; a promise queue per session | `load`, `initialize`, `replace`, `persistMigrated`, `apply` | file system; read by the Claude status line without a lock |
| Instance lock (`store/lock.ts`) | one identity file per attempt, `helper.pid.json` | `acquireHelperInstanceLock`, `release`, `readCurrentHelperIdentity` | file system, process table, clocks |
| Session handlers (`host/index.ts`, `helper-session-coordinator.ts`) | tracking overlay, activation state, preparing objectives, replay cache of request identities | initialize, apply, get, detach, prepare, native status synchronisation | store, app server of Codex, publication |
| View publication (`host/index.ts:1027`, `view-model-publisher.ts`, `renderer-bridge-*`, `renderer-target-manager.ts`) | latest view per thread, fingerprints per target, the bridge and its backoff | publish, clear, reconnect, recover the visible thread | renderer pages |
| Update coordinator (`host/update-coordinator.ts`) | update state, operation record, deadline timer | check, download, install, restart, reconcile | worker processes, startup listener |
| Codex adapter (`packages/codex-adapter`) | latest view of a window, lifecycle of its watcher, the page's own configuration | publish, clear, page load, UI intents, reports of the visible thread | the page of Codex, the Helper |
| Installation and workers (`platform/macos/src/update-*.ts`, `install-command.ts`) | `update-operation.json`, `current` link, installation manifest | upgrade, restart, verdicts | launchd, the coordinator |
| IPC (`packages/ipc`) | sockets, requests in flight and queued | hello, request, response | MCP server, hooks, renderer |
| Claude task service (`packages/claude-code`) | none between requests: one lock per request | start, update, status line | store, lock |

Clients (the MCP server, hooks, the renderer) call the Helper through IPC; the
handler reads the native Goal from Codex, asks the store for the change, and
publishes the projected view. The store serialises the operations of one
session, replays its log at every operation and never keeps it in memory. The
lock makes one process the writer of a state directory: the Helper for its
life, a Claude task for one request.

What is hard here: every transition exists twice (command and replay) and the
copies must agree for ever; the log must survive torn writes, failing syncs,
crashes and loss of power between any two calls; requests are repeated after
timeouts; the lock decides by comparing clocks who is alive; the handlers
await between reading and publishing; three queues on the way to the page wait
for one another; an update replaces the very process that conducts it.
`PROJECT.json` lists these hazards at their lines, with the property that covers
each or the reason why none does.

What makes each component correct, in a line:

- contract: writer and replay agree, completion is earned, progress is not lost silently, a view can always be shown;
- store: the log always replays, a request is carried out once, what was reported committed stays;
- lock: one live holder, nobody's cleaning up harms the holder, attempts end, what the dead left keeps nobody out;
- handlers: the last view offered is the last one shown, a user's detach is kept, a client's progress stays with its Goal;
- publication: the Helper ends at the thread the window shows, with its latest view, and its queues come to rest;
- updates: a verdict belongs to its operation, a restart to the Codex it was asked in, and no update is only waited for, two named cases apart;
- IPC: one answer per request, bounded queues.

## 2. The modules

| Module | Models | Notes |
|---|---|---|
| `GoalContract` | the contract record, progress computation, contract schema | pure operators |
| `GoalCommands` | `applyGoalProgressCommand`, item changes, corrections | extends `GoalContract` |
| `GoalReplay` | `reduceGoalProgressEvent`, migration, new contracts, view model and its schema | extends `GoalCommands` |
| `GoalProgress` | the life of one session's contract: what the writer computed (`contract`) beside what replay gives (`replayed`) | state machine over the three above |
| `GoalProgress_proofs` | its theorems | |
| `ProgressLedger` | what the store promises: one history, commit, tell, lose only what was not told | abstract specification |
| `ProgressLedger_proofs` | its theorem | |
| `GoalEventStore` | the store of one session down to append, sync, rename and directory sync, its queue and its faults | refines `ProgressLedger` |
| `GoalEventStore_proofs` | its theorems, the refinement among them | |
| `HelperLock` | the election of the lock holder and the cleaning up | |
| `HelperLock_proofs` | its theorems | |
| `GoalSession` | the Helper's handlers for one thread, await by await, with the files they share, the drain loop, changes of the native Goal and crashes | takes one store operation as one step, which `GoalEventStore` justifies |
| `GoalSession_proofs` | its theorems | |
| `RendererDelivery` | publisher, target manager, bridge and page for one window | takes what the handlers publish as its input |
| `RendererDelivery_proofs` | its theorems | |
| `UpdateCoordinator` | the updater with its two files, the install and restart workers and the Helper's own restarts | |
| `UpdateCoordinator_proofs` | its theorems | |
| `MC*` | instances for TLC | |

**Contract.** A contract keeps every field that decides a transition; texts,
titles and the evidence of single items are left out (their ids must be unique,
and a command that breaks this is refused by the same schema on both paths). A
completed task's final evidence is `acceptance`. `lastScopeChange` and
`lastProgressCorrection` are the revisions they name. One action of
`GoalProgress` is one store operation that wrote an event: `Initialize`,
`Replace`, `Migrate`, and one per command type. An action tries the command with
every argument, a stale revision and another contract's id among them, and is a
step when the code accepts it. `Legacy` and `LegacyRescope` stand for logs that
an earlier release wrote with schema v1. `replayed` is a set so that a log which
replay refuses is the empty set. `Event` stamps the contract's own next revision, as the
code does, whatever revision the command names; `built` is history: the revisions that
the accepted commands of the contract were built on.

**Store.** `file` is the log as the next read sees it, `disk` what of it has been
synced; `snapshot` what is read, `survivors` what may be there after a loss of
power (a rename is visible at once and durable after the directory sync). An
operation walks through the places of `op.at`: repair of the last line and its
sync, replay, recovery of the snapshot, decision, append, sync, rename, sync.
`IoFails` fails the call it stands before, with the error the code throws there;
`Crash` drops the process and its queue; `PowerLoss` also drops what was not
durable, and the log may lose any suffix of its unsynced part, its last line cut
anywhere. The contract is reduced to id, revision and schema version, all the
store compares. Which command the contract accepts is `GoalProgress`'s subject.

**Lock.** An attempt lists the directory (`Precheck`), judges the files one by one
(`Judge`, removing those whose owner is judged gone), publishes its own, and then
scans again until it is alone (`Win`), sees a smaller instance id (`Lose`) or is
out of rounds. A failing step (`Throw`) runs the catch block. `skew[i]` is by how
much the process start recorded by `i` differs from the one the system reports
now, in units of time; a start within `Tolerance` is the same process.
`ClockSet` moves all recorded starts, `Sleep` makes a process's own uptime fall
behind before it records it.

**Handlers.** `op[w]` is a handler in flight; `at` is the await it stands at, and
one action is what it does from there to the next await, named for the handler
and the place. Routines that handlers share (`#detachTracking`, `#refreshUsage`,
`#syncNativeGoalStatus`, `#overlayForCurrentNativeGoal`) are actions too, which
return to `ret` or `back`. `seen`, `off`, `answer` are the contract, overlay and
Goal a handler has read, and may be stale. A contract is reduced to its id,
revision, Goal (a number; a task has none) and whether it is completed; what a
command may make of it is `Applied`, since `GoalProgress` has the rest.
`overlay` and `activation` are the two files, each written on its own; so is the reason
that `#activationStateForOverlay` writes for a thread that an earlier release detached
(`StartMigration`, then `ReadReason` from the place that `Migrating` names). Each read of
Codex may fail. A snapshot is `stale` after a failed refresh (`RefreshGoal`), or when the
poll brings such a one: `SyncLoad` and `Current` then let the contract and the overlay
through as they are, and so does `CurrentGoal` when its own read fails; a resumption
publishes an error instead (`ResumeGoal`). `Publish`
is the start of `#publishVerified`: the drain loop takes the view in the same turn,
or finds it in the map after the view it has. `offered`, `kept`, `alone` and `during`
are history: the view published last, whether the user detached with nothing else
in flight, whether a request was served alone, and the Goals Codex had while it was.
A crash drops the handlers and what is in memory.

**Publication.** `queue` is the promise queue of `ViewModelPublisher`, its head being
carried out. The queues of the target manager and of the bridge hold at most one
thing at a time here and are the guards `ManagerFree` and `BridgeFree`: an action that
needs them waits. Publisher (`entry`, `snapshots`), manager (`target`) and
bridge (`bridge.latest`) each know a thread or a view of the window, and `route` and
`config` are the page itself. Reports of the page are a set, so that they
overtake each other; `order` filters them by lifecycle and sequence number as the
handler does. `Shown` is what the page host places: a view only under its own thread.
A click waits in the bridge's queue for the handler's answer, which may wait for
the publisher (`intent`), until the client's timeout (`Timeout`).

**Updates.** A job of the coordinator's queue reads the record (`Take`) and then
decides and writes (`Finish`); in between anything else may happen except another
job. `Reconciled` is `#reconcileState`. The background update and the continuation
of restart-now write the record outside the queue, as in the code. The workers are processes:
`UpgradeLinks` sets the link, `UpgradeRestarts` stops the Helper, launchd starts it again
(`Boot`) from what the link names by then, and the worker waits for it and confirms. A
failure undoes the two in reverse order (`UpgradeUndoesRestart`, `UpgradeUndoesLink`), so
that the Helper may start from the new release while the link goes back to the old; an
upgrade may also break off anywhere (`UpgradeBreaksOff`). A verdict whose write fails,
landed or not, is followed by a second one (`InstallerFinishes`). A background update
that fails writes its phase (`WorkEnds`) and is cleared only after that was published
(`Settle`): a retry in between is accepted and its start dropped (`AfterStart`). A Codex launch
is a number; `prev` is the one an operation began under. `Expire` is the passing of
the record's deadline. `upgraded`, `began`, `overlapped` and `dropped` are history:
operations whose worker installed the release, the Codex each operation began under, and
the two things named in section 6.

## 3. The runs

| Run | Instance | Shows |
|---|---|---|
| `GoalProgressTask` | a task, one contract id, one reading of the clock, three scopes (none yet, one result, a mixed one: required and optional results with items), change sets over them, 5 revisions | `TypeOK`, `ReplayAgrees`, `ViewsAreValid`, `NoSilentRegression`, `ScopeIsFrozen`, `AcceptanceIsRevoked` |
| `GoalProgressNative` | native Goals (another text, another creation), two ids, scopes the schema accepts and refuses, v1 logs, two clock readings, 3 revisions | `ReplayAgrees`, `CompletionIsEarned`, `ViewsAreValid`, `NoTwoOnOneRevision` |
| `GoalProgressStepBack` | as above with a clock that may run backwards | violates `SnapshotIsRebuildable` |
| `EventStore` | twelve requests: initializations, an update, the same request id with other content and with another event id, a used event id, a concurrent update, a replacement and its retry as an initialization, a migration, an update that an earlier release carried out, a load; a crash and a failing call in one run, or two losses of power | `TypeOK`, `LogReplays`, `SnapshotNeverAhead`, `RetryIsRecognised`, `QueueGoesOn`, and that the store implements `ProgressLedger` |
| `EventStoreStranded` | crash, failing call and loss of power together | violates `NeverStranded` |
| `HelperLock` | three attempts, two rounds, drift within the tolerance | `TypeOK`, `MutualExclusion`, `OwnIdentityIsCurrent`, `PidFileIsKept`, `AttemptsEnd`, `NoneIsKeptOut` |
| `HelperLockClock` | two attempts, drift beyond the tolerance | violates `MutualExclusion` |
| `GoalSession` | two handlers of any of twelve kinds, two requests in all, six starts (no record, a task, a completed task beside a Goal, a Goal's record that is tracked, detached without a reason, or whose Goal ended), one change of the Goal, one crash, three revisions | `TypeOK`, `LastOfferIsShown`, `UserDetachIsKept`, `NoProgressOnAnotherGoal`, `ActiveViewWasCurrent`, `LoneReadIsExact`, `DrainRests` |
| `GoalSessionReplaced` | a task, three requests, two at a time | violates `ActiveTaskIsKept` |
| `UpdateCoordinator` | two operations, one newer release, two Codex launches, two intents, one fault: a crash of the Helper or of a worker, an upgrade that breaks off, or a verdict whose write fails | `TypeOK`, `EveryUpdateIsDriven`, `VerdictIsItsOwn`, `NewCodexIsLeftAlone`, `ActivationIsEarned`, `UpdateEnds`, `RestartEnds` |
| `RendererDelivery` | two threads and a page without one; three events out of: three moves or reloads, two publications, one click, one failure, one reconnection | `TypeOK`, `WindowIsFollowed`, `CardIsCurrent`, `QueuesRest` |
| `RendererDeliveryDetached` | two threads, two moves, one click | violates `DetachedIsNotShown` |

Bounds. `MaxRevision` is the only counter of a contract; five revisions reach
completion, its withdrawal by a correction, a rescope and a second completion,
and no transition depends on the value of a revision beyond equality and order.
Five is needed for tasks, three is enough for the native transitions, each of
which follows from any state that a v1 log may start in. Two items and three
results give floored shares, a cancelled and an optional result. Two ids and two
readings of the clock are enough to be stale, to conflict and to step back.
`MaxQueue` is one, since operations run strictly one after another: one operation
runs and one waits for it, which is where a queue that does not go on would show. Faults are budgeted: the safety run has
crashes and failing calls in one budget and losses of power in another, since
their mix is exactly what `EventStoreStranded` refutes. Three attempts at the
lock are the first number at which a loser, a winner and a newcomer meet; two
rounds include one wait. `Tolerance = 1` with `MaxSkew` 1 or 2 has both sides of
the comparison. Two handlers in flight are enough for each pair of awaits to interleave; a third
request after them is needed for `ActiveTaskIsKept` (detach, initialize, start
again), where nothing else is. One change of the Goal is one answer of Codex that is
stale; one crash falls between any two writes of the files. `RendererDelivery`
bounds its events by `Events` and what may be under way when the next one happens by
`Backlog`, so that three events meet each other in every order and at every
step of the queues. Three events are a failure, the user going elsewhere, and a
reconnection; or two moves around a publication. `UpdateCoordinator` has a second operation so that a worker of the first
can be late, a second Codex so that the wrong one can be closed, and two intents,
one of which starts the update and the other asks for the restart, a check or a retry.

The contract's runs stop at `MaxRevision`, the lock's when every attempt has ended,
the handlers' and the window's when the budgets are used up and all work is done, the
updater's when no release is newer and nothing is asked any more: deadlock is
not checked there. The store's runs check it.

Fairness. `GoalEventStore` assumes that the running operation goes on (`WF` of
`Step`): a file call ends or fails. Submissions and faults are never forced.
`HelperLock` assumes that some attempt which can go on does: attempts run in
different processes, the election is bounded by its rounds, and no attempt
waits for another. No fairness is assumed for holding or releasing the lock.
`GoalSession` assumes only that a delivery ends: a handler may wait for a file or for
Codex as long as it likes. `RendererDelivery` assumes that some work that
can be done is done (requests, CDP calls and timers end); moves, clicks, faults and
publications are never forced. `UpdateCoordinator` assumes what the process and
launchd guarantee: a job, a continuation and a step of the background update are promises
that settle (network calls have timeouts), timers fire, time passes, and launchd keeps
the Helper alive. Nothing is assumed of the workers, of Codex or of the user, so that
`UpdateEnds` and `RestartEnds` hold by the deadlines, also when a worker is lost.

## 4. What is proved

Each theorem below holds for every value of the constants that the module's named
assumptions allow; what a theorem assumes beyond them is said with it. An invariant of
a run is seldom inductive; what it needs besides is named here, was checked by TLC
on the run's instance, and is proved with it.

### Contract (`GoalProgress_proofs`)

Assumed: scopes are checklists (`IsChecklist`), change sets carry statuses a client may
set, `MaxRevision` is positive.

- `TypeCorrect` (`TypeOK`): stored contracts are well-formed and valid under their
  schema. By command: each accepted contract has passed `Checked`, and each field is
  a copy or a value of its type.
- `ReplayAgreesWithWriter` (`ReplayAgrees`), if the clock does not step back between two
  writes (`~ClockMayStepBack`). The invariant is `TypeOK` with `ReplayAgrees`: a step
  replays one event from the very contract the command was applied to, so each
  command is compared with its event, guard by guard; `TypeOK` gives the schema
  checks that replay repeats. `GoalProgressStepBack` shows the assumption necessary.
- `CompletedIsEarned` (`CompletionIsEarned`): the schema's notion of a finished objective
  (all countable items complete) gives a share of exactly 10000.
- `EveryContractIsShown` (`ViewsAreValid`): the view of a valid contract passes the
  view's schema. The sums of the computation are bounded by those of the checklist.
- `RegressionIsRecorded` (`NoSilentRegression`), `ScopeStaysFrozen` (`ScopeIsFrozen`),
  `AcceptanceEndsWithScope` (`AcceptanceIsRevoked`): what a step of the contract may
  never do. The first
  compares two folds over a checklist. Induction over a list being out of reach, the
  partial sums are functions of the position, and if some sum were smaller there
  would be a least position at which it is, which one step of the fold refutes.

- `NoRevisionIsBuiltOnTwice` (`NoTwoOnOneRevision`): the revisions that accepted commands
  were built on never repeat. The invariant adds that all of them are below the
  contract's own, which every accepted command raises.

### Store (`GoalEventStore_proofs`, `ProgressLedger_proofs`)

Three theorems need no assumption on the faults. Their invariant adds `TurnInv` to the
types: what the running operation has read, is about to write, or waits to sync is the
log as it is, at each place of the operation.

- `StoreIsTyped` (`TypeOK`), `LogAlwaysReplays` (`LogReplays`),
  `RetryIsAlwaysRecognised` (`RetryIsRecognised`): whatever mix of crashes, failing calls
  and losses of power, no later load refuses the log, and a request that was committed and
  is sent again is answered as what it is.

Two assume `SeparateBudgets`: a behaviour has losses of power, or crashes and failing
calls, but not both. `EventStoreStranded` shows that with both the promise is not
kept: a load, or a repeated request, takes a line for committed that was never synced.

- `SnapshotIsNeverAhead` (`SnapshotNeverAhead`).
- `StoreImplementsLedger` (`ImplementsLedger`): each step of the store is a step of the
  ledger or leaves it alone. `DiskInv` says how far the disk may be behind the log at each
  place (by the line just appended), `KeptInv` that what callers were told and what a
  surviving snapshot holds is in the durable part. The step of an operation is the
  ledger's commit, the answer its telling, a loss of power its losing.
- `LedgerKeepsItsPromise`: the ledger itself replays and keeps what it told.

### Lock (`HelperLock_proofs`)

- `LockIsTyped` (`TypeOK`).
- `LockExcludes` (`MutualExclusion`), for any number of attempts and rounds, if
  `MaxSkew <= Tolerance`. The invariant: a published attempt's file is listed
  (`StaysListed`, where the assumption is needed: nobody's file is taken for a dead
  one's); of two attempts that are scanning or further, one has the other in what it
  listed (`OneSawTheOther`: both publish before they list); who has won had found
  itself alone (`WinnerIsAlone`).
- `OwnIdentityIsFound` (`OwnIdentityIsCurrent`), `PidFileStays` (`PidFileIsKept`), under the
  same assumption. `OwnerInv` adds that an attempt which scans finds its own file, and
  that a releasing owner is still seen by those who list.

### Handlers (`GoalSession_proofs`)

- `LastOfferIsShownAlways` (`LastOfferIsShown`). Every step of a handler is an `Offer`:
  it leaves the delivery alone, publishes one view, or takes the page's view down
  (`StepOffers`, one case per action). `DrainInv` says that the view published last is
  the one waiting, or the one being delivered if none waits.
- `UserDetachIsKeptAlways` (`UserDetachIsKept`). `KeptInv` adds to the types that a handler
  which was alone still is, or has lost its mark, and that while a detach is kept
  every handler is at a `Safe` place: one from which it cannot take the thread up
  again or give another reason, because it has yet to read the files or has read
  them since. `SafeStep` and `SafeBegun`: handlers begin at safe places and get only
  from safe to safe places, unless a request reopens the thread.

- `SessionTypeOK` (`TypeOK`), `ActiveViewWasCurrentAlways` (`ActiveViewWasCurrent`),
  `LoneReadIsExactAlways` (`LoneReadIsExact`), `ProgressStaysOnItsGoal`
  (`NoProgressOnAnotherGoal`) rest on one invariant, `HandledInv`: what a handler, at the place where it
  stands, may rely on. `Known`: where it uses a contract it has one. `OnItsWay`: between the
  synchronisation and the publication it returns to, it is at a place of that path.
  `Informed`: the answer it holds is of a Goal that Codex had meanwhile. `BoundInv`: a
  contract it is about to show as active, or to write to, is bound to such a Goal, unless
  its last read of Codex failed or was stale (`stale`).
  `LoneInv`: what a handler served alone has read, while the Goal stayed, is what is stored. One
  lemma (`HandledStep`) has a step for each of the 57 actions; others show that handlers leave each
  other's parts alone, and that a change of the Goal reaches all of them.
- `ProgressStaysOnItsGoal` has one hypothesis: an id and a revision stand for one record
  (`contract = Log[<<id, revision>>]` for some `Log`, always). The update is checked against the
  stored contract by id and revision alone, and the store refuses only the current id for
  a new contract (`core/src/index.ts:1224`): an id that came back after another one, with
  another Goal, could meet a handler that still holds its first record. The MCP server
  makes a new id for each call unless the client chooses one
  (`mcp/src/initialization.ts:20`), which is what the hypothesis stands for.

### Publication (`RendererDelivery_proofs`)

- `DeliveryIsTyped` (`TypeOK`). The types need `BridgeInv`: a bridge that is up has a
  lifecycle, and only a window that is being read or is ready has one.
- `WindowIsAlwaysFollowed` (`WindowIsFollowed`). `Shape` says which handler each item of the
  queue belongs to, that the drain loop waits for one item at most, and that a delivery
  stands directly after its activation. `OrderInv`: unless a report overtook, only
  earlier documents are retired. `SteadyInv`: in a window that was never connected
  again the record and the manager name the same thread, and no report is ahead of the
  watcher. `WindowInv`: the record names the thread that the page shows, or a load,
  a report, a recovery or an activation of that thread, which no other activation
  follows, is on its way.
- `CardIsAlwaysCurrent` (`CardIsCurrent`). `EntryInv`: what the record calls delivered is
  what bridge and page hold, unless a disconnection is on its way. `FreshInv`: each view
  on its way is the latest of its thread, or the latest waits behind it. `ReadingInv`:
  the lifecycle of a window that is being read is not retired, unless a recovery is queued.
  `CardInv`: the delivered view is the latest, or something that brings it is under way.

### Updates (`UpdateCoordinator_proofs`)

- `UpdatesAreTyped` (`TypeOK`). Operation numbers are taken from a bound, so the
  invariant counts the starts that are asked for or being served with those used
  (`BudgetInv`); an update in progress names its release (`ReleaseInv`).
- `VerdictIsItsOwnAlways` (`VerdictIsItsOwn`): a worker that is about to say "succeeded" has
  installed its release, and every other step is `Harmless` (the record fails, is begun
  anew, removed or stays).
- `NewCodexIsSpared` (`NewCodexIsLeftAlone`): `BeganInv` says that what a restart worker
  closes is the Codex its operation began under, however late it comes.
- `ActivationIsAlwaysEarned` (`ActivationIsEarned`).
- `UpdatesAreDriven` (`EveryUpdateIsDriven`): `DrivenInv` gives, for each phase, what will
  move it, the time between taking the record and submitting the worker (`Submitting`)
  included, in which there is neither a timer nor a background update. It excepts, as
  the property does, what `overlapped` and `dropped` name.

### Only model-checked

Liveness (`QueueGoesOn`, `AttemptsEnd`, `NoneIsKeptOut`, `DrainRests`, `QueuesRest`, `UpdateEnds`,
`RestartEnds`), which the prover does not handle, and the properties that the five
`violation` runs refute (of these `MutualExclusion` is proved where clocks keep within the
tolerance).

### What the proofs changed in the models

A proof that failed for a good reason was followed to the code.

- `GoalEventStore.Matches`, `Repeats`: a command's retry is recognised by its content, not by
  the schema version of the event it became, so also when an earlier release carried it
  out. The instance had no such request; it has one now.
- `GoalProgress.IsChecklist`: a target has one owner, which the form of the ids gives
  (an item's id extends its objective's). Without it the schema's sums and the
  computation's could differ.
- `UpdateCoordinator.TimerFires`: the timer fires at its time whatever the record has become.
  The model had it wait for a pending record, which the delayed clean-up of the
  operation before may have removed.
- `UpdateCoordinator.RestartOutcome`: two of its cases overlapped.
- `NewCodexIsLeftAlone` speaks of the Codex that the worker's own operation began under
  (`began`), so also of a worker whose record was replaced meanwhile.

## 5. Findings

1. `GoalProgressStepBack`: `persistMigrated` appends an event that it has not
   reduced, stamped with the wall clock. If that clock is behind the stored
   contract's `updatedAt`, every later load fails with `EVENT_LOG_CORRUPT`.
   `replace` and `apply` check this before they append.
2. `EventStoreStranded`: a load makes a snapshot durable from a log line that may
   never have been synced. After a loss of power the snapshot may be there without
   the log, and the session is refused (`EVENT_LOG_MISSING`) from then on.
3. `HelperLockClock`: setting the clock by more than five seconds lets a second
   process take the lock from a live owner (Linux).
4. `GoalSessionReplaced`: an initialization decides from the overlay it read first
   whether the record may be replaced. If the record is taken up again before the store
   is called, an active task is overwritten, recorded as having been detached.
5. `RendererDeliveryDetached`: a detach by the user does not reach the publisher. When
   the window leaves the thread and returns, the card shows it as tracked again.

`PROJECT.json` quotes the lines of the documentation each one contradicts.

## 6. Limits of the models

- A failed sync may leave clean pages that a later sync does not write again; the
  models assume that a later successful sync covers what was written before.
- `EventStore` has one process. That two never write the same directory is what
  `HelperLock` is about; the two are not composed.
- A temporary file that a crash leaves behind is unlinked by a later load or
  acquisition; it is never read, and left out.
- On macOS the lock asks `ps` for the start time, to the second, and treats an
  unreadable process as current; the model has the Linux judgement, in which
  identities are always readable or the owner gone. A process whose uptime lags the
  system's by more than the tolerance (it was suspended) is among the model's steps
  (`Sleep`); `OwnIdentityIsCurrent` is checked for a lag within the tolerance.
- Pids are not reused in the model: a reused pid with another start or executable
  is judged gone, as a dead process is.
- `GoalSession`: one thread; Codex answers truly at the moment it is asked, or not at all (usage
  figures are left out); UI preferences, polling modes, v1 contracts and request
  keys are left out, so a repeated request is a new one; a delivery succeeds or fails in
  `RendererDelivery`, not here. The code publishes what a handler wrote or read some awaits
  ago, so the view offered last may be older than the contract stored: that is what
  the code does with concurrent requests, and `LoneReadIsExact` is stated for a request
  served alone. `UserDetachIsKept` is stated for a detach with nothing else in flight;
  with another handler under way either may come last. Two things the code does are in
  the model and outside its properties. If a read of Codex fails or is stale, the stored
  contract is published as it is and may be active for a Goal that is gone
  (`ActiveViewWasCurrent` asks for an answer). And the hook `NativeGoalCompleted` marks
  the stored contract complete without asking which Goal Codex has (`host/index.ts:1604`),
  so `NoProgressOnAnotherGoal` speaks of what clients send.
- `RendererDelivery`: one window; the legacy sink without targets, preferences, other
  intents, the update state's transport, a CDP call that fails halfway, the bound of
  sixteen retired lifecycles and the reconnection after a startup handoff are left
  out, and how long the page keeps a card whose thread it cannot name is a free choice (`Fits`).
  Three history variables name what the code does not promise: `overtaken`, a report
  taken for news although a later document had reported (only lifecycles that were seen
  are retired); `renewed`, a window that was connected again (its thread is read once,
  and the publisher may already have another); `shut`, threads whose card was closed
  (`DetachedIsNotShown` is about those).
- `UpdateCoordinator`: delivery by a plugin marketplace, open-release and restart-later,
  files that are invalid, unreadable or locked are left out; the coordinator's cached
  state is its file. Two histories name what the properties exclude. `overlapped`: the
  answer to a check is written over whatever the state has become, also over an update
  that was begun meanwhile. `dropped`: a retry that comes after the failed phase was
  written and before `#operationPromise` is cleared (`host/update-coordinator.ts:589`) is
  answered as accepted, its start is dropped, and the state stays at "preparing", with no
  timer, until the Helper starts again or something else reconciles. `RestartEnds` is stated for one restart request at
  a time: a second one, made while the first is being carried out, clears the timer
  of the first. A check that a crash interrupts stays at "checking" until the next check.
- Not modelled, with the reason at each component in `PROJECT.json`: MCP and hooks (one
  request per call), the renderer (presentation), the startup listener (process control),
  the installers' file work, `runtime/source` (a packaged copy of the packages, at places
  older than they are). That copy, the page's document handling and the installers
  are more than half of the repository's lines, and no state machine is in them that the
  modules above do not have: the share of lines that are mapped stays low for that reason.
  Three things that could be modelled and are not: the request bounds of the IPC
  server (its clients send one request per connection), the replay cache of the
  coordinator (one map, forgetting after 60 seconds or 1024 entries), and the
  supervisor's transport of preferences over a new connection.

## 7. What comes next

The modules were built in the order of importance: contract and replay; store and
its ledger; lock; handlers and drain loop (`GoalSession`); delivery to the window
(`RendererDelivery`); updates (`UpdateCoordinator`). What would add most from here:

1. Lock and store composed as Claude's task service uses them, one lock per request,
   with the status line reading without it.
2. Several windows in `RendererDelivery`, and the reconnection after a startup handoff.
3. `IpcConnection`: handshake, bounds and the client's deadline, with the replay
   cache of the coordinator behind it.
