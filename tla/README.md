# PrintStream in TLA+

This directory is a verification development of the PrintStream server: TLA+
modules translated from the source under `src/`, TLC configurations that check
them on small instances, and theorems that the TLAPS proof system checks for every
value of the constants. `PROJECT.json` maps every definition to the lines it
stands for.

It starts with the part of the system where a mistake moves a machine: the print
dispatcher, its durable journal, and what happens to both across a crash. The second
part is slicing: the scheduler of the slicer's slots and the jobs that compete for them.
The third is what feeds the dispatcher and what carries it out: the print queue with the
plate guard, and the sessions between the server and a bridge with the arbitration of a
printer between file transfers and its camera. The last is what the server takes a printer to
be: its row, its entry in the printer manager, and what its bridge reports of it.

## The system

PrintStream is a TypeScript monorepo. A server (`apps/api`: Express, Prisma on
PostgreSQL) owns all state. A bridge (`apps/bridge`, `packages/bridge-runtime`)
runs on the customer's LAN, keeps one outbound session to the server and talks
MQTT, FTPS and camera TLS to the printers. A slicer service (`apps/slicer`) wraps
a command-line slicer. The web client (`apps/web`) holds no authoritative state.

The server is one Node.js process: code between two `await`s is atomic, and every
`await` is a point where anything else may happen. The components that keep state
across such points are the ones worth a model.

| Component | State it keeps | Operations | What makes it hard | What makes it correct |
|---|---|---|---|---|
| Print dispatcher (`print-dispatcher.ts`) | job list, reservations, a promise chain per printer, cancellation flags | submit, run (prepare, upload with retries, mark, reserve, publish), cancel, retry, prune, stop | a submission holds awaits between its check and its listing; cancellations and shutdown race a run; remote names are shared | one active dispatch per printer, serialized runs, a start published at most once and from its own bytes, final outcomes, every dispatch finishes |
| Dispatch journal (`dispatch-journal.ts`) | `DispatchJob` rows, a chain of pending writes per dispatch | insert, status update, start mark, boot reconcile, sweep queries | fire-and-forget writes can be lost, and a rejected write may have committed | the start boundary is durable before a start is published; rows follow the dispatcher |
| Dispatch reconcile (`dispatch-reconcile.ts`) | swept printers | boot reconcile, sweep of a printer's SD card | start-up does not wait for it; it runs beside new dispatches | it writes off and cleans up only what never started |
| Printer manager (`printer-manager.ts`, `printer-command-replies.ts`, `bridge-assignment-recovery.ts`, `printer-discovery.ts`, `printer-discovery-reconcile.ts`) | an entry per managed printer with its bridge, whether it is online and its stage; offline grace timers; commands whose replies are waited for; the printers' rows, which others write and then tell it of | start, add, update, remove; reports, offline notices and hints from bridges; the end of a session; recovery of orphaned printers, host refresh; commands with a reply | rows are written awaits before the manager is told, and read awaits before they are written; messages of replaced sessions; a timer that outlives its cause; numbers that begin again | the manager has the printer when and for whom its row says; an outage shows; a print's end is announced once, when it has ended; a reply answers its own request |
| Print job recorder (`print-job-recorder.ts`) | active and superseded job per printer, history rows | reserve, start, fail, cancel, finish, adopt after a restart | reads its maps before and writes them after awaits | one open row per printer, a result is written once |
| Slicing scheduler (`slicing-execution-scheduler.ts`) | waiting and active tickets, starts per anonymous actor | enqueue, cancel, complete, pump | start callbacks re-enter the scheduler | capacity, the reserved workspace slot, no idle slot beside runnable work |
| Slicing jobs (`slicing-jobs.ts`, `slicer-contact.ts`, `slice-cache.ts`) | jobs and their persisted copy | enqueue, cache probe, run, cancel, retry, delete, hydrate | retry while the failed run tears down; the watchdog's abort shares the cancel path; debounced persistence | a queued job always has a place; only what a user cancelled is cancelled; no orphaned output |
| Print queue plugin (`plugins/print-queue`) | queue items with status and linkage | claim, dispatch, completion on printer events, requeue | linkage is written after the dispatch was accepted; counts are read-modify-write | an item has one live print at a time, every copy counts once, and no item is stranded under way, short of the mishaps listed below |
| Plate clearing plugin (`plugins/plate-clearing`) | a flag per printer and its cache | finish, clear, needs-clear, guard | the guard reads a cache refreshed after awaits | no print is accepted onto a plate whose print has ended on record |
| Bridge sessions (`bridge-session-manager.ts`, `bridge-session-server.ts`, `runtime.ts` of the bridge) | on the server the registered session per bridge, pending calls, camera listeners, an FTPS flag per printer; on the bridge the printers it was given, who wants frames, the calls it works on | hello, register, replace, unregister, call, answer, cancel, timeout, watch, config sync | a bridge reconnects before the server has seen its old socket die; authentication takes a while; messages are lost with their socket | every call and listener hears of the end of its session; a stale close never tears a newer session down; the bridge streams for those who listen, and works only for calls somebody waits for |
| Transport arbitration (`printer-transport-arbitration.ts`, `camera.ts`) | FTPS counts and waiters per printer, a camera pump per printer | begin, end, wait, abort; start, stop, pump | counts rise again before a waiter runs; a read of a frame is not aborted | no camera connection is opened, and no read of one begun, during a transfer (a read that had begun keeps its connection); one live pump, and the one that can be stopped |
| Delete operations (`delete-operation-dispatcher.ts`) | keyed queues of deletions | enqueue, run | row deleted before bytes; nothing persisted | keyed order, a failure does not block the queue |

They interact as follows. A request enters the dispatcher, which asks the print
guards (plate clearing), copies the file and lists a job. The job's run uploads
over FTPS through a bridge RPC, awaits the journal's start mark, reserves a history
row in the recorder, and publishes the start through the printer manager and the
bridge session. The printer's reports come back through the bridge session and the
printer manager as events that the recorder, the queue, plate clearing and the
sweep of the reconcile listen to.

`PROJECT.json` lists every component with its status and, under `hazards`, what in
this code a test would hardly reach, at its line.

## The modules

| Module | Models |
|---|---|
| `DispatchJournal` | `dispatch-journal.ts` and the `DispatchJob` table: `row[j]` is the committed row, `chain[j]` the writes not settled yet. `CommitHead` and `DropHead` settle one; `ReconciledRows`, `InterruptedAmong` and `RowsWithout` are the recovery queries. |
| `PrintDispatcher` | `print-dispatcher.ts` in one life of the server. EXTENDS the journal. |
| `StartBoundary` | The abstract contract the comments call *rob-1*: a start only past a durable boundary, and a started dispatch never written off. No queue, upload or crash in it. |
| `DispatchRecovery` | `dispatch-reconcile.ts`, crashes and restarts around `PrintDispatcher`. Its `Boundary` instance maps rows to the stages of `StartBoundary`. |
| `SlotPool` | The abstract contract between the scheduler and the owners of tickets: a call takes effect at once and serves all that fits, the better rank first. |
| `SlicingScheduler` | `slicing-execution-scheduler.ts`, on its own. |
| `SchedulerCalls` | The scheduler as the jobs use it, without calls from callbacks. Its `Pool` instance shows a call of the scheduler as one step of `SlotPool`. EXTENDS `SlicingScheduler`. |
| `SlicingJobs` | `slicing-jobs.ts` across restarts, with the scheduler reduced to what `SlotPool` promises. Its `Pool` instance shows the jobs' steps as calls. |
| `PlateClearing` | The plate-clearing plugin: settings row, the cache the print guard reads, and who writes them. |
| `PrintQueue` | The print-queue plugin with dispatcher and recorder reduced to what it sees of them. EXTENDS `PlateClearing`, whose guard decides what is accepted and whose plates the prints end on. |
| `CameraTransport` | `printer-transport-arbitration.ts` and the camera pumps of the bridge, for one printer. |
| `BridgeSessions` | Both ends of the sessions of one bridge with what is under way between them. EXTENDS `CameraTransport`: what the bridge is told starts and stops pumps, and transfers are announced to the server. |
| `PrinterPresence` | The printer manager's entry of one printer: what it is given, what it hears, and the grace timer. |
| `PrinterManager` | The printer's row with the requests and tasks that write it, the start of the server, and the sessions that carry reports. EXTENDS `PrinterPresence`, whose operations all of them call. |
| `PrinterCommands` | Commands to one printer whose replies are waited for, in `printer-manager.ts` and `printer-command-replies.ts`. |
| `MCPrintDispatcher`, `MCDispatchRecovery`, `MCSlicingScheduler`, `MCSlicingJobs`, `MCPrintQueue`, `MCBridgeSessions`, `MCPrinterManager` | Instances for TLC. |
| `PrintDispatcherProofs`, `DispatchOutcomeProofs`, `DispatchRecoveryProofs`, `SlicingSchedulerProofs`, `SlicingJobsProofs`, `PrintQueueProofs`, `BridgeSessionsProofs`, `PrinterProofs` | Theorems and proofs. |

### How `PrintDispatcher` corresponds to the code

An action is the code between two awaits, and takes the outcome of the awaited
call into itself. `pc[j]` names the await a dispatch is at:

| `pc[j]` | The await | Left by |
|---|---|---|
| `preparing` | replica copy and parse in `enqueueSnapshotPrint` | `PrepareDone`, `PrepareFails` |
| `artifact` | `preparePrintArtifact` | `ArtifactReady`, `ArtifactFails` |
| `transfer`, `backoff` | one FTPS upload, the delay before the next | `UploadDone`, `UploadFails`, `BackoffEnds` |
| `marking` | `markDispatchStartAttempted` | `MarkCommits`, `MarkRejects` |
| `reserving` | source registration and the history row of `startTrackedPrintJob` | `Publish`, `PublishRefused`, `ReserveFails` |
| `failRecord` | `failTrackedPrintJobStart` | `StartFailed` |
| `cleanup`, `record` | `cleanupUploadedArtifact`, `cancelTrackedPrintJobRecord` after a completed upload | `CleanUp`, `RecordCancelled`, `RecordFails` |
| `cleanupCaught`, `recordCaught` | the same two in the catch branch | `CleanUp`, `RecordCancelled` |

`queue[p]` is the promise chain of printer `p`, oldest run first; a run begins when
it is at the head (`StartRun`) and leaves it when `runJob` settles (`EndRun`).
`cancel()` of an idle dispatch awaits the history row before it finishes the job, so
`idleCancels[j]` counts the requests in that await, and `IdleCancelDone` finishes the
job whatever its status has become. `retry()` is `Retry`: no reservation and no
check, as in the code. `Shutdown`, `StopVisit` and `StopCancelDone` are the signal
handler and the loop of `stop()`; jobs the loop meets in whatever order the model
leaves open.

The journal calls append to `chain[j]` in the step that makes them, and the database
answers in `JournalSettles`: a best-effort write commits or is lost. `MarkRejects`
leaves open whether the rejected mark reached the row.

`sd[p][f]` says whose bytes are under remote name `f`. A failed transfer or an
ignored deletion failure is a choice between the card before and after.
`published` and `lossy` record what happened, for the properties; no guard reads
them.

### How `DispatchRecovery` corresponds to the code

`Crash` can come between any two steps: it keeps rows, card and printer and loses
everything else, the writes in flight included. `Boot` does not wait for
`BootReconcile` (`index.ts` line 134), so a dispatch of the new life may be written
off by its own boot reconcile; `raced` records those, because two properties make
an exception for them. `SweepStart` ... `SweepDrop` are the four pieces of
`sweepInterruptedUploads`, and each may do nothing where the code swallows an error.
`live[p]` is the print the printer is busy with; a published start may also be lost
on the way.

### How `SlicingScheduler` corresponds to the code

The scheduler never awaits, but `pump()` calls the owner's `start()` and that may call
the scheduler. The stack then alternates loops of `pump()` and callbacks, so `pumps`
(loops on the stack) and `calling` (a callback is on top of them) say where control
is. `Claim` is an iteration up to the call, `StartReturns` and `PumpReturns` are the
returns; `Enqueue`, `Cancel` and `Complete` are possible at the bottom of the stack
and in a callback (`OwnerRuns`). `active` and `waiting` are the two maps;
`starts[c]` is the count of caller `c`, 0 when it has none. Tickets of equal rank come
in insertion order in the code and in any order in the model. Callers that send no
key are never counted and share the rank of callers without starts.

### How `SlicingJobs` corresponds to the code

`run[j]` names the await that `run()` is at, the awaits of `runSlicerJob()` included:

| `run[j]` | The await | Left by |
|---|---|---|
| `preparing`, `slicing` | the preparation of the project, the slicer's answer | `Prepared`, `Sliced`, `SliceFails` |
| `staging` | the copy of the sliced project and the clean-up of `runSlicerJob` | `Staged` |
| `collecting`, `embedding` | the end of the watch and the slicer's identity, the plate thumbnails | `Collected`, `Embedded` |
| `persisting`, `preserving` | `persistArtifact`, then project, cache entry and cover | `Persisted`, `PersistFails`, `Preserved` |
| `failing`, `failingSave` | the cover in the catch branch, with and without the watchdog | `Failed` |
| `leaving` | the finally branch up to the release of the slot | `Leave` |

`lookup[j]` is where `resolveCachedResult()` is, which holds no slot. `aborted[j]` is the
signal that a cancellation and the watchdog share, `lost[j]` that the watchdog has given
its reason. `stored[j]` is what became of the file made for the job: attached, handed to
`discardHiddenSlicedOutput`, or `stray` when a crash lost the job's knowledge of it (the
library's clean-up of hidden outputs is left to find it).

`PumpQueue` is `pumpQueue()` with every claim its scheduler calls make: the start callbacks
only begin a run, so they never re-enter the scheduler. `Claims` is what `SlotPool` lets a call
serve, as many tickets as there are slots, with the order left open. Both sides of that contract
are refinements: `ImplementsPool` of the jobs, whose steps make at most one call (`Leave` of a job
retried meanwhile completes and enqueues, which the pool has as `Renew`), and `ServesAsPool` of
`SchedulerCalls`, which maps the pool to what the call under way found until it returns (`before`). `cancelForOwner()` is a sequence of `Cancel`
steps. `Persist` may come any time after a change, so `Restart` meets a state file of any
age; a write that fails is one that has not come yet.

### How `PrintQueue` and `PlateClearing` correspond to the code

Requests, edits and event handlers are each a small machine whose steps are the code
between two database calls:

| Machine | Steps |
|---|---|
| `request[r]`, a dispatch of one item (or of each item of a sweep over the idle printers) | `ReadForDispatch` reads the row and finds an idle printer; `Claim` is the conditional update to `dispatching`; `Accept` or `Refuse` is the answer of the dispatcher, with the rollback of the claim; `Link` writes the linkage; `RequestFails` is a claim, a rollback or a linkage that rejects |
| `edit[e]`, hold, resume and requeue | `ReadForEdit` checks the status that was read, `WriteEdit` writes by id alone |
| `started[d]`, `finished[d]`, the handlers of the recorder's events | `FindStarted`, `FindFinished` are the queries of `findItemForJob`, by the linked print and else by printer and name; `WriteStarted`, `WriteFinished` write what they found; `StartedFails`, `FinishedFails` are handlers that reject, or events the recorder could not announce |
| `writes[w]`, the plate | `PlateFinished`, `ClearPlate`, `NeedsClear` begin one, `SetCleared` writes the settings row, `RefreshCache` stores what was read back; `WriteFails` is either of them rejecting, with or without the row written |

`print[d]` is an attempt to print an item, as the dispatcher and the recorder make it known:

* `Begin` and `End` are the published start and the end of the print;
* `Fail` is a dispatch that fails before it has a history row (preparation, upload, start mark,
  reservation). Nobody is told;
* `Withdraw` is one that is cancelled, or whose start is refused by the printer's connection. Its
  history row, created for the purpose if there is none (`cancelTrackedPrintJobRecord`), is closed,
  `print-job.finished` is emitted and the item becomes `failed`;
* `TakeUp` is the retry or the cancellation of a dispatch that had failed in silence: the same
  attempt, of which nothing was announced. `TakeUpAgain` is the same after a refused start, whose
  end was announced: a new attempt `e` of the same dispatch job (`print[e].job`). Neither asks the
  queue row or a print guard, as `retry()` does not.

The dispatcher takes one active dispatch of a printer at a time from requests, which is what
`OneActiveUnlessRetried` says of it. `Crash` loses requests, handlers, writes, the dispatcher's list
and what had not reached a printer. Handlers of events are not awaited by whoever emits them, so they
run in any order.

Ghosts name the exceptions that the properties make; no guard reads them, and the code repairs none
of these:

| Ghost | What happened | Exempt from |
|---|---|---|
| `raced` | an edit was written to the item whose check had become stale | all three properties of items |
| `revisited` | a dispatch of the item was retried or cancelled after its end had been announced | all three |
| `mistaken` | `findItemForJob` found the item, by name, for a print of another one | all three |
| `upset` | a dispatch of the item failed in silence; an event of its print was looked up before the linkage was there, or out of order, or its end credited to another item; the claim, rollback, linkage or finish of its print rejected; the server died | `NotStranded` |
| `unsure` | the latest writes of a plate met, or one was cut short by a restart or rejected; a write that then runs alone clears it | `CacheFollowsRow`, `PlateGuarded` |

### How `BridgeSessions` and `CameraTransport` correspond to the code

A socket has two ends, `sock[s]` on the server and `client[s]` on the bridge, and each learns
of the other's close in a step of its own (`ServerClose`, `BridgeClose`). `down[s]` and `up[s]`
are the messages under way, delivered in order and dropped with the end that closes; a send
on a dead socket is lost without a word, as `socket.send` is. `Connect`, `ReceiveHello`,
`AuthDone`, `AuthFails` and `HelloTimeout` are the handshake; `AuthDone` is
`registerConnection`, which asks neither whether its socket still lives nor what the replaced
session leaves behind. `Unregister` is what a session takes with it. The rest are the message
handlers of the two ends, one action each, and the calls of the server that send.

`rpc[r]` is what the server knows of a call and `work[r]` what the bridge does for it: a
cancellation and a timeout are both `Withdraw`. `SyncPrinters` is `syncBridgePrinterConfig`: the
printers are read, and what was read goes to whichever session is registered then, so the two kinds
of config, with the printer and without it, may come in any order and at any time. `ReceiveConfig`
is `reconcileConfiguredPrinters`: it forgets all printers and their FTPS subscriptions without a
word to the server, then subscribes to those of the config, announces a transfer that is active,
and restarts every camera stream.

In `CameraTransport`, `pump[k]` is where `pumpCameraFrames` is; `controller` is the printer's
entry in `cameraControllers` and `stopped` the pumps whose controller was aborted but which
still hold a read. `BeginTransfer` and `EndTransfer` notify synchronously, but who waited
runs later (`resuming`), when another transfer may have begun.

`carried`, `staleFlag`, `lapsed`, `late` and `cut` are ghosts, for the exceptions that properties
make: listeners of a replaced session, an FTPS flag set by another session, a printer taken from the
bridge during a transfer with nothing announced since, sockets registered after they had closed, and
calls given up when no cancel could reach the bridge.

### How `PrinterPresence` and `PrinterManager` correspond to the code

Everything that changes the printer's row and then tells the manager is a small machine in
`op[o]`, whose steps are the code between two database calls:

| `op[o].kind` | Steps |
|---|---|
| `start` | `begun`: requests are served while start-up has not come to `printerManager.start()` (`index.ts` line 163); `StartRead` reads the rows, `StartApply` connects what was read |
| `edit` | `EditWrite` is the write of `POST` and `PATCH`, `EditApply` the call of `add` or `update` |
| `delete` | `DeleteWrite`, and `DeleteApply` after the slot materials are gone |
| `detach` | a bridge is removed from its workspace: `DetachRead`, `DetachWrite` (the transaction), `DetachApply` for those that were read |
| `recover` | `RecoverRead`; `RecoverCheck` is the filter of `recoverBridgePrinterAssignments`, which asks for sessions and discoveries as they are now and rows as they were read; `RecoverWrite` gives the bridge what passed, and `RecoverApply` tells the manager |
| `refresh` | `RefreshWrite` writes the new host, `RefreshApply` calls `update` without a bridge, as the code does |

`Fail` ends any of them where it is, as a rejected database call does: `setManualPrinterStats` after
the row was edited (`routes/printers.ts` line 238), `removePrinterSlotMaterials` after it was deleted
(line 282), the rows of the start, which is logged and leaves a server without printers (`index.ts`
line 162). What was written stays and the manager is not told.

`Restart` drops them all and begins with an empty manager. `Update(b, fresh)` is `add` and
`update`: `fresh` says that host, access code or serial differ from the entry's. An operation
that hands over a row it read earlier may have older fields than the entry, or newer ones when an
edit had failed before it told the manager.

`session[b]` is the entry of `BridgeSessionManager`; `hollow` is one whose socket had closed
before it was registered, which `BridgeSessions` shows to happen and which nothing ends but a
newer one. `wire[b]` is what is under way on its socket, `left[b]` on the one it replaced:
`handleAuthenticatedMessage` does not ask which socket a message came on. `known` is who has
discovered the printer (`entriesByBridge`), `recalls` who is about to recover printers.
`SessionEnds` is the close handler with `clearBridge` and `markBridgeDisconnected`. `Sight` is
`setBridgePrinters`: a new or changed host is refreshed unless that is under way, another
sighting is a hint, which the cooldown may suppress.

`timer` says that the grace timer is armed, for whichever bridge it was. `overlapped` says that an
operation began while another was under way, since the last edit, deletion or restart that met
none; `adrift` that a refresh took the bridge from the manager's entry; `cutShort` that an operation failed
that was to tell the manager of the row, which none has done since; `disordered` and
`unbacked` are explained at their declarations. No guard reads any of these.

In `PrinterCommands`, `Ask` is `publishCommandWithSequence` with the wait that follows or, for a
calibration, precedes it; `Hear` is what `ingestBridgeReport` does with a reply. `Renew` is a
new entry, with its numbers from zero; `Offline` and `RequestTimeout` reject who waits.

## Runs

The runs of the dispatcher use one printer: dispatches of different printers share no state in the
dispatcher, and within one printer they share all of it. Two dispatches are enough
for every pairwise race the properties speak of (a run, a submission and a
cancellation of each). Deadlock checking is off in all runs but those of the slicing
scheduler and the printer manager: a server without requests has nothing to do. The type invariants
are left to the theorems, which have them for every value of the constants.

| Run | Instance | Shows |
|---|---|---|
| `dispatcher_core` | 2 dispatches, one file, 1 retry and 1 cancel each, 2 pending writes | nothing stranded, write-ahead mark, one active unless retried, serialized runs, journal agreement, one start per dispatch, final outcomes, own bytes |
| `dispatcher_finish` | 2 dispatches, 2 upload attempts, no retries by users, 1 cancel each, shutdown, 1 finished dispatch kept, fair | the first dispatch always lets the second run, and both come to an end |
| `dispatcher_retry` | 1 retry, 1 cancel | violated: see below |
| `recovery` | 2 dispatches with files of their own, 1 cancel, 1 crash | started dispatches are never written off, the file of a live print is kept, refinement of `StartBoundary` (and with it the write-ahead mark) |
| `recovery_sweep` | as `recovery`, one shared file name | violated: see below |
| `slicing_scheduler` | 8 tickets of all tiers and two anonymous callers, 2 slots, 1 of them open to anonymous work, fair | slots and cap hold, no idle slot beside runnable work, the counts of callers follow their tickets, the oldest paid ticket is served |
| `slicing_jobs` | 2 jobs, 1 slot, room for 1 queued job, 1 retry each, 1 restart, fair | a place for every queued job, slots match runs, files accounted for, the queue's limit, cancellations honoured, outcomes stay, refinement of `SlotPool`, every job ends |
| `slicing_lost` | 2 jobs, no retry, no restart | violated: see below |
| `queue` | 1 unpinned item of 2 copies, 2 requests, 1 edit, 2 attempts, 1 plate request, 1 disturbance | one live print per item, copies counted once, nothing stranded, the plate guard and its cache |
| `bridge` | 2 sockets, 2 viewers, 1 call, 2 pumps, 1 message down, 1 up | what goes with a session, stale sockets disturb nothing, frames follow listeners, the FTPS flag, aborted work, the camera's arbitration |
| `printer_rows` | 2 bridges, 3 operations with the start of the server, each of which may fail, sightings | the manager follows the row, recoveries take orphans |
| `printer_heard` | 1 bridge, 2 operations, 1 print, all messages, 1 under way on each socket, fair | outages are noticed and shown, no end of a print is announced that was none |

Bounds: `MaxUploadAttempts` is the code's constant made small, so that the last
attempt and one before it exist; `KeptFinished` likewise, so that pruning happens;
`MaxRetries`, `MaxCancels` and `MaxShutdowns` bound what users and operators do, in
the guards of `Retry`, `Cancel` and `Shutdown`; `MaxCrashes` bounds `Crash`. One
crash reaches every state a restart can find; a second life that crashes again
meets the same rows. `dispatcher_core` does not go on from a state in which more than two
writes of one dispatch wait for the database (`MCFewPending`): two let a write be overtaken
by the dispatcher and be followed by another; `dispatcher_finish` and `recovery` have no such
bound, nor have the theorems. In `slicing_scheduler` four paid tickets are what it takes to
keep both slots and the queue busy without the oldest; `MaxDepth` lets a callback of a
callback's loop call again; `MaxStarts` bounds how often a caller comes back, in the
guard of `Enqueue`. In the runs of the jobs one slot makes the second job wait, and the
second job is who claims the slot that a retried job's failed run releases; with room for
one queued job the limit is reached; `MaxRestarts` bounds `Restart`, and one suffices
because a second one meets a state file of the same shape.

In the queue, items only meet through a name they share on a printer, by which
`findItemForJob` may take one for the other, and then both are exempt from most of what is said;
one item shows everything else. The theorems have any number of items and nothing is assumed of their
names. Two requests and an edit are one more than two actors, two attempts
let the events of one meet the next. `MaxDisturbances` bounds edits, removals, retries of the
dispatcher, failing calls, crashes and plate requests together, in the guards of those actions: each
of them may come at any moment, and one is enough for every exception to be needed but `mistaken`,
which takes a second item. `Prints` is the bound on attempts. Two disturbances, three attempts with
one request, and two items of one name were each explored to the end too, with the same result;
they have millions of states and are not kept as runs.

`MaxSockets` bounds how often the bridge connects: two sockets are an old and a new session,
and what the server still holds of the old one. `MaxDown` and `MaxUp` bound what waits on the way
down and up (a config is answered with one more). With one message down, requests, cancels, configs
and subscriptions still cross with what is under way upwards and with the end of the socket; an
instance with two, three million states, was explored to the end and the theorems hold for every
bound. Two pumps are
one on its way out and its successor. A full queue delays a sender, which no property of
`bridge` depends on, and the theorems hold for every bound.

`Ops` bounds requests, recoveries, refreshes, starts and restarts together: three are the start
and two that overlap, or a start, an overlap and the edit that ends it. `printer_rows` has two
bridges, without which there is nothing to recover, and only sightings, since the row does not
depend on other messages; `printer_heard` has the other messages and one bridge. `MaxWire` and
`MaxLeft` of one put a message on the session and one on the session it replaced, which is what
reordering takes; `MaxPrints` of one lets an end be announced twice or too early.

Safety runs use the symmetry of dispatches, jobs, requests, viewers, pumps, operations and
bridges, liveness runs do not.

Fairness (`DispatcherFairness`): each await of the server ends, because RPCs and the
database client time out and backoffs are timers. Nothing is assumed of users,
printers or shutdowns. In `FairSchedulerSpec` synchronous code runs to its end, and a
running slice completes: its runtime is bounded by the jobs' watchdog. Its fairness is
strong because completing waits for the stack to unwind, again and again. In
`SlicingFairSpec` every await of a run or a lookup ends: requests to the slicer have a
timeout and a watchdog, bridge calls time out, the rest is local. Users, the watchdog,
the state file and restarts are not assumed to do anything. In `ManagerFairSpec` the grace timer
expires if it stays armed, and nothing else is assumed: bridges need not return and operations
need not end.

Each property of a passing run has a mutant, a broken variant of a definition kept
beside the original (`Mutant of ...`), under which the same run finds the property
violated.

### Disagreements found

* `dispatcher_retry`: `retry()` bypasses the one-dispatch-per-printer check, so a
  retried dispatch can be active beside a newer one, and both print in turn.
* `recovery_sweep`: the sweep deletes by remote name. When another dispatch of the
  same file is being printed, its file is what the sweep removes, which the header of
  `dispatch-reconcile.ts` says can never happen.
* `slicing_lost`: the watchdog stays on while the answered slice is staged. If its
  grace runs out there, the complete slice is thrown away and reported as "Slicing
  cancelled", which the catch branch of `run()` and a test say must not happen to a
  user who cancelled nothing; only that branch looks at `lostReason`.

Others appear in the models as exceptions that properties make, and have no run of their own:

* Dispatches that fail without an event (`Fail`, `upset` in `NotStranded`): one that fails before it
  has a history row emits none, so its queue item stays `dispatching`, where it can be neither
  dispatched nor requeued nor edited; removing it is left, or the retry or cancellation of the
  dispatch itself, which do emit one. The plugin says that failures surface for manual requeueing.
  A dispatch that is cancelled has its row created if need be, and its item becomes `failed`.
* Dispatches taken up again (`revisited`): a refused start or a cancellation gives the item back to
  its users while the refused dispatch can still be retried. A retry then runs beside, or before, a
  new dispatch of the item: two live prints of one item, or a `failed` item whose print is alive.
* A retry onto an occupied plate: the header of the plate-clearing plugin says that prints are
  gated until the plate is confirmed, but `retry()` asks no guard. `PlateGuarded` speaks of the
  requests' prints only.
* Items of one file and plate have one job name, and the same file may be queued any number of
  times. When a start was not seen, `findItemForJob` falls back to printer and name, and may move or
  credit the wrong item (`mistaken`).
* Rejected calls of the queue (`upset`): a rollback that fails leaves the row `dispatching`
  (`routes.ts` lines 334, 413); a linkage that fails after the dispatch was accepted has no rollback
  and leaves a row that no event matches (line 550); a handler that fails is logged and the row stays
  under way though its print is over (`completion.ts` line 102).
* Rejected writes of a plate (`unsure`): with the write or the read-back after the end of a print
  failing, the guard goes on saying that the plate is clear until the next write or a restart. The
  comment at `plate-clearing/index.ts` line 103 says that cache and row are out of sync then.
* A printer taken from its bridge in the middle of a transfer (`lapsed` in `FtpFlagFollows`): the
  bridge drops its subscription without announcing idle (`runtime.ts` line 769). If the printer is
  given back on the same session after the transfer ended, the server goes on taking it for busy
  until the next transfer ends.
* Requests that fail half way (`cutShort` in `RowFollowed`): a deleted printer stays in the manager, or
  an edited one keeps its old bridge, until a later request reaches the manager or the server
  restarts.
* Listeners of a replaced session (`carried` in `WatchFollowsListeners`): a session that replaces
  one whose socket was not seen closed inherits its camera listeners without asking the bridge
  for their frames. Nobody is called back, no frame comes, and a later viewer of the printer
  changes nothing, because only the first listener sends a request.
* A refreshed host (`adrift` in `RowFollowed`): the refresh calls `update` with the printer alone,
  and a missing bridge means none (`printer-discovery-reconcile.ts` line 71, `printer-manager.ts`
  line 136). The manager drops the bridge's reports and shows the printer offline until it is
  edited or the server restarts. The test of the refresh has a manager of its own, which ignores
  the bridge.
* Prints whose end is forgotten: `FinishesReal` says only that no end is announced too often. An
  edit of host, access code, serial or bridge makes the entry anew without its status
  (`printer-manager.ts` line 159); if the next report finds the print over, its end is never
  announced to the recorder, the queue and the plate plugin. `PrintQueue` has such a print as one
  that never ends, so its item stays `printing` and counts as attended, and its plate as not yet
  recorded.
* A timer that outlives its bridge: the grace timer belongs to the printer and is cancelled only
  by what the printer's bridge says of it. One armed by the old bridge takes the printer offline
  after it was assigned to another, whose session never went away, and shown online there by a
  hint.
* Replies to calibrations (`Hear` of `PrinterCommands`): `commandReplies.accept` is called in
  `handleMessage` only, which has no caller (`printer-manager.ts` line 480). The replies are never
  taken, so each automatic calibration times out.
* Numbers that begin again (`restarted` in `AnswersAreOwn`): with a new entry the numbers start
  from one, and the late reply to an old request can answer a new one of the same number.

`RowFollowed` and `RecoveryTakesOrphans` make an exception for operations that overlap, because
the code makes no promise then: a deletion whose row is gone can be followed by the `update` of an
edit or a recovery that read it before, and the manager has a printer without a row until the next
restart; and a bridge that reconnects between the filter and the write of a recovery loses its
printers to the other one.

One more: a cancellation that arrives after the upload, while
the start is being marked or reserved, is acknowledged and not honoured, although the header of
`print-dispatcher.ts` says that uploading jobs honour it before the start command. The dispatch
reads the flag before these two awaits and not after them; the model has the interleaving, and
`OutcomeIsFinal` and `StartedOnce` hold through it.

## Proofs

The theorems hold for all sets of dispatches, printers and files and all bounds,
under `ConstantsAssumption`, `NoRowAssumption`, `MaxCrashesAssumption`, for the
scheduler `SchedulerAssumption`, for the jobs `SlicingAssumption` (finitely many jobs,
at least one slot), for the queue `PlateAssumption` and `QueueAssumption` (finitely many
prints, quantities of at least one), for the bridge `PumpAssumption` and
`SessionAssumption`, and for the printer manager `BridgesAssumption` and `ManagerAssumption`.

`PrintDispatcherProofs` proves the inductive invariant

    IInv == TypeOK /\ QueueOK /\ RunOK /\ UnknownOK /\ MarkOK /\ BoundaryOK

* `QueueOK`: a dispatch is at most once in its printer's chain of runs, and in no other;
* `RunOK`: a run in progress is the head of its printer's chain and its dispatch is
  uploading, or cancelled by a late cancellation; a dispatch that does not exist, was
  sent, failed or lost has no run pending;
* `UnknownOK`: a dispatch whose request is not prepared yet is in no list and has no
  cancellations, retries or shutdown wait;
* `MarkOK`: a mark is pending only while its run awaits it, and nothing behind it in
  the chain clears it;
* `BoundaryOK`: past the boundary the row is missing or marked and no pending write
  clears it; a published dispatch is sent, cancelled or lost and has no run pending.

None of the properties is inductive alone: that a published row stays marked needs
that no re-arming write is pending behind the mark, which needs to know when
`retry()` can run, which needs the relation of status and run. Every action has a
lemma; the theorems combine them by temporal reasoning.

`DispatchOutcomeProofs` adds, on top of `IInv`, invariants for the reservation
(`OneInv`), for finished dispatches that were never retried (`FinalInv`), for
who wrote the bytes under a name while a run is past its upload (`OwnInv`), for what an
unfinished dispatch waits for (`StrandInv`) and for the
journal (`AgreeInv`, dispatch by dispatch). `JournalAgrees` speaks of empty chains only; `AgreeInv` says of every chain
what the row will say when it is through: the chain's last write about the status has the
dispatcher's status, or only marks are pending and the row has it already, and a missing row has
its INSERT at the front. A lemma for each kind of write carries this over an append and over a
commit, and every action is shown to write what it reports.

`StrandInv` is the safety core of `DispatchesFinish`: nobody polls, so an unfinished
dispatch that is in no chain stays unfinished for good.

    StrandInv == HasRunOK /\ FlagOK /\ MarkPendingOK

* `HasRunOK`: an active dispatch has a submission, a run or a place in a chain, or is being
  withdrawn by a cancellation or the shutdown;
* `FlagOK`: a queued dispatch is flagged for cancellation only while a cancellation that will
  come to its status is under way;
* `MarkPendingOK`: a run that waits for the mark has a mark among its pending writes.

`DispatchRecoveryProofs` shows that crashes, the boot reconcile and the sweeps keep
`IInv`, that every step maps to a step of `StartBoundary` or a stutter, that no write off meets a
started dispatch, and that the file of a running print stays. The last one needs

    FileInv == KnownOK /\ OffOK /\ TodoOK /\ LiveOK /\ KeptOK

* `KnownOK`: of a dispatch the running life does not know nothing is listed or pending, and of one
  that never existed there is no row;
* `OffOK`, `TodoOK`: a row that is written off, and so what a sweep is about to delete, belongs to a
  dispatch of an earlier life that never started, or to one this life's reconcile raced with;
* `LiveOK`: what a printer prints was published to it;
* `KeptOK`: from the end of its upload on, through its start and its print, a dispatch whose name
  is its own has its bytes on the card. A print is not enough to start with: a sweep between upload
  and start would take the file too.

The guarantees of one life are then carried across restarts. `LifeInv` joins `OneInv`, `FinalInv`
and `StrandInv`: a crash empties everything they speak of (`CrashKeepsLife`), and reconcile and
sweeps reach into rows and cards only (`OutsideFrame`), so the lemmas about one life apply to the
steps of every life. The journal needs more, because reconcile and sweeps do write rows:
`OrphansOK` says that a sweep deletes rows only of dispatches that ended with an earlier life or
raced with the reconcile, and `RowsAgree` keeps the agreement for all others. The exemption is needed in both
theorems that have it: a dispatch submitted while the boot reconcile runs can be written
off though it lives, and with a retry behind it a sweep can take its file before its start.

`SlicingSchedulerProofs` needs little beside the properties themselves: finite sets,
so that a claim adds exactly one to a cardinality, and `StartsOK`, that a counted caller
has a ticket, without which forgetting a caller could not be shown to be timely.
`NoIdleSlot` is inductive because the outermost loop can only return when it has
nothing left to do. That `SchedulerCalls` implements `SlotPool` needs to know how far a call is:
`CallInv` says that what was claimed so far and what still waits make up what the call began with,
and that the claimed ones are of no worse tier than those left. The latter holds although `Precedes` looks at
counts that the claims themselves change, because workspace work is always runnable and anonymous
work comes last.

`SlicingJobsProofs` proves the inductive invariant

    TicketInv == RestOK /\ Sound(...) /\ Pumped(...)

`Sound` relates statuses, runs and lookups to the scheduler's tickets wherever the code
stands, in the middle of a step included: active tickets are runs, waiting ones are queued
jobs that probe nothing, a job is busy exactly while a run or a hit works on it, and a
probing job is queued or over. `Pumped` is what a step leaves behind: no free slot beside
a waiting ticket, and a place for every queued job. The lemmas about claims say that a pump
turns the first into both, so each action has only to show that it pumps from a sound
place. The second part of the module builds on it: `LawfulTo` follows what is over or cancelled
through one step; `FileInv` adds where a file exists during a run and that what the state
file calls ready still has its file, without which a restart could take over a job whose
file is gone; `QueueInv` bounds the queue in memory and in the state file together. The third
part is the refinement of `SlotPool`. `ClaimsAreThePools` identifies the two descriptions of what may
be claimed; as long as `Pumped` holds, `pumpQueue()`, which goes through all jobs, finds no
ticket to add but that of the job at hand, so that what looks like a sweep is one call.

`PrintQueueProofs` proves an invariant of its own

    QueueInv == QueueTypeOK /\ PlateInv /\ LinkInv /\ ClaimInv /\ CountInv /\ AttendInv

* `PlateInv`: on a printer without overlapping writes, the one write under way carries what the
  row will be, and an occupied plate is recorded or about to be;
* `LinkInv`: handlers, linkages and requests speak of the item their attempt was made for, or
  `findItemForJob` has mistaken an item by its name, which is on record then;
* `ClaimInv`: a regular item at rest has no claim and no open attempt, and one under way has at most
  one claim or one open attempt, and not both. An open attempt is one that a request, its dispatcher
  or a handler of its end still has in hand, which is why the property about live prints is not
  inductive;
* `CountInv`: a handler that is about to write counts on top of what the row has;
* `AttendInv`: a regular item under way that nothing befell has its claim, or an open attempt that is
  linked to the printer its row names.

The conditional claim is what keeps `ClaimInv`; edits, retries and mistaken events keep it because
regular items are those they have not touched (`Regular`). Nothing is assumed of the names.

`BridgeSessionsProofs` proves

    BridgeInv == BridgeTypeOK /\ CameraInv /\ SessionAccounted /\ EndsInv
                 /\ WatchInv /\ FtpInv /\ AbortInv

* `EndsInv`: a socket is sent nothing before its session is registered, and the bridge neither
  streams nor announces transfers on it before it was told to;
* `WatchInv`, `FtpInv`: what a queue of messages will have said once it has been read (`Told`)
  is what its sender holds for true, of transfers unless the printer was taken from the bridge during one. The lemmas about `Told` say what an appended and a taken
  message do to it; they are stated once for frames and for transfers;
* `AbortInv`: for a call given up, its cancel is behind its request in the same queue, or on its
  way to the socket the work came from. `BridgeOK` supplies that the bridge has one open socket
  at a time, so that a cancel sent to the registered session reaches the right one.

`PrinterProofs` proves, each on top of the types:

* `OutageNoticed`, which is inductive as it stands: the only way to lose a session is the close
  handler, which arms the timer of exactly the printers that have the bridge;
* `RowInv`: unless operations have overlapped, none is under way and manager and row agree, or one was
  cut short and not made up for (`Settled`); or one is, and `Knows` says what it has read and what the manager still lacks. Agreement is not
  inductive, because every operation breaks it between its write and its call; one lemma shows
  that operations begin in `Knows`, one that they go on in it or end in agreement.
  `RecoveryTakesOrphans` follows from it, since what a recovery knows is the row;
* `HeardInv`: no report under way is of the future (`Past`), and the ends that were announced are no
  more than what the last report taken says. An announced end was an edge between two reports in
  order, so the later one has one more;
* `Numbered`: until the numbers begin again every reply still to come has a number in use, and
  whoever waits for it is who asked.

| Theorem | Establishes |
|---|---|
| `DispatcherInvariant`, `DispatcherTypes` | `[]IInv`, `[]TypeOK` |
| `DispatcherStartIsMarked` | `[]StartIsMarked` |
| `DispatcherRunsSerialized` | `[]RunsSerialized` |
| `DispatcherStartedOnce` | `StartedOnce` |
| `DispatcherOneActiveUnlessRetried` | `[]OneActiveUnlessRetried` |
| `DispatcherOutcomeIsFinal` | `OutcomeIsFinal` |
| `DispatcherStartUsesOwnUpload` | `StartUsesOwnUpload` |
| `DispatcherJournalAgrees` | `[]JournalAgrees` |
| `DispatcherNothingStranded` | `[]NothingStranded` |
| `RecoveryInvariant`, `RecoveryTypes` | the invariant and the types across restarts |
| `RecoveryStartIsMarked` | `[]StartIsMarked` across restarts |
| `RecoveryImplementsBoundary` | `ImplementsBoundary` |
| `RecoverySparesStarted` | `ReconcileSparesStarted` |
| `RecoveryKeepsUnsharedFile` | `[]UnsharedLiveFileKept` |
| `RecoveryRunsSerialized`, `RecoveryOneActiveUnlessRetried`, `RecoveryNothingStranded` | `[]RunsSerialized`, `[]OneActiveUnlessRetried`, `[]NothingStranded` across restarts |
| `RecoveryStartedOnce`, `RecoveryOutcomeIsFinal` | `StartedOnce`, `OutcomeIsFinal` across restarts |
| `RecoveryStartUsesOwnUpload` | across restarts, what is started is on the card as the dispatch uploaded it, unless it raced with a reconcile or shares its name |
| `RecoveryJournalAgrees` | `JournalAgrees` across restarts, for dispatches that did not race with a reconcile |
| `SchedulerTypes`, `SlotsAreRespected`, `NoSlotStaysIdle` | the types and the invariants of `slicing_scheduler` |
| `WorkspaceKeepsASlot` | `[]WorkspaceSlotReserved`, which the two invariants imply |
| `UsageIsKept` | `UsageFollowsActors` |
| `SchedulerServesAsPool` | `ServesAsPool`: with callbacks that do not call back, the scheduler implements `SlotPool` |
| `JobsUsePool` | `ImplementsPool`: the jobs use the scheduler as `SlotPool` allows |
| `SlicingInvariant`, `SlicingTypes` | `[]TicketInv`, `[]SlicingTypeOK` |
| `EveryQueuedJobHasAPlace`, `WorkHoldsItsSlots`, `FilesAreAccounted`, `QueueIsBounded` | the invariants of `slicing_jobs` |
| `OutcomesStay`, `CancellationIsHonoured` | `OutcomeStays`, `CancelHonoured` |
| `QueueTypes`, `PlateCacheFollowsRow`, `PlatesAreGuarded` | `[]QueueTypeOK`, `[]CacheFollowsRow`, `PlateGuarded` |
| `QueuePrintsOnce`, `QueueCopiesCounted`, `QueueNotStranded` | `[]PrintedOnceAtATime`, `[]CopiesCounted`, `[]NotStranded`, whatever the names |
| `BridgeTypes`, `SessionsAreAccounted`, `LiveSessionIsUndisturbed` | `[]BridgeTypeOK`, `[]SessionAccounted`, `LiveSessionUndisturbed` |
| `FramesFollowListeners`, `FlagFollowsTransfers`, `GivenUpWorkIsAborted` | `[]WatchFollowsListeners`, `[]FtpFlagFollows`, `[]WithdrawnWorkAborted` |
| `CamerasAreArbitrated` | `[]CameraArbitrated`, in the composition with the sessions: no connection opened and no read begun beside a transfer, one live pump |
| `ManagerTypes`, `OutagesNoticed`, `RowsFollowed`, `FinishesAreReal` | `[]ManagerTypeOK`, `[]OutageNoticed`, `[]RowFollowed`, `[]FinishesReal` |
| `RecoveriesTakeOrphans` | `RecoveryTakesOrphans` |
| `CommandTypes`, `AnswersOwn` | `[]CommandTypeOK`, `[]AnswersAreOwn`, of `PrinterCommands` |

`PrinterCommands` and `SchedulerCalls` are only proved about: the numbers of the one grow without
bound, and the other restricts what the run of `SlicingScheduler` explores; no run instantiates them.

Only model-checked: `DispatchesFinish`, `OldestPaidServed`, `JobsFinish` and `OutageSurfaces`, because liveness under fairness is beyond the prover. What liveness rests on is proved:
`NothingStranded`, `NoIdleSlot`, `QueuedHasPlace` and `OutageNoticed` say that whoever waits has
something that will come to it. No module with a theorem
uses a RECURSIVE operator.

## Left out of the models

* Progress percentages, messages, attribution and the contents of the start command.
* Skipping objects after the start, which begins once the dispatch is over.
* The 90-day prune of the journal and the deletion of a printer with its rows.
* The reprint and storage-print routes, which publish without the dispatcher; their
  check-then-await is listed as a hazard.
* A journal write that the client gives up on and the database commits later still,
  after a write that was called after it.
* The rolling mean behind `estimatedWaitSeconds`, which decides nothing, and a `start()`
  that throws: the owner's callbacks only launch asynchronous work.
* What a slicing job's output is called and looks like: names, thumbnails, metadata, logs;
  the request itself, and `setOutputFile()`, which repoints a saved output. The second
  attempt after a crash of the engine stays inside `slicing`.
* A cancellation or deletion that a crash overtakes before the state file is written: the
  job comes back after the restart as the file knows it, so the properties about outcomes
  speak of one life of the server.
* In the dispatcher, the bridge between server and printer: publishing succeeds, is refused, or
  is lost. `BridgeSessions` has the session, but not the commands that travel on it.
* In the queue: edits of quantity, pin, plate and order, which change what is printed and how
  often but not where an item is; an edit whose write rejects, after which the item is as it was or as
  `WriteEdit` leaves it; calls that reject before anything is written; the plugin's settings, being
  switched off and the removal of a printer while something prints; the choice among eligible printers;
  prints that were not made by the queue and share a job name with an item, and events the recorder
  announces twice.
* In the printer manager: what a report says beyond online and the stage, and how it is merged;
  the job names; connection warnings, slot materials and the suppression of equal statuses; the
  bridge's own copy of the printers it is given, which is `ReceiveConfig` of `BridgeSessions`; the
  removal of a workspace with all its printers (`workspace-artifacts.ts`), which tells the manager of
  each; a call that rejects before anything is written; more than one printer, whose entries do not meet.
  A command to a printer that is not managed fails at once and changes nothing.
* In the sessions: reports of the same printer's FTPS activity by another bridge; status reports and commands of printers, progress reports, updates, probes,
  discovery and crash reports; the simulator; cameras that stream over RTSP, which do not
  compete with FTPS; `fetchSnapshot`, which opens a camera connection of its own with the same wait
  for FTPS (`camera.ts`); more than one printer per bridge, whose states do not meet.

## Not modelled

* The print job recorder. Its maps and rows are read before and written after nearly every await
  without a guard, so what it would have to promise does not hold under the interleavings a model
  has; the places are listed as hazards without a property. The dispatcher and the queue have
  its awaits and its events.
* The slicer's client, its contact verdict (a pure function with tests that enumerate it) and the
  slice cache; delete operations and the keyed mutex, which are promise chains like those of the
  dispatcher and the journal with no state that another component reads.
* The bridge's MQTT, FTPS and discovery, the slicer service: I/O. Camera hubs, the filament manager,
  orders: fan-out and single transactions. The web client: no authoritative state.
  Authentication, licences and backups: administration, outside the print and slicing core.
