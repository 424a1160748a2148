# Canvas Assistant: specifications, model checking and proofs

Canvas Assistant is an Electron application that keeps a local copy of a
student's Canvas courses.  Its main process is one JavaScript event loop over a
synchronous SQLite database; everything that makes it hard happens between the
awaits of the loop.  This directory specifies the parts where that matters.

Paths below are relative to the repository.  `l0` ... `l6` stand for
`src/layers/l0-utilities` ... `src/layers/l6-ui`.

## The system

| part | state it keeps | operations | works with |
|---|---|---|---|
| `RateLimiter` (`l2-daemon/resilience`) | the queue of requests, the counter of used slots, the pause switch, three timers | `enqueue`, the settling of a request, backoffs, `pause`, `resume`, the quota callback, the cleanup, `clear`, `stop` | one instance, shared by all engines (`ServiceRegistry`); the Canvas client reports quotas to it |
| `SyncEngine` with orchestrator, fetch phase, checkpoint manager (`l2-daemon/sync-engine`) | the busy flag, the promise mutex, the abort flag, the id of a deferred sync; the table `sync_checkpoints` | `syncAll`, `processFileReferencesBackground`, `abort`, `cancelPendingSync`, `stop`, single-entity syncs | called by the IPC, the scheduler, focus and resume events; writes the database, asks through the limiter |
| commit phase, task queue (`orchestrator/SyncCommitPhase`) | tables of courses, tasks, `canvas_task_queue`, `sync_updates` | one decision per fetched item, inside one transaction | the conflict resolver; the commands that accept and reject tasks |
| `SyncConflictResolver` | pending conflicts (a map and a table), preferences (a list and a table), `field_sources` | detect, resolve, resolve all, preferences | the commit phase writes it, the IPC resolves |
| `SyncBackoffManager`, `OperationCoordinator` | `endpoint_backoff`, `active_operations` | record and ask; start, heartbeat, complete, clean up | the fetch phase; the download of HTML |
| `Database` (`l1-persistence`) | the write lock with its watchdog, open or closed | read, write, transaction, lock, unlock, close | everything |
| `resetAppState`, `canvas:connect`, database import (`lifecycle`) | none of their own | delete the content, cancel the sync, lock; unlock, make a new client and engine; close the database | the engine, the limiter, the database |
| `AutoSyncManager`, `CrashProtectionManager` | the interval; the crash flag and history, two files | schedule, give up after five minutes; record a crash, detect a crash loop, leave safe mode | the engine; the start of the application |
| `FileDownloadManager`, `downloadPersistence` (`l0`) | the queue, the active downloads, the table `pending_downloads` | queue, cancel, cancel all, save, restore | the file handlers, the file system |
| `CircuitBreaker`, `ResilienceWrapper` | one circuit per endpoint | execute, force, reset | would pause and resume the limiter; only tests use them |
| commands, simulation (`l4`), grades (`l3`), HTML, calendar, export, update (`l2`), store and user interface (`l5`, `l6`), windows, backups, reminders (`lifecycle`), other utilities (`l0`) | see `PROJECT.json` | | |

Behaviours that are hard to test:

* A handler that awaits meets, when it goes on, whatever the others did
  meanwhile: an abort, a second call, a reset, a new connection, a closed
  database.  State read before the await and used after it is the usual mistake.
* Flags, mutexes and slots are released on many paths, exceptions included.
* One switch (the pause of the limiter, the abort flag of the engine) serves
  several owners.
* The process may die between any two steps, and only the database is left.
* A promise that nobody settles stops whoever awaits it, with no error.

`PROJECT.json` lists every such hazard at its line, with the properties that
guard it.  What makes each part correct:

* limiter: slots neither leak nor exceed the maximum, a request is in the queue
  exactly while it waits, waiting requests are served, pauses end, promises
  settle;
* engine: no mutex is lost, the flag is on only while a sync runs, the answer of
  `syncAll` is what happened to the database, checkpoints do not claim what was
  not committed, a locked database stays as it is, one session at a time;
* commit and conflicts: what the user asked for is never overwritten without a
  decision, memory and tables agree, a rejected task stays rejected;
* downloads: at most the configured number, none twice, a queued one starts;
* crash protection: safe mode after a crash loop, and only then, also over
  restarts.

## Modules

| module | what it models |
|---|---|
| `RateLimiter` | `resilience/RateLimiter.ts`, whole |
| `RateLimiterProofs` | theorems about its slots and its queue |
| `RateLimiterQueueProofs` | theorems about what the queue promises: service, order, limit, drops, pauses |
| `MCRateLimiter` | the symmetry of the requests, for TLC |
| `SerialSync` | abstract: sessions one after another; only the open one writes, its courses early and all else once |
| `SyncEngine` | a full sync from the call to its end, on one or more engines, and what the application does to it |
| `MCSyncEngine` | sets of options of callers, for TLC |
| `SyncEngineProofs` | theorems about mutex, flag and types |
| `SyncEngineContentProofs` | theorems about the database, the answers and the checkpoints |
| `SyncEngineSerialProofs` | the step simulation of `SerialSync` |
| `TaskReview` | what the commit of a sync, the commands on the task queue, edits and resolved conflicts make of Canvas assignments |
| `MCTaskReview` | the bound on its states, for TLC |
| `TaskReviewProofs` | theorems about it |
| `FileDownloads` | the download manager, a handler that waits for it, and the queue kept over a restart |
| `MCFileDownloads` | calls and file names, for TLC |
| `FileDownloadsProofs` | theorems about it |
| `CrashProtection` | crash flag and history over sessions, safe mode, the scheduler |
| `CrashProtectionProofs` | theorems about it |

### RateLimiter

One action is one callback.  `queue` is the array, `activeRequests` the counter,
`stage[r]` is where the promise and the request of call `r` are: `queued`,
`active`, in one of the two backoffs, `resolved`, `rejected`, or `lost` when
`stop` dropped it.  `processQueue` is the operator `ProcessQueue`, part of every
action whose code calls it; its loop starts a prefix of the queue.  Priorities
are compared as numbers; retries skip the priority and the size check as in the
code.  Time is ticks: only `createdAt` and `pausedAt` are compared with
thresholds, all other delays are timers that may fire at any moment (and, with
fairness, do).  The cleanup filters the queue by `IsFiltered`, a description of
the result, since `SelectSeq` is recursive.

### SyncEngine

A sync is a number in the order of the calls of `syncAll`.  `pc[s]` is the await
it is at:

| `pc` | the await |
|---|---|
| `waiting` | the mutex promise of its predecessor |
| `fetchingCourses` | the requests for courses and terms |
| `restored` | none; the courses came from a checkpoint |
| `fetching` | the requests of the courses in `toFetch` |
| `processing` | files and HTML, after the commit |
| `hung` | a request that `stop` of the limiter dropped |

`isSyncing`, `syncMutex`, `syncMutexRelease`, `isAborted` and `lastSyncId` are
the fields of each engine; `released` are the mutex promises that are resolved.
The action after an await does everything up to the next one, with its
exceptions: `MutexGranted` clears the abort flag, restores or clears
checkpoints; `CoursesKnown` writes the courses at once; `CourseFetched` stores
what one course answered (any subset of its requests may fail) and saves
progress; `CommitPhase` checks the abort flag, the closed and the locked
database, takes the snapshot (which throws outside every `try` on a closed
database), commits or fails, and gives flag and mutex back; `FilesProcessed`
ends the sync.  `result[s]` is the answer of `syncAll`, with the field `success`
as the code sets it: a closed database is a failure (`SyncAllClosed`), a locked
one a success without errors in which nothing was done (`SyncAllLocked`,
`CommitSkipped`); `lockedOut` remembers which syncs answered under the lock.  The
database keeps `checkpoint`, `metadataBy` (whose early write of the courses is
the last) and `contentBy` (whose commit is).

A commit inserts and updates, item by item; it does not delete.  The model keeps
only whose commit came last and which kinds of data it had.  For the kinds that
the backoff manager guards (modules, pages, folders, files), a refusal (401, 403,
404, or an endpoint in backoff) is an empty list and no error, and counts as an
answer.

The events of the application are `Abort` (suspend, quit), `ResetKeepsToken` and
`ResetCancels`/`ResetStops`/`ResetLocks` (the awaits of `resetAppState`),
`ConnectUnlocks`/`ConnectEnds`, `CloseDatabase` (import), `CanvasStalls` (429
from now on) and `Restart` (the process dies at any point, or ends, and starts
again).  A step that writes in several statements may be cut by the end of the
process (`CutInHalf`): the courses are there and the checkpoint is not
(`EarlyMetadataOnly`), the checkpoint says `commit` and nothing was committed
(`MarkedOnly`) or everything was (`MarkedAndCommitted`), the checkpoint is
completed and nobody was answered (`CompletedOnly`).  The transaction itself is
one statement, as SQLite has it.  `LockTimesOut` is the watchdog of the write lock.  Events other than a restart wait until the
microtasks are done (`Quiet`): a resolved promise continues before the next
callback of the event loop, so a sync whose mutex is resolved, or whose last
request has settled, goes on first.

`stop` of the engine stops the limiter, which drops queued requests without
settling them: any subset of the syncs that await a request then hangs, on all
engines, since they share the limiter.  From then on, as under a permanent 429,
`stalled` is set: `stop` has cleared the timers that end a pause, the next engine
uses the same limiter, and a request may be settled or not.

The comment on `syncAll` (`SyncEngine.ts:752-759`) promises a fetch phase with
"no DB writes" and "If any API call fails, no data is written".  The code does
neither: the courses are written when they are known, and stay when the sync
fails, and a sync commits what it has when the requests of a course failed.
`SerialSync` therefore states what the code does promise, with these writes in
view, and no atomicity of a sync.

### TaskReview

An assignment of Canvas has fields with values.  `queue[a]` is its row of
`canvas_task_queue` (status and the data of the last sync), `row[a]` its row of
`tasks`: `accepted` (`acceptance_method` is set), `val`, `source` (the column
`field_sources`) and `modified` (`local_modified_fields`).  `memory`, `pending`
and `updates` are the three places of a conflict: the map of the resolver, the
table `pending_sync_conflicts`, and the open conflict rows of `sync_updates`,
which the Updates page shows.

| action | code |
|---|---|
| `Fetch`, `CommitSucceeds`, `CommitRollsBack`, `SyncEndsEarly` | a sync: its data, then `executeCommitPhase` as one transaction, in which single items may fail |
| `Accept`, `Merge`, `BulkAccept`, `Reject` | the commands of `commands/queue` |
| `DecisionCutInHalf` | the process dies between the `INSERT` (or `UPDATE`) of the task and the `UPDATE` of the queue |
| `Edit`, `MarkComplete`, `DeleteTask` | the commands of `commands/task` |
| `ResolveConflict` | `sync:resolveConflict`, from the map or, without it, from `sync_updates` |
| `PreferenceEnds` | a remembered choice is deleted or expires |
| `Connect`, `Restart` | a new resolver loads its map; the process ends, and the next start completes graded tasks |

Three kinds of fields matter: those a commit writes to an accepted row
(`StatusFields`: `is_completed`), those it only compares (title, due date), and
the type, which it compares by tiers (`TieredFields`).  What Canvas has as a type
is a guess from the texts, kept in `field_sources` with a tier and a confidence.
`handleTaskTypeConflict` (the operator `Verdict`) keeps a type whose source is the
user, takes that of Canvas over one that has no tiers, and lets the tiers of both
decide otherwise; only what they leave open (`verdict` may be anything in each
sync) goes on to preferences and conflicts like the other fields (`OpenToUser`).
So a user's own type that differs from Canvas's is kept and never shown, although
`CanvasFieldMappings.ts:92,121-123` and `UpdateTaskCommand.ts:116` say that the
user sees a conflict.  `DifferencesShown` excepts the types on which the verdict
is not "conflict", by name.  `choice` is a ghost: what the user last asked for.  It is forgotten
when the user asks for the value of Canvas, or when a remembered choice for
Canvas applies to a sync.

### FileDownloads

`stage[d]` is where download `d` is: `queued`, `connecting` (the unique name is
chosen, the request is out), `writing` (a 200 answer has opened the file).
`queue` is the array of the manager, `processing` its `processingPromise`, set
while the microtasks of one callback run.  `disk` maps a name with a suffix to
the downloads that write the file and to whether it is whole; `recorded` is
`local_path` in the database.  `call[c]` is one call of `canvas-file:open`: it
awaits the credentials, then listens for its download with a timer.

`ProcessQueue` is the loop with the synchronous beginning of `startDownload`, and
part of every action whose code calls it: `Listen`, the three ends of a download
(`Completes`, `CompletesUnrecorded`, `Fails`) and `Start`.  When the directory
cannot be made, `startDownload` fails at once and calls `processQueue` again,
before the promise lock is set, so that the whole queue fails in one step.
`CompletesUnrecorded` is the listener whose write to the database throws: its
call is lost, the download is a failed one for the listeners after it, and if one
of those throws too, the rest is not called and goes on listening (`Outcomes`).
`Quit` saves the queue (the downloads that run are not saved) and aborts what
runs, `Crash` does neither, `Start` restores.  `shared` and `unusable` are
ghosts: paths that two downloads had at the same time, and that a directory
could not be made in this session.

### CrashProtection

`flag` and `history` are the two files; either write may fail and leave the file
as it was or torn.  A torn history reads as an empty one, as in
`loadCrashHistory`.  `session` is `checking` and `marking` during the start (the
process may be killed between these), then `up`.  A report is a crash or a soft
error with an age in ticks.  `LaunchChecksFlag`, `LaunchChecksLoop` and
`LaunchMarksSession` are the beginning of `onReady`; `UncaughtException`,
`CrashSurvived` (rejections, the renderer), `RecordSoftError`, `Kill` and `Quit`
what may end or mark a session; `StartAutoSync` is an operator with three
callers.  `reported` is a ghost: the reports within the window since the last
recovery, whatever the file says; `damaged` says that a write did not succeed.

A definition that directly precedes another one and is used nowhere is a deliberately wrong variant of it; `PROJECT.json` lists them
under `mutants`.

## Runs

| run | configuration | checks | result |
|---|---|---|---|
| `rate_limiter_safety` | 3 requests, 3 priorities, 1 slot, queue of 2 | slots, queue, service, order, drops, pause | holds |
| `rate_limiter_liveness` | 2 requests, fair timers | requests leave the queue, pauses end, promises settle | holds |
| `sync_engine_safety` | 3 syncs, 2 engines, 2 of abort, reset, connect | mutex, flag, answers but under the lock, stray writes | holds |
| `sync_engine_serial` | 3 syncs, 2 engines, 2 kinds of data, 2 of wipe, close, restart | refinement of `SerialSync`, one at a time, complete when clean, checkpoints are truthful | holds |
| `sync_engine_liveness` | 2 syncs that may resume, a background run, 2 events of every kind | syncs end, the engine takes calls again, checkpoints are truthful | holds |
| `task_review` | 1 assignment, 3 fields, 2 values | what the user asked for stands, one home per assignment, stores agree, decisions are final, differences are shown | holds |
| `file_downloads` | 4 calls for 3 files, 2 slots, 1 exit | none twice, the queue is served, recorded files are whole, calls are answered | holds |
| `crash_protection` | 3 reports, threshold 3, window of 2 ticks | loops are detected, memory and disk agree, nothing is scheduled in safe mode, a resumed safe mode ends | holds |
| `sync_abort_commits` | 2 syncs, abort | an aborted sync does not commit | violated |
| `sync_reset_overtaken` | 1 sync, reset | nothing from before the reset is committed after it | violated |
| `remembered_choice` | as `task_review` | a remembered choice for Canvas is applied | violated |
| `soft_errors_count` | as `crash_protection` | soft errors do not bring about safe mode | violated |

The violated properties are what comments and the user guide say; each is a
finding in `PROJECT.json`, with the line that says so and the line that acts
otherwise.

What the passing runs except, or have no property for, and what the code then
does:

* limiter: a retry goes to the front whatever its priority, so the queue is in
  order only until the first one (`SortedUntilRetry`); `stop` clears the timers
  that would end a pause, and leaves the pause;
* engine: a call that finds the database locked, at its start or before its
  commit, answers success with no errors and has done nothing; `ResultTruthful`
  and `CleanSuccessIsComplete` except such answers (`lockedOut`) and show that
  every other success is a commit; a crash right before the transaction leaves a
  checkpoint that says `commit` with nothing committed, and only a crash does
  (`CheckpointTruthful`); a sync whose request the stalled limiter keeps may wait
  for ever, busy flag included, and so do those that wait for its mutex
  (`SyncsEnd`, `EngineFrees`); with resumption `CleanSuccessIsComplete` does not
  hold (a course counts as fetched when its tasks were saved, although its other
  requests had failed);
  after an abort `OneAtATime` does not hold (the aborted sync was only asked to
  stop); a sync commits what it has when single requests failed; the courses are
  written before their data is fetched, also when the sync fails later;
* conflicts: the map of the resolver is ahead of its table after a commit that
  rolled back, until the next connection (`ConflictStoresAgree` says so);
* task types: a difference on which the tiers decide is not shown;
* decisions: a crash between the two statements leaves an accepted task whose
  queue entry is still pending; accepting again fails on the unique key;
* downloads: two downloads of one name that run at one time may have one path,
  and both write to it; a handler whose write to the database throws is never
  answered, since it has already removed its timer; after the timer of a handler
  the file arrives and nobody records it;
* crash protection: the session that detects a crash loop sets no timer, so it
  stays in safe mode until the user leaves it, and when the timer of a resumed
  safe mode ends it, the scheduler stays off until someone starts it.

Deadlock is checked except in `SyncEngine` and `FileDownloads`, whose bounded
calls come to an end.

### Bounds

* Limiter: three requests fill the queue of two and leave one that executes,
  evicts, overtakes or is retried; three priorities let a victim be lower than
  another waiting request and than the one that evicts it.  A retry makes the
  queue longer than its limit.  `RetryCap` and `MaxAge` stand
  for all larger counts and ages: the code compares them with `MaxRetries` and
  the timeout only, and both bounds lie above.  The liveness run has two requests,
  a queue of one and no symmetry.
* Engine: three calls are an interrupted sync, one that started beside it and
  one that waits for either; two engines are the old and the new one, after a
  connection or a restart.  `MaxEvents` is two events of the application per
  behaviour: an abort during a reset, a connection during a reset, two aborts.
  One course and one or two kinds of data are enough for a partly failed fetch
  (`groups` is a kind of its own because checkpoints leave it out).  A fetch of
  several courses is the same action again; no action relates two courses.
* Task review: the code relates a field only to itself, to the assignment and to
  the stores, never one assignment to another, so one assignment with one field
  of each kind and two values has every case.  `MCTaskReview` keeps the product
  of the three fields small: TLC does not go on from a state in which a touched
  type, or one with tiers, meets a touched field of another kind, nor from a
  fetch with a second type (the row's type may be either), since no definition
  relates two fields; a single conflict, preference, edit or decision of each
  field, and all pairs of a title and a completion, are within.  The theorems
  have no such constraint.  Behaviours are as long as they like.
* Downloads: three files on two slots leave one queued; two calls ask for the
  same file; two files have one name.  `MaxExits` is one end of the process, with
  the start that follows; all of its state is on disk or gone by then.
* Crash protection: three reports reach the threshold exactly, and ages run to
  twice the window, beyond which the code forgets.  `MaxReports` bounds those
  remembered at one time, not how many there are.

### Fairness

* Limiter (`FairSpec`): time passes, the timers that are set fire, and every
  executing request ends, because the HTTP client gives up after its timeout.
  Nothing is assumed about callers.  A server that answers 429 for ever, or
  someone who renews the pause for ever, is excepted in the properties by name.
* Engine (`FairSpec`): a sync goes on when what it awaits has settled.  The
  limiter settles each request it has not dropped (that is `PromisesSettle` of
  the other module) as long as nobody has stopped it and Canvas does not answer
  429 for ever; there `PromisesSettle` says nothing, and neither does the fairness
  here: once `stalled` is set, a sync that awaits a request may go on or not
  (`MayHang`).  Nothing makes the limiter reliable again but a restart, though
  the code's may recover: the model assumes less.  A settled promise always
  continues, and so does the predecessor's mutex.  The steps of a reset that has
  begun are timers and file operations, and end.  Nothing is assumed of the
  watchdog, connections, background runs or other events.
* Downloads (`FairSpec`): microtasks end, the credentials arrive, and the safety
  timer of a call that listens fires.  Nothing is assumed of the network: a
  response that stops half way settles nothing in `downloadFile` and holds its
  slot for ever, and only the timer answers the call.
* Crash protection (`FairSpec`): the timer of the safe mode fires if it stays set
  and the session stays up; the scheduler, which sets it anew, does not get that
  far in safe mode.

## Proofs

Every safety property that a run checks and finds true is also a theorem, for
all values of the constants under the named assumptions of its module; three
theorems have a further hypothesis, given with them.  Each proof module gives
an inductive invariant, one lemma for each action or kind of step, and the
theorems.

### RateLimiter

`RateLimiterProofs` proves, for every number of requests, priorities, slots,
queue size, retry limit and timeout that satisfies `ConfigAssumption` and
`BoundAssumption`:

* `TypeCorrect`: `Spec => []TypeOK`; in particular at most `maxConcurrent`
  requests execute;
* `SlotsExact`: `Spec => []ActiveCount`; the counter is the number of executing
  requests;
* `QueueExact`: `Spec => []QueueConsistent`; the array holds each waiting request
  once and nothing else.

They need one another.  Decrementing the counter stays above zero because the
settling request was counted; a start adds `k` to it, and `k` requests become
active because the first `k` places of the queue hold `k` different requests
that wait, hence are not active.  The inductive invariant is the conjunction
(`Consistent`, of a queue, stages and a counter) with the types of the other
variables.  `Consistent` is a predicate on values, so each helper of the model
(launching a prefix, inserting, putting in front, removing, filtering) has one
lemma that says it keeps `Consistent`; an action is then a chain of two or three
such lemmas, and `NextIInv` has one step per action.

`RateLimiterQueueProofs` adds, under the same assumptions:

* `SlotsAreServed`: `Spec => []SlotsServed`;
* `SortedBeforeRetries`: `Spec => []SortedUntilRetry`;
* `LimitHolds`: `Spec => OnlyRetriesExceedLimit`;
* `DropsAreJustified`: `Spec => DropsJustified`;
* `PausedStartsNothing`: `Spec => NoStartWhilePaused`.

All rest on one lemma, `Processed`: after `processQueue` the queue is the back of
what it was, the front is active, and either the limiter is paused, or no slot
is free, or nothing waits.  `SortedUntilRetry` needs a strengthening: a request
that was not enqueued yet has no age (`FreshAge`), so that it is the youngest of
its priority when it is inserted behind the others, since the insertion compares
priorities and the property also ages.  The
order survives the cleanup because a filtered queue embeds, in its order, in the
one it was made from.  `DropsJustified` looks at the four ways to `rejected`:
eviction finds the lowest priority that waits, `clear` rejects all that wait, the
cleanup those over their time, and the backoffs do not touch waiting requests.

### SyncEngine

`SyncEngineProofs` proves, for every number of calls and engines, every set of
courses, kinds of data and options, and every set of events:

* `TypeCorrect`: `Spec => []TypeOK`;
* `MutexIsNeverLost`: `Spec => []MutexNeverLost`;
* `BusyOnlyWhileRunning`: `Spec => []BusyMeansRunning`;
* `OneSyncAtATime`: `Spec => []OneAtATime`, if `Events` has neither `abort` nor
  `reset`.

The promises of `syncMutex` are a chain.  A call awaits the one before it on its
engine, and the field has the last.  `MutexChain` says that the last call is the
last whose promise is unresolved, that a call waits for the one before it, that
when a call is granted all earlier promises of its engine are resolved, and that
the engine holds the release function of a granted one that is not; `FieldsOwn`
that the fields of an engine name calls of that engine; `BusyLast` that the flag
is on only while the last call of the chain is under way; `CallsInOrder` that
calls and engines are made in their order.  None of these is inductive without
the others: an abort resolves whatever `syncMutexRelease` holds, and the next
grant must find that everything before it is resolved.  Since a step moves one
sync and the invariant relates all, `StepKinds` groups the actions by what they do
to the chain (a call that is answered, one that is accepted, a grant, another
step of a sync, of the application, a restart), and each kind has one lemma.

`SyncEngineContentProofs` proves in the same generality:

* `NoWriteIsStray`: `Spec => NoStrayWrites`;
* `ResultsAreTruthful`: `Spec => []ResultTruthful`;
* `CheckpointsAreTruthful`: `Spec => []CheckpointTruthful`;
* `FreshSuccessIsComplete`: a sync that did not ask to resume, and answers success
  and no error, has committed everything of every course, or was locked out;
* `CleanSuccess`: `Spec => []CleanSuccessIsComplete`, if no caller asks to resume.

`CommittedInv` relates a sync's position, its answer and its checkpoint to the
set of those that committed; a sync before its commit is not among them, and one
that processes files after it is.  `CleanInv` says that a sync which does not
resume has the data of each course it no longer waits for, or an error.
`ResultTruthful` holds with `lockedOut` because an answer under the lock is
recorded in the step that gives it, and no other step answers success without a
commit.  `CheckpointTruthful` has to survive the end of the process between the
mark and the transaction: the killed sync then is the witness for the phase
`commit`, also when another sync resumes its checkpoint.

`SyncEngineSerialProofs` proves `EngineIsSerialSync`: `Spec => ImplementsSerialSync`,
if `Events` has no `abort`, `reset` or `connect`.  That leaves `wipe`, `close`,
`stall` and `restart`, the last also in the middle of a step.  Under the
refinement mapping the session is the sync between grant and commit, `courses` is
`metadataBy` and `content` is `contentBy`: the early write of the courses is a
step of the abstract specification.  A grant opens the session, a successful
`CommitPhase` commits it, and each other step writes the courses, gives up or
stutters; a process that dies in the middle of `CoursesKnown` has given up with
its courses written, one that dies between the transaction and the answer has
committed.  That there is only one session comes from `OneSyncAtATime` and from
`OneEngine` (no second engine has syncs under way); that a session is later than
what is in the database, from `CallsInOrder`.  The hypotheses are what the code
needs: the runs `sync_abort_commits` and `sync_reset_overtaken` show an aborted
sync and one from before a reset that still commit.

### FileDownloads

`FileDownloadsProofs` proves, for all finite sets of calls and downloads, any
names and any number of slots (`NoneAssumption`: the absent value is no path and
no file):

* `TypeCorrect`: `Spec => []TypeOK`;
* `EveryDownloadInOnePlace`: `Spec => []OnePlace`;
* `QueueIsServed`: `Spec => []QueueServed`;
* `RecordedFilesIntact`: `Spec => []RecordedFileIntact`.

The model gives file names finitely many suffixes, one more than there are
calls, so it must be shown that the search of `getUniqueFilePath` ends within
them.  `Budget` counts: the files on disk, the downloads that are about to make
one, those in the queue and those saved for the next start are together no more
than the calls that have asked.  So some suffix has no file, and of the free ones
one is the least (`LeastNatural`, from the well-foundedness of inclusion between
finite sets: induction is out of reach here, a least element is not).

`ProcessQueueAdvances` says once what the loop does, in a form (`Advanced`) that
forgets whether directories could be made: the queue is cut in two, a part of the
front runs on paths that had no file, and if anything was queued then something
runs or `unusable` is set.  Five actions use it.  `QueueServed` needs
`BusyServed` (the call that only queues its download, since the promise lock is
set, leaves it to one that runs) and `Asleep` (a process that has ended holds
nothing).  `RecordedFileIntact` needs `PathsApart` (running downloads with one
path are in `shared`) and `DiskOfActive` (a running download with a path of its
own has no file before the answer, and its own, unfinished one after it): so no
answer, end, failure or quit touches a file that is whole and recorded.

### CrashProtection

`CrashProtectionProofs` proves, for every threshold, window and bound on the
reports:

* `TypeCorrect`: `Spec => []TypeOK`; in particular nothing of a session's memory
  outlives it;
* `SafeModeExact`: `Spec => []SafeModeAgrees`; the mode of a running session is
  the one on disk, unless a write failed;
* `SchedulerOff`: `Spec => []NothingScheduled`;
* `LoopsDetected`: `Spec => LoopNeverMissed`; a start after enough reports is in
  safe mode, unless a write failed.

The inductive invariant adds `HistoryComplete`: unless a write failed, the recent
entries of the history are exactly the reports since the last recovery.  It is
what makes the check at the start count the right thing, and it survives the
filter that forgets what is older than twice the window, since what is forgotten
is not recent.  `SafeModeAgrees` is needed for `NothingScheduled`: leaving the
mode by hand starts the scheduler with the mode that `ClearSafeMode` left.

### TaskReview

`TaskReviewProofs` proves, for every set of assignments, fields, status fields
and values that satisfies `ConstantsAssumption` and `NoneAssumption` (the
absent value is none of the others):

* `TypeCorrect`: `Spec => []TypeOK`;
* `ChoicesKept`: `Spec => []ChoicesStand`;
* `NeverInBothPlaces`: `Spec => []OneHome`;
* `StoresAgree`: `Spec => []ConflictStoresAgree`;
* `DecisionsStay`: `Spec => DecisionsFinal`;
* `DifferencesReported`: `Spec => DifferencesShown`.

`ChoicesStand` alone is not inductive: a commit keeps a value only if it knows
that the field is the user's, and it knows that from `field_sources` or from
`local_modified_fields`.  The strengthening `AllHeld` says that a field whose
source is the user, one that was asked for, and one that is shown in a conflict
are all in `local_modified_fields`.  The step that could break it is the
resolution of a conflict that the resolver's map does not have: with an engine
it would take the mark away and leave the source as it was.  `ConflictStoresAgree`
rules it out, since the map of a connected resolver has whatever is shown.  The
other steps need one lemma each: a commit changes no value that is owned and
has no preference for Canvas (`CommittedRowKeeps`; a type that the user changed on
a legacy row has the user as its source, which `Held` states, so that no tiers
decide about it when the row is replaced), a row that accepting makes
holds what was asked for (`RowMadeKeeps`; nothing can have been asked for or
shown before there is a row), an edit or a resolution sets value, mark and
request of one field together (`FieldKeeps`).  `OneHome` is needed for itself: a
rejection finds no task, since the entry is still pending.  The two action
properties follow from the types and from what `CommitSucceeds` does.

### Model-checked only

The liveness properties: `LeavesQueue`, `PauseEnds` and `PromisesSettle` of the
limiter, `SyncsEnd` and `EngineFrees` of the engine, `CallsAnswered` of the
downloads, `ResumedModeEnds` of the crash protection.  Fairness and `ENABLED` are
out of the prover's reach.  The four violated properties are shown by their
counterexamples.

## Plan

In this order; the first eight rows are done.

| step | modules | properties and theorems |
|---|---|---|
| 1 | `RateLimiter` | slots, queue, order, service; done |
| 2 | `RateLimiterProofs`, `RateLimiterQueueProofs` | all safety properties; done |
| 3 | `SerialSync` | the promise of a full sync; done |
| 4 | `SyncEngine` | mutex, answers, checkpoints, refinement; done |
| 5 | `TaskReview`, `TaskReviewProofs` | choices stand, stores agree, decisions are final; done, with its proofs |
| 6 | `FileDownloads` | one place, service, intact files, answers; done |
| 7 | `CrashProtection`, `CrashProtectionProofs` | safe mode over sessions with failing writes; done, with its proofs |
| 8 | `SyncEngineProofs`, `SyncEngineContentProofs`, `SyncEngineSerialProofs`, `FileDownloadsProofs` | all safety properties and the refinement; done |
| 9 | `CircuitBreaker` composed with `RateLimiter` through `pause` and `resume` | circuits leave the open state; a pause has an owner |
| 10 | `OperationCoordinator`, `SyncBackoffManager` | one live operation per resource; backoffs end |
| 11 | single-entity syncs beside a full sync | what the mutex does not exclude |

Abstract specifications worth stating: a bounded server for the limiter and the
download manager (at most N at work, each request at work or answered once).
Theorems worth proving next: that the
limiter and the download manager implement that server; the refinement of
`SerialSync` with new connections, where an old engine's sync may still end; and
for `CleanSuccessIsComplete` the callers that resume, of which only those that
resume nothing are complete.

## Not modelled

Within the parts that are modelled:

* `TaskReview`: choices for all entities and the resolution of all conflicts at
  once (the dialog that offered them is commented out in `Layout.tsx`; the
  handlers are still there, and the second marks the rows of `sync_updates` as
  seen, not as resolved); a new connection during a sync, which `SyncEngine` has;
  the history of field changes, announcements, files and pages; the tiers
  themselves, whose comparison is a verdict that may be any; a crash between the
  statements of a resolution; the conflicts and preferences that a deleted task
  leaves behind under its old id, which no later row has.
* `SyncEngine`: the timer by which the scheduler gives up on a sync after five
  minutes, which changes nothing in the engine (its next call may come at any
  time anyway); the order of the statements after the completion of a checkpoint
  (calendar, archive, `sync-complete`), which nothing here observes.
* `FileDownloads`: the look of `attachment:download`, after its await, for a course
  file with the same bytes (it answers like `OpenRecorded`); the listeners that a
  failed `queueDownload` leaves behind though their call is answered; a listener
  that throws while a download fails for lack of a directory; a quit whose
  database is closed already, which saves nothing, as in `Crash`; the
  cancellation of one download and `queueDownloads`, which
  nothing calls; progress; redirects; a download that was restored has no
  listener, hence nobody records it, which the model has; `getActiveDownloadRequests`
  says of running downloads that they are queued again after a restart, while
  `savePendingDownloads` writes only the queue, which the model has too.
* `CrashProtection`: the age of a soft error is 0, though its time comes from the
  renderer, which takes its own clock when the error happens; the sync at the return of the focus, which asks neither the
  scheduler nor the mode; the recovery of the database after a crash.

Other parts: parsing and rewriting of HTML, calendars and archives, data mappers, migrations,
queries, the user interface and windows: sequential conversions and I/O, without
interleavings or states that outlive a call.  Grades (`l3`) are arithmetic and
could become checked operators.  The other commands (`l4`) are sequential
handlers over the database.  `PROJECT.json` gives the reason for each.
