----------------------------- MODULE SyncEngine -----------------------------
(***************************************************************************)
(* The life of a full synchronisation (sync-engine/SyncEngine.ts): syncAll *)
(* takes a flag and a promise mutex, fetches from Canvas, commits what it  *)
(* fetched in one transaction, then processes files.  Around it, what the  *)
(* application does to a running synchronisation: abort on suspend, the    *)
(* reset of the application, a new connection (which makes a new engine on *)
(* the same database and the same request limiter), the import of a        *)
(* database, and the end of the process.                                   *)
(*                                                                         *)
(* An action is what JavaScript runs without an await.  A sync is a number *)
(* in the order of the calls, and its own sync id.  What is fetched is a   *)
(* set of kinds of data per course.                                        *)
(*                                                                         *)
(* A definition that directly precedes another and is used nowhere is a    *)
(* mutant of it (PROJECT.json names them).                                 *)
(***************************************************************************)
EXTENDS Integers, FiniteSets

CONSTANTS
  NSyncs,          (* bound: calls of syncAll                               *)
  NEngines,        (* bound: engines made by connections and restarts       *)
  Courses,         (* the visible courses of the account                    *)
  Kinds,           (* kinds of data of a course; the code treats "tasks" and *)
                   (* "groups" (assignment groups) apart                    *)
  Options,         (* options callers pass: [resume, defer]                 *)
  Backgrounds,     (* bound: calls of processFileReferencesBackground       *)
  Events,          (* what the application may do to a sync, see AllEvents  *)
  MaxEvents        (* bound: how many such events                           *)

AllEvents == {"abort", "reset", "wipe", "connect", "close", "restart", "stall"}

ASSUME SizeAssumption == NSyncs \in Nat /\ NEngines \in Nat \ {0} /\ MaxEvents \in Nat
ASSUME InputAssumption ==
  /\ "tasks" \in Kinds
  /\ Options \subseteq [resume : BOOLEAN, defer : BOOLEAN]
  /\ Events \subseteq AllEvents

Syncs   == 1..NSyncs
Engines == 1..NEngines
None    == 0

VARIABLES
  pc,              (* the await a sync is at, see Stages                    *)
  result,          (* what it answered: the field success of the answer     *)
  lockedOut,       (* history: syncs that answered under the write lock     *)
  engineOf,        (* the engine that accepted the call                     *)
  options,         (* the options it was called with                        *)
  syncId,          (* the id of its checkpoint: its own, or a resumed one's *)
  predecessor,     (* the mutex it waits for                                *)
  toFetch,         (* courses whose data it still waits for                 *)
  data,            (* what it fetched or restored                           *)
  failures,        (* it has an error of a course to report in its answer   *)
  isSyncing, syncMutex, syncMutexRelease, isAborted,   (* fields of engines *)
  lastSyncId,      (* the deferred sync an engine remembers                 *)
  released,        (* syncs whose mutex promise is resolved                 *)
  checkpoint,      (* table sync_checkpoints                                *)
  metadataBy,      (* the sync that last wrote the courses                  *)
  contentBy,       (* the sync whose commit is the last in the database     *)
  committed,       (* history: syncs that committed                         *)
  writeLocked, isOpen,          (* the database's switches                  *)
  engine,          (* getSyncEngine(): the current engine                   *)
  created,         (* engines made so far                                   *)
  connecting,      (* canvas:connect awaits the validation of the token     *)
  resetStage, resetEngine,      (* the await resetAppState is at            *)
  stalled,         (* the limiter need not settle what it is asked: it was  *)
                   (* stopped, or Canvas answers 429 for ever               *)
  events,          (* events so far                                         *)
  background,      (* the runs of processFileReferencesBackground           *)
  interrupted,     (* history: syncs that ran when their engine was aborted *)
  wiped            (* history: syncs that ran when a reset emptied the database *)

resultVars == <<result, lockedOut>>
callVars   == <<engineOf, options, predecessor>>
fetchVars  == <<syncId, toFetch, data, failures>>
mutexVars  == <<isSyncing, syncMutex, syncMutexRelease, released>>
engineVars == <<mutexVars, isAborted, lastSyncId>>
contentVars == <<metadataBy, contentBy, committed>>
dbVars     == <<checkpoint, contentVars, writeLocked, isOpen>>
appVars    == <<engine, created, connecting, resetStage, resetEngine, stalled>>
otherVars  == <<background, interrupted, wiped>>
vars == <<pc, resultVars, callVars, fetchVars, engineVars, dbVars, appVars, otherVars, events>>

Fetching == {"fetchingCourses", "restored", "fetching"}
Running  == {"waiting", "processing"} \cup Fetching
Stages   == {"idle", "hung", "done"} \cup Running
Results  == {"none", "success", "failed", "refused", "threw", "killed"}
Phases   == {"none", "fetch", "commit", "completed", "failed"}

NoData == [c \in Courses |-> {}]

Init ==
  /\ pc = [s \in Syncs |-> "idle"] /\ result = [s \in Syncs |-> "none"]
  /\ lockedOut = {}
  /\ engineOf = [s \in Syncs |-> None]
  /\ options = [s \in Syncs |-> [resume |-> FALSE, defer |-> FALSE]]
  /\ syncId = [s \in Syncs |-> s] /\ predecessor = [s \in Syncs |-> None]
  /\ toFetch = [s \in Syncs |-> {}] /\ data = [s \in Syncs |-> NoData]
  /\ failures = [s \in Syncs |-> FALSE]
  /\ isSyncing = [e \in Engines |-> FALSE] /\ isAborted = [e \in Engines |-> FALSE]
  /\ syncMutex = [e \in Engines |-> None] /\ syncMutexRelease = [e \in Engines |-> None]
  /\ lastSyncId = [e \in Engines |-> None]
  /\ released = {}
  /\ checkpoint = [s \in Syncs |-> [phase |-> "none", saved |-> NoData]]
  /\ metadataBy = None /\ contentBy = None /\ committed = {}
  /\ writeLocked = FALSE /\ isOpen = TRUE
  /\ engine = 1 /\ created = 1 /\ connecting = FALSE
  /\ resetStage = "idle" /\ resetEngine = None
  /\ stalled = FALSE
  /\ background = [b \in Backgrounds |-> [at |-> "idle", engine |-> None]]
  /\ events = 0 /\ interrupted = {} /\ wiped = {}

-----------------------------------------------------------------------------
(* Helpers.                                                                *)

WritableWhenLocked == isOpen
Writable == isOpen /\ ~writeLocked

(* The next callback of a sync is already among the microtasks: no event   *)
(* of the application runs before it.                                      *)
Imminent(s) ==
  \/ pc[s] = "waiting" /\ predecessor[s] \in released \cup {None}
  \/ pc[s] = "restored"
  \/ pc[s] = "fetching" /\ toFetch[s] = {}
Quiet == \A s \in Syncs : ~Imminent(s)

(* releaseSyncMutex() of engine e.                                         *)
ReleaseUncalled(e) ==
  /\ isSyncing' = [isSyncing EXCEPT ![e] = FALSE]
  /\ syncMutexRelease' = [syncMutexRelease EXCEPT ![e] = None]
  /\ UNCHANGED released
ReleaseUnchecked(e) ==
  /\ isSyncing' = [isSyncing EXCEPT ![e] = FALSE]
  /\ released' = released \cup {syncMutexRelease[e]}
  /\ syncMutexRelease' = [syncMutexRelease EXCEPT ![e] = None]
ReleaseSyncMutex(e) ==
  /\ isSyncing' = [isSyncing EXCEPT ![e] = FALSE]
  /\ released' = released \cup ({syncMutexRelease[e]} \ {None})
  /\ syncMutexRelease' = [syncMutexRelease EXCEPT ![e] = None]

(* An UPDATE of the checkpoint with this id: without a row, or when the    *)
(* database refuses (the error is caught), nothing.                        *)
MarkCheckpoint(id, phase) ==
  checkpoint' = IF Writable /\ checkpoint[id].phase # "none"
                THEN [checkpoint EXCEPT ![id].phase = phase] ELSE checkpoint

Ends(s, how) ==
  /\ pc' = [pc EXCEPT ![s] = "done"]
  /\ result' = [result EXCEPT ![s] = how]
  /\ lockedOut' = IF writeLocked THEN lockedOut \cup {s} ELSE lockedOut

-----------------------------------------------------------------------------
(* The call and the mutex.                                                 *)

Called(s, o) ==
  /\ pc[s] = "idle" /\ \A t \in 1..(s - 1) : pc[t] # "idle"
  /\ engine # None
  /\ options' = [options EXCEPT ![s] = o]
  /\ UNCHANGED <<fetchVars, syncMutexRelease, released, isAborted, lastSyncId,
                 dbVars, appVars, otherVars>>

Answered(s, o, how) ==
  /\ Called(s, o)
  /\ Ends(s, how)
  /\ UNCHANGED <<engineOf, predecessor, isSyncing, syncMutex>>

(* A closed database is an error, a locked one is none: success is TRUE    *)
(* and the answer has no errors.                                           *)
SyncAllClosed(s, o)  == ~isOpen /\ Answered(s, o, "failed")
SyncAllLocked(s, o)  == isOpen /\ writeLocked /\ Answered(s, o, "success")
SyncAllRefused(s, o) ==
  /\ engine # None /\ Writable /\ isSyncing[engine]
  /\ Answered(s, o, "refused")

SyncAllAccepted(s, o) ==
  /\ Called(s, o)
  /\ Writable /\ ~isSyncing[engine]
  /\ engineOf' = [engineOf EXCEPT ![s] = engine]
  /\ isSyncing' = [isSyncing EXCEPT ![engine] = TRUE]
  /\ predecessor' = [predecessor EXCEPT ![s] = syncMutex[engine]]
  /\ syncMutex' = [syncMutex EXCEPT ![engine] = s]
  /\ pc' = [pc EXCEPT ![s] = "waiting"]
  /\ UNCHANGED resultVars

Incomplete == {id \in Syncs : checkpoint[id].phase \in {"fetch", "commit"}}

(* The checkpoints getIncompleteCheckpoint may return: started_at, which   *)
(* it sorts by, counts seconds; None when all are older than an hour.      *)
Resumable == (IF isOpen THEN Incomplete ELSE {}) \cup {None}

StartFresh(s) ==
  /\ pc' = [pc EXCEPT ![s] = "fetchingCourses"]
  /\ UNCHANGED <<syncId, data>>

ClearIncompleteCheckpoints ==
  checkpoint' = IF Writable
                THEN [id \in Syncs |-> IF id \in Incomplete
                                       THEN [checkpoint[id] EXCEPT !.phase = "failed"]
                                       ELSE checkpoint[id]]
                ELSE checkpoint

(* Only a checkpoint of the fetch phase gives its data back; with the      *)
(* courses known, nothing is awaited before the early metadata.            *)
Resume(s, id) ==
  /\ syncId' = [syncId EXCEPT ![s] = id]
  /\ IF checkpoint[id].phase = "fetch"
       THEN /\ data' = [data EXCEPT ![s] = checkpoint[id].saved]
            /\ pc' = [pc EXCEPT ![s] = "restored"]
       ELSE /\ pc' = [pc EXCEPT ![s] = "fetchingCourses"]
            /\ UNCHANGED data

MutexGranted(s) ==
  LET e == engineOf[s] IN
  /\ pc[s] = "waiting"
  /\ predecessor[s] \in released \cup {None}
  /\ syncMutexRelease' = [syncMutexRelease EXCEPT ![e] = s]
  /\ isAborted' = [isAborted EXCEPT ![e] = FALSE]
  /\ IF options[s].resume
       THEN /\ \E id \in Resumable : IF id = None THEN StartFresh(s) ELSE Resume(s, id)
            /\ UNCHANGED checkpoint
       ELSE StartFresh(s) /\ ClearIncompleteCheckpoints
  /\ UNCHANGED <<resultVars, callVars, toFetch, failures, isSyncing, syncMutex, released,
                 lastSyncId, contentVars, writeLocked, isOpen, appVars, otherVars>>

-----------------------------------------------------------------------------
(* Phase 1: fetch.                                                         *)

FetchFailedKeepsMutex(s) ==
  /\ MarkCheckpoint(syncId[s], "failed")
  /\ Ends(s, "failed")
  /\ UNCHANGED <<toFetch, contentVars, isSyncing, syncMutexRelease, released>>
FetchFailed(s) ==
  /\ MarkCheckpoint(syncId[s], "failed")
  /\ ReleaseSyncMutex(engineOf[s])
  /\ Ends(s, "failed")
  /\ UNCHANGED <<toFetch, contentVars>>

CoursesFail(s) ==
  /\ pc[s] = "fetchingCourses"
  /\ FetchFailed(s)
  /\ UNCHANGED <<callVars, syncId, data, failures, syncMutex, isAborted, lastSyncId,
                 writeLocked, isOpen, appVars, otherVars>>

CoursesToFetch(s) == {c \in Courses : "tasks" \notin data[s][c]}

(* The courses are written at once (commitEarlyMetadata, which throws when *)
(* the database refuses), then their data is asked for.                    *)
CoursesKnown(s) ==
  /\ pc[s] \in {"fetchingCourses", "restored"}
  /\ \/ /\ ~Writable
        /\ FetchFailed(s)
     \/ /\ Writable
        /\ metadataBy' = s
        /\ checkpoint' = IF syncId[s] = s
                         THEN [checkpoint EXCEPT ![s] = [phase |-> "fetch", saved |-> NoData]]
                         ELSE checkpoint
        /\ toFetch' = [toFetch EXCEPT ![s] = CoursesToFetch(s)]
        /\ pc' = [pc EXCEPT ![s] = "fetching"]
        /\ UNCHANGED <<resultVars, isSyncing, syncMutexRelease, released, contentBy, committed>>
  /\ UNCHANGED <<callVars, syncId, data, failures, syncMutex, isAborted, lastSyncId,
                 writeLocked, isOpen, appVars, otherVars>>

ErrorForgotten(s, got) == FALSE
CallFailed(s, got) == failures[s] \/ got # Kinds

(* All calls for course c have settled; those for the kinds in got gave a  *)
(* list.  (Of the kinds the backoff manager guards, a refusal of Canvas    *)
(* counts as an empty list.)  The groups are not put in the checkpoint.    *)
CourseFetched(s, c, got) ==
  /\ pc[s] = "fetching" /\ c \in toFetch[s]
  /\ toFetch' = [toFetch EXCEPT ![s] = @ \ {c}]
  /\ data' = [data EXCEPT ![s][c] = @ \cup got]
  /\ failures' = [failures EXCEPT ![s] = CallFailed(s, got)]
  /\ checkpoint' = IF Writable /\ checkpoint[syncId[s]].phase # "none"
                   THEN [checkpoint EXCEPT ![syncId[s]].saved[c] = @ \cup (got \ {"groups"})]
                   ELSE checkpoint
  /\ UNCHANGED <<pc, resultVars, callVars, syncId, engineVars, contentVars,
                 writeLocked, isOpen, appVars, otherVars>>

-----------------------------------------------------------------------------
(* Phase 2: commit.                                                        *)

(* Locked meanwhile: success again, and the errors it has are dropped.     *)
CommitSkipped(s) ==
  /\ ReleaseSyncMutex(engineOf[s])
  /\ Ends(s, "success")
  /\ failures' = [failures EXCEPT ![s] = FALSE]
  /\ UNCHANGED <<checkpoint, contentVars, lastSyncId>>

(* The snapshot of the files, read outside every try block, throws on a    *)
(* closed database: nothing is released.                                   *)
SnapshotThrows(s) ==
  /\ Ends(s, "threw")
  /\ UNCHANGED <<checkpoint, contentVars, isSyncing, syncMutexRelease, released, lastSyncId>>

CommitFailsUnmarked(s) ==
  /\ MarkCheckpoint(syncId[s], "commit")
  /\ ReleaseSyncMutex(engineOf[s])
  /\ Ends(s, "failed")
  /\ UNCHANGED <<contentVars, lastSyncId>>
CommitFailsHalfway(s) ==
  /\ MarkCheckpoint(syncId[s], "failed")
  /\ ReleaseSyncMutex(engineOf[s])
  /\ Ends(s, "failed")
  /\ metadataBy' = s /\ contentBy' = s /\ committed' = committed \cup {s}
  /\ UNCHANGED lastSyncId
CommitFails(s) ==
  /\ MarkCheckpoint(syncId[s], "failed")
  /\ ReleaseSyncMutex(engineOf[s])
  /\ Ends(s, "failed")
  /\ UNCHANGED <<contentVars, lastSyncId>>

(* handleDeferredFileProcessing: the sync ends, and is remembered.         *)
HandleDeferred(s) ==
  /\ MarkCheckpoint(syncId[s], "completed")
  /\ lastSyncId' = [lastSyncId EXCEPT ![engineOf[s]] = syncId[s]]
  /\ Ends(s, "success")

(* The transaction writes the courses again, and everything else that was  *)
(* fetched, complete or not.                                               *)
Committed(s) ==
  /\ metadataBy' = s /\ contentBy' = s
  /\ committed' = committed \cup {s}

(* The mutex is released before the files are processed.                   *)
CommitSucceeds(s) ==
  /\ Committed(s)
  /\ ReleaseSyncMutex(engineOf[s])
  /\ \/ options[s].defer /\ HandleDeferred(s)
     \/ /\ ~options[s].defer
        /\ MarkCheckpoint(syncId[s], "commit")
        /\ pc' = [pc EXCEPT ![s] = "processing"]
        /\ UNCHANGED <<resultVars, lastSyncId>>

FetchEnded(s) == pc[s] = "fetching" /\ toFetch[s] = {}

CommitPhase(s) ==
  /\ FetchEnded(s)
  /\ \/ /\ isAborted[engineOf[s]]
        /\ FetchFailed(s) /\ UNCHANGED <<failures, lastSyncId>>
     \/ /\ ~isAborted[engineOf[s]]
        /\ \/ ~isOpen /\ SnapshotThrows(s) /\ UNCHANGED failures
           \/ isOpen /\ writeLocked /\ CommitSkipped(s)
           \/ /\ Writable /\ (CommitFails(s) \/ CommitSucceeds(s))
              /\ UNCHANGED failures
  /\ UNCHANGED <<callVars, syncId, toFetch, data, syncMutex, isAborted,
                 writeLocked, isOpen, appVars, otherVars>>

-----------------------------------------------------------------------------
(* Phases 3 and 4: files, in the sync or after a deferral.                 *)

FilesProcessedReleases(s) ==
  /\ pc[s] = "processing"
  /\ MarkCheckpoint(syncId[s], "completed") /\ Ends(s, "success")
  /\ ReleaseSyncMutex(engineOf[s])
  /\ UNCHANGED <<callVars, fetchVars, syncMutex, isAborted, lastSyncId, contentVars,
                 writeLocked, isOpen, appVars, otherVars>>
FilesProcessed(s) ==
  /\ pc[s] = "processing"
  /\ \/ isOpen /\ MarkCheckpoint(syncId[s], "completed") /\ Ends(s, "success")
     \/ UNCHANGED checkpoint /\ Ends(s, "threw")
  /\ UNCHANGED <<callVars, fetchVars, engineVars, contentVars, writeLocked, isOpen,
                 appVars, otherVars>>

BackgroundStarts(b) ==
  /\ background[b].at = "idle" /\ engine # None /\ isOpen
  /\ background' = [background EXCEPT ![b] =
       [at |-> "running", engine |-> engine]]
  /\ UNCHANGED <<pc, resultVars, callVars, fetchVars, engineVars, dbVars, appVars,
                 interrupted, wiped>>

(* The id and the snapshot to record with are read from the engine after   *)
(* the files are processed, and forgotten.                                 *)
BackgroundEnds(b) ==
  /\ background[b].at = "running" /\ isOpen
  /\ background' = [background EXCEPT ![b].at = "done"]
  /\ lastSyncId' = [lastSyncId EXCEPT ![background[b].engine] = None]
  /\ UNCHANGED <<pc, resultVars, callVars, fetchVars, mutexVars, isAborted, dbVars, appVars,
                 interrupted, wiped>>

BackgroundThrows(b) ==
  /\ background[b].at = "running"
  /\ background' = [background EXCEPT ![b].at = "done"]
  /\ UNCHANGED <<pc, resultVars, callVars, fetchVars, engineVars, dbVars, appVars,
                 interrupted, wiped>>

-----------------------------------------------------------------------------
(* What the application does.                                              *)

Happens(event) ==
  /\ event \in Events
  /\ events < MaxEvents /\ events' = events + 1

RunningOn(e) == {s \in Syncs : pc[s] \in Running /\ engineOf[s] = e}

(* abort(), on suspend and at the end of the application.                  *)
Abort ==
  /\ Happens("abort") /\ Quiet /\ engine # None
  /\ isAborted' = [isAborted EXCEPT ![engine] = TRUE]
  /\ ReleaseSyncMutex(engine)
  /\ interrupted' = interrupted \cup RunningOn(engine)
  /\ UNCHANGED <<pc, resultVars, callVars, fetchVars, syncMutex, lastSyncId, dbVars, appVars,
                 background, wiped>>

(* stop(): the request limiter, which all engines share, drops the         *)
(* requests it has queued without settling them: whoever awaits one, hangs. *)
(* From then on nothing in it ends a pause or times a request out.         *)
AwaitsRequest(s) ==
  \/ pc[s] \in {"fetchingCourses", "processing"}
  \/ pc[s] = "fetching" /\ toFetch[s] # {}

StopLimiter ==
  /\ \E lost \in SUBSET {s \in Syncs : AwaitsRequest(s)} :
       pc' = [s \in Syncs |-> IF s \in lost THEN "hung" ELSE pc[s]]
  /\ stalled' = TRUE

(* resetAppState: the content is deleted (the checkpoints are not), and    *)
(* when the credentials go too, the sync is "cancelled": its flag and its  *)
(* mutex are given up, it is not told.                                     *)
WipeContent ==
  /\ Quiet /\ resetStage = "idle" /\ Writable
  /\ metadataBy' = None /\ contentBy' = None

ResetKeepsToken ==
  /\ Happens("wipe")
  /\ WipeContent
  /\ UNCHANGED <<pc, resultVars, callVars, fetchVars, engineVars, checkpoint, committed,
                 writeLocked, isOpen, appVars, otherVars>>

ResetCancels ==
  /\ Happens("reset")
  /\ WipeContent
  /\ wiped' = wiped \cup {s \in Syncs : pc[s] \in Running}
  /\ resetEngine' = engine
  /\ \/ /\ engine # None /\ isSyncing[engine]
        /\ ReleaseSyncMutex(engine)
        /\ resetStage' = "cancelling"
        /\ UNCHANGED <<pc, stalled>>
     \/ /\ engine # None /\ ~isSyncing[engine]
        /\ ReleaseSyncMutex(engine)
        /\ StopLimiter
        /\ resetStage' = "deleting"
     \/ /\ engine = None
        /\ resetStage' = "deleting"
        /\ UNCHANGED <<pc, isSyncing, syncMutexRelease, released, stalled>>
  /\ UNCHANGED <<resultVars, callVars, fetchVars, syncMutex, isAborted, lastSyncId, checkpoint,
                 committed, writeLocked, isOpen, engine, created, connecting,
                 background, interrupted>>

ResetStops ==
  /\ resetStage = "cancelling" /\ Quiet
  /\ ReleaseSyncMutex(resetEngine)
  /\ StopLimiter
  /\ resetStage' = "deleting"
  /\ UNCHANGED <<resultVars, callVars, fetchVars, syncMutex, isAborted, lastSyncId, dbVars,
                 engine, created, connecting, resetEngine, otherVars>>

ResetLocks ==
  /\ resetStage = "deleting" /\ Quiet
  /\ resetStage' = "idle"
  /\ engine' = None
  /\ writeLocked' = TRUE
  /\ UNCHANGED <<pc, resultVars, callVars, fetchVars, engineVars, checkpoint, contentVars,
                 isOpen, created, connecting, resetEngine, stalled, otherVars>>

(* The watchdog of the write lock.                                         *)
LockTimesOut ==
  /\ writeLocked /\ isOpen /\ Quiet
  /\ writeLocked' = FALSE
  /\ UNCHANGED <<pc, resultVars, callVars, fetchVars, engineVars, checkpoint, contentVars,
                 isOpen, appVars, otherVars>>

(* canvas:connect: unlock, validate the token, make a new engine.  The old *)
(* one is neither stopped nor told.                                        *)
ConnectUnlocks ==
  /\ Happens("connect") /\ Quiet /\ ~connecting
  /\ writeLocked' = FALSE
  /\ connecting' = TRUE
  /\ UNCHANGED <<pc, resultVars, callVars, fetchVars, engineVars, checkpoint, contentVars,
                 isOpen, engine, created, resetStage, resetEngine, stalled,
                 otherVars>>

(* A rejected token leaves the engine as it is, an exception removes it.   *)
ConnectEnds ==
  /\ connecting /\ Quiet
  /\ connecting' = FALSE
  /\ \/ /\ created < NEngines
        /\ created' = created + 1 /\ engine' = created + 1
     \/ engine' \in {engine, None} /\ UNCHANGED created
  /\ UNCHANGED <<pc, resultVars, callVars, fetchVars, engineVars, dbVars,
                 resetStage, resetEngine, stalled, otherVars>>

(* The import of a database closes it and waits for a restart.             *)
CloseDatabase ==
  /\ Happens("close") /\ Quiet /\ isOpen
  /\ isOpen' = FALSE
  /\ UNCHANGED <<pc, resultVars, callVars, fetchVars, engineVars, checkpoint, contentVars,
                 writeLocked, appVars, otherVars>>

(* Canvas answers 429 from now on: each request is asked again for ever.   *)
CanvasStalls ==
  /\ Happens("stall") /\ Quiet /\ ~stalled
  /\ stalled' = TRUE
  /\ UNCHANGED <<pc, resultVars, callVars, fetchVars, engineVars, dbVars, engine, created,
                 connecting, resetStage, resetEngine, otherVars>>

(* The process ends, by a crash or not, and the application starts again:  *)
(* only the database is left.                                              *)
Restarted ==
  /\ Happens("restart") /\ created < NEngines
  /\ pc' = [s \in Syncs |-> IF pc[s] = "idle" THEN "idle" ELSE "done"]
  /\ result' = [s \in Syncs |-> IF pc[s] \in Running \cup {"hung"} THEN "killed" ELSE result[s]]
  /\ created' = created + 1 /\ engine' = created + 1
  /\ connecting' = FALSE
  /\ resetStage' = "idle" /\ resetEngine' = None
  /\ stalled' = FALSE
  /\ writeLocked' = FALSE /\ isOpen' = TRUE
  /\ background' = [b \in Backgrounds |->
       IF background[b].at = "running" THEN [background[b] EXCEPT !.at = "done"] ELSE background[b]]
  /\ isSyncing' = [e \in Engines |-> FALSE] /\ isAborted' = [e \in Engines |-> FALSE]
  /\ syncMutex' = [e \in Engines |-> None] /\ syncMutexRelease' = [e \in Engines |-> None]
  /\ lastSyncId' = [e \in Engines |-> None]
  /\ released' = {s \in Syncs : pc[s] # "idle"}
  /\ UNCHANGED <<lockedOut, callVars, fetchVars, interrupted, wiped>>

Restart == Restarted /\ UNCHANGED <<checkpoint, contentVars>>

(* It ends between two statements of one step: of the early metadata and   *)
(* the checkpoint, of the mark, the transaction and its completion, or     *)
(* after the completion of a sync that processed files.                    *)
EarlyMetadataOnly(s) ==
  /\ pc[s] \in {"fetchingCourses", "restored"} /\ syncId[s] = s
  /\ metadataBy' = s
  /\ UNCHANGED <<checkpoint, contentBy, committed>>
MarkedOnly(s) ==
  /\ FetchEnded(s) /\ ~isAborted[engineOf[s]]
  /\ MarkCheckpoint(syncId[s], "commit")
  /\ UNCHANGED contentVars
MarkedAndCommitted(s) ==
  /\ FetchEnded(s) /\ ~isAborted[engineOf[s]]
  /\ MarkCheckpoint(syncId[s], "commit")
  /\ Committed(s)
CompletedOnly(s) ==
  /\ pc[s] = "processing"
  /\ MarkCheckpoint(syncId[s], "completed")
  /\ UNCHANGED contentVars

CutInHalf(s) ==
  /\ Writable
  /\ \/ EarlyMetadataOnly(s) \/ MarkedOnly(s) \/ MarkedAndCommitted(s) \/ CompletedOnly(s)
  /\ Restarted

-----------------------------------------------------------------------------

CourseArrives(s) == \E c \in Courses, got \in SUBSET Kinds : CourseFetched(s, c, got)

SyncAll(s, o) ==
  \/ SyncAllClosed(s, o) \/ SyncAllLocked(s, o) \/ SyncAllRefused(s, o)
  \/ SyncAllAccepted(s, o)

Continue(s) ==
  \/ MutexGranted(s) \/ CoursesFail(s) \/ CoursesKnown(s) \/ CourseArrives(s)
  \/ CommitPhase(s) \/ FilesProcessed(s)

Background(b) == BackgroundStarts(b) \/ BackgroundEnds(b) \/ BackgroundThrows(b)

Event ==
  \/ Abort \/ ResetKeepsToken \/ ResetCancels \/ ConnectUnlocks \/ CloseDatabase
  \/ CanvasStalls \/ Restart \/ \E s \in Syncs : CutInHalf(s)

Next ==
  \/ Event
  \/ /\ UNCHANGED events
     /\ \/ \E s \in Syncs : Continue(s) \/ \E o \in Options : SyncAll(s, o)
        \/ \E b \in Backgrounds : Background(b)
        \/ ResetStops \/ ResetLocks \/ LockTimesOut \/ ConnectEnds

Spec == Init /\ [][Next]_vars

(* A sync goes on whenever what it awaits has settled.  A promise of the   *)
(* limiter settles only while the limiter is not stalled (RateLimiter      *)
(* checks it); for all else there is no such condition.                    *)
MayHang(s) == stalled /\ AwaitsRequest(s)
FairSpec ==
  /\ Spec
  /\ \A s \in Syncs : WF_vars(~MayHang(s) /\ Continue(s) /\ UNCHANGED events)
  /\ WF_vars((ResetStops \/ ResetLocks) /\ UNCHANGED events)
-----------------------------------------------------------------------------
(* Properties.                                                             *)

TypeOK ==
  /\ pc \in [Syncs -> Stages] /\ result \in [Syncs -> Results] /\ lockedOut \subseteq Syncs
  /\ engineOf \in [Syncs -> Engines \cup {None}]
  /\ options \in [Syncs -> [resume : BOOLEAN, defer : BOOLEAN]]
  /\ syncId \in [Syncs -> Syncs] /\ predecessor \in [Syncs -> Syncs \cup {None}]
  /\ toFetch \in [Syncs -> SUBSET Courses]
  /\ data \in [Syncs -> [Courses -> SUBSET Kinds]]
  /\ failures \in [Syncs -> BOOLEAN]
  /\ isSyncing \in [Engines -> BOOLEAN] /\ isAborted \in [Engines -> BOOLEAN]
  /\ syncMutex \in [Engines -> Syncs \cup {None}]
  /\ syncMutexRelease \in [Engines -> Syncs \cup {None}]
  /\ lastSyncId \in [Engines -> Syncs \cup {None}]
  /\ released \subseteq Syncs
  /\ checkpoint \in [Syncs -> [phase : Phases, saved : [Courses -> SUBSET Kinds]]]
  /\ metadataBy \in Syncs \cup {None} /\ contentBy \in Syncs \cup {None}
  /\ committed \subseteq Syncs
  /\ writeLocked \in BOOLEAN /\ isOpen \in BOOLEAN
  /\ engine \in Engines \cup {None} /\ created \in Engines
  /\ connecting \in BOOLEAN /\ stalled \in BOOLEAN
  /\ resetStage \in {"idle", "cancelling", "deleting"}
  /\ resetEngine \in Engines \cup {None} /\ events \in 0..MaxEvents
  /\ background \in [Backgrounds -> [at : {"idle", "running", "done"},
                                     engine : Engines \cup {None}]]
  /\ interrupted \subseteq Syncs /\ wiped \subseteq Syncs

Accepted(s) == engineOf[s] # None

(* Whoever may still have to wait for a mutex, waits for one that somebody *)
(* will resolve: the unresolved mutexes are those of syncs that wait       *)
(* themselves, for an earlier call, and of the sync whose release function *)
(* the engine holds, which is before its commit.  In spite of aborts and   *)
(* resets, and of syncs that release what another one holds.               *)
MutexNeverLost ==
  \A s \in Syncs :
    Accepted(s) /\ s \notin released =>
      \/ pc[s] = "waiting" /\ predecessor[s] < s
      \/ /\ syncMutexRelease[engineOf[s]] = s
         /\ isOpen => pc[s] \in Fetching \cup {"hung"}

(* The flag that refuses calls is never on without a sync to turn it off.  *)
BusyMeansRunning ==
  \A e \in Engines :
    isSyncing[e] /\ isOpen /\ e = engine =>
      \E s \in Syncs : engineOf[s] = e /\ pc[s] \in {"waiting", "hung"} \cup Fetching

(* What syncAll answers is what happened to the database: a sync that      *)
(* failed or was refused has not committed, and one that answers success   *)
(* has, whatever else the application did meanwhile; unless it found the   *)
(* database locked, when it answers success with nothing done.             *)
ResultTruthful ==
  \A s \in Syncs :
    /\ result[s] \in {"failed", "refused"} => s \notin committed
    /\ result[s] = "success" => s \in committed \cup lockedOut

(* A checkpoint that says completed belongs to data that is in the         *)
(* database, also when it was resumed, cleared by another sync, or found   *)
(* after a restart.  One that says commit does too, or the process ended   *)
(* in the middle of a sync of this id: an error never leaves it behind.    *)
CheckpointTruthful ==
  \A id \in Syncs :
    LET owners == {s \in Syncs : syncId[s] = id} IN
    /\ checkpoint[id].phase = "completed" => owners \cap committed # {}
    /\ checkpoint[id].phase = "commit" =>
         \E s \in owners : s \in committed \/ result[s] = "killed"

(* While the database is locked or closed, no late answer of Canvas        *)
(* changes what it holds.                                                  *)
NoStrayWrites ==
  [][(writeLocked /\ writeLocked') \/ (~isOpen /\ ~isOpen') =>
       UNCHANGED <<checkpoint, metadataBy, contentBy>>]_vars

(* Between the grant of the mutex and the commit there is one sync.        *)
InSession == {s \in Syncs : pc[s] \in Fetching}
OneAtATime == \A s, t \in InSession : engineOf[s] = engineOf[t] => s = t

(* A sync that answers success and lists no error has committed a list,    *)
(* or for a guarded kind a refusal, for every kind of data of every        *)
(* course; unless it found the database locked and did nothing.            *)
CleanSuccessIsComplete ==
  \A s \in Syncs :
    result[s] = "success" /\ ~failures[s] =>
      \/ s \in committed /\ \A c \in Courses : data[s][c] = Kinds
      \/ s \in lockedOut \ committed

(* Without aborts, resets and reconnections, the sessions of the engine    *)
(* follow one another as in SerialSync, crashes in the middle of a step    *)
(* included; what the sessions write early is in view.                     *)
Sessions == INSTANCE SerialSync WITH
  NSessions <- NSyncs,
  session <- IF InSession = {} THEN None ELSE CHOOSE s \in InSession : TRUE,
  courses <- metadataBy,
  content <- contentBy
ImplementsSerialSync == Sessions!Spec

(* Every accepted call comes to an end, unless stop() dropped its requests *)
(* or a request that the stalled limiter keeps is its own, or that of an   *)
(* earlier call, for whose mutex it waits.                                 *)
HeldUp(s) == \E t \in 1..s : engineOf[t] = engineOf[s] /\ MayHang(t)
SyncsEnd == \A s \in Syncs : pc[s] \in Running ~> (pc[s] \in {"done", "hung"} \/ HeldUp(s))

(* The engine takes calls again after every sync, with the same exception. *)
EngineFrees ==
  \A e \in Engines :
    (engine = e /\ isSyncing[e]) ~>
      \/ engine # e \/ ~isSyncing[e] \/ ~isOpen
      \/ \E s \in Syncs : engineOf[s] = e /\ MayHang(s)

-----------------------------------------------------------------------------
(* What the comments say and the code does not do.                         *)

(* "Abort the current sync operation immediately": a sync that was running *)
(* when its engine was aborted does not commit.                            *)
AbortedNeverCommits ==
  [][\A s \in interrupted : s \in committed' => s \in committed]_vars

(* "Lock database to prevent any stray writes from in-flight operations":  *)
(* a sync that was running when a reset emptied the database does not      *)
(* write what it fetched for the old account.                              *)
ResetHolds ==
  [][\A s \in wiped : s \in committed' => s \in committed]_vars
=============================================================================
