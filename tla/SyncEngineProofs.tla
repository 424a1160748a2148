-------------------------- MODULE SyncEngineProofs --------------------------
(***************************************************************************)
(* The mutex of the engine, for any number of calls and engines and        *)
(* whatever the application does to them.  The calls an engine accepts     *)
(* form a chain in the order of the calls: each waits for the one accepted *)
(* before it, and when one is granted, all earlier ones are released.      *)
(* That makes the one release function an engine holds enough.             *)
(*                                                                         *)
(* A step concerns the chain in one of few ways (StepKinds), so that the   *)
(* invariant is proved of these and not of every action of the engine.     *)
(***************************************************************************)
EXTENDS SyncEngine, TLAPS

(* What the types of the reset rest on: it cancels the sync of an engine.   *)
ResetHasEngine == resetStage = "cancelling" => resetEngine # None

(* The calls of syncAll in their order; engines are made in that order     *)
(* too, and the current one is the last, or none.                          *)
CallsInOrder ==
  /\ engine \in {None, created}
  /\ \A s \in Syncs :
       /\ pc[s] = "idle" => ~Accepted(s)
       /\ pc[s] \notin {"idle", "done"} => Accepted(s)
       /\ engineOf[s] <= created
       /\ pc[s] = "done" <=> result[s] # "none"
  /\ \A s, t \in Syncs :
       t < s => /\ pc[s] # "idle" => pc[t] # "idle"
                /\ Accepted(s) /\ Accepted(t) => engineOf[t] <= engineOf[s]

-----------------------------------------------------------------------------
(* Types.                                                                  *)

(* releaseSyncMutex() keeps the types of the fields of the engines.        *)
LEMMA ReleaseTypes ==
  ASSUME TypeOK, NEW e \in Engines, ReleaseSyncMutex(e)
  PROVE  /\ isSyncing' \in [Engines -> BOOLEAN]
         /\ syncMutexRelease' \in [Engines -> Syncs \cup {None}]
         /\ released' \subseteq Syncs
  BY DEF TypeOK, ReleaseSyncMutex

(* So do the marks of a checkpoint and the end of a sync.                  *)
LEMMA MarkTypes ==
  ASSUME TypeOK, NEW id \in Syncs, NEW phase \in Phases, MarkCheckpoint(id, phase)
  PROVE  checkpoint' \in [Syncs -> [phase : Phases, saved : [Courses -> SUBSET Kinds]]]
  BY DEF TypeOK, MarkCheckpoint

(* And the end of a sync.                                                  *)
LEMMA EndsTypes ==
  ASSUME TypeOK, NEW s \in Syncs, NEW how \in Results, Ends(s, how)
  PROVE  /\ pc' \in [Syncs -> Stages] /\ result' \in [Syncs -> Results]
         /\ lockedOut' \subseteq Syncs
  BY DEF TypeOK, Ends, Stages

(* A call.                                                                 *)
LEMMA SyncAllTypes ==
  ASSUME TypeOK, NEW s \in Syncs, NEW o \in Options, SyncAll(s, o), UNCHANGED events
  PROVE  TypeOK'
  <1>1. Called(s, o)
    BY DEF SyncAll, SyncAllClosed, SyncAllLocked, SyncAllRefused, Answered, SyncAllAccepted
  <1>2. /\ engine # None
        /\ options' = [options EXCEPT ![s] = o]
        /\ UNCHANGED <<syncId, toFetch, data, failures, syncMutexRelease, released,
                       isAborted, lastSyncId, checkpoint, metadataBy, contentBy, committed,
                       writeLocked, isOpen, engine, created, connecting, resetStage,
                       resetEngine, stalled, background, interrupted, wiped, events>>
    BY <1>1 DEF Called, fetchVars, dbVars, contentVars, appVars, otherVars
  <1>3. options' \in [Syncs -> [resume : BOOLEAN, defer : BOOLEAN]]
    BY <1>2, InputAssumption DEF TypeOK
  <1>4. /\ pc' \in [Syncs -> Stages] /\ result' \in [Syncs -> Results]
        /\ lockedOut' \subseteq Syncs
        /\ engineOf' \in [Syncs -> Engines \cup {None}]
        /\ predecessor' \in [Syncs -> Syncs \cup {None}]
        /\ isSyncing' \in [Engines -> BOOLEAN]
        /\ syncMutex' \in [Engines -> Syncs \cup {None}]
    <2>1. ASSUME NEW how \in {"success", "failed", "refused"}, Answered(s, o, how)
          PROVE  <1>4!:
      BY <2>1, EndsTypes DEF Answered, TypeOK, Results
    <2>2. CASE SyncAllAccepted(s, o)
      BY <1>2, <2>2 DEF SyncAllAccepted, resultVars, TypeOK, Stages, Running
    <2>. QED BY <2>1, <2>2 DEF SyncAll, SyncAllClosed, SyncAllLocked, SyncAllRefused
  <1>. QED BY <1>2, <1>3, <1>4 DEF TypeOK

(* The steps of a sync after an await.                                     *)
LEMMA MutexGrantedTypes ==
  ASSUME TypeOK, NEW s \in Syncs, MutexGranted(s), UNCHANGED events
  PROVE  TypeOK'
  <1>1. /\ syncMutexRelease' = [syncMutexRelease EXCEPT ![engineOf[s]] = s]
        /\ isAborted' = [isAborted EXCEPT ![engineOf[s]] = FALSE]
        /\ UNCHANGED <<result, lockedOut, engineOf, options, predecessor, toFetch, failures, isSyncing,
                       syncMutex, released, lastSyncId, metadataBy, contentBy, committed,
                       writeLocked, isOpen, engine, created, connecting, resetStage,
                       resetEngine, stalled, background, interrupted, wiped, events>>
    BY DEF MutexGranted, callVars, resultVars, contentVars, appVars, otherVars
  <1>2. /\ syncMutexRelease' \in [Engines -> Syncs \cup {None}]
        /\ isAborted' \in [Engines -> BOOLEAN]
    BY <1>1 DEF TypeOK
  <1>3. CASE options[s].resume
    <2>1. PICK id \in Resumable : IF id = None THEN StartFresh(s) ELSE Resume(s, id)
      BY <1>3 DEF MutexGranted
    <2>2. id \in Syncs \cup {None} /\ UNCHANGED checkpoint
      BY <1>3 DEF MutexGranted, Resumable, Incomplete
    <2>3. /\ pc' \in [Syncs -> Stages] /\ syncId' \in [Syncs -> Syncs]
          /\ data' \in [Syncs -> [Courses -> SUBSET Kinds]]
      <3>1. CASE id = None
        BY <2>1, <3>1 DEF StartFresh, TypeOK, Stages, Running, Fetching
      <3>2. CASE id # None
        <4>1. Resume(s, id) /\ id \in Syncs
          BY <2>1, <2>2, <3>2
        <4>2. checkpoint[id].saved \in [Courses -> SUBSET Kinds]
          BY <4>1 DEF TypeOK
        <4>3. pc' \in {[pc EXCEPT ![s] = "restored"], [pc EXCEPT ![s] = "fetchingCourses"]}
              /\ data' \in {data, [data EXCEPT ![s] = checkpoint[id].saved]}
              /\ syncId' = [syncId EXCEPT ![s] = id]
          BY <4>1 DEF Resume
        <4>. QED BY <4>1, <4>2, <4>3 DEF TypeOK, Stages, Running, Fetching
      <3>. QED BY <3>1, <3>2
    <2>. QED BY <1>1, <1>2, <2>2, <2>3 DEF TypeOK
  <1>4. CASE ~options[s].resume
    <2>1. StartFresh(s) /\ ClearIncompleteCheckpoints
      BY <1>4 DEF MutexGranted
    <2>2. /\ pc' \in [Syncs -> Stages] /\ UNCHANGED <<syncId, data>>
      BY <2>1 DEF StartFresh, TypeOK, Stages, Running, Fetching
    <2>3. checkpoint' \in [Syncs -> [phase : Phases, saved : [Courses -> SUBSET Kinds]]]
      BY <2>1 DEF ClearIncompleteCheckpoints, TypeOK, Phases
    <2>. QED BY <1>1, <1>2, <2>2, <2>3 DEF TypeOK
  <1>. QED BY <1>3, <1>4

(* A failed fetch, before or after the courses are known.                  *)
LEMMA FetchFailedTypes ==
  ASSUME TypeOK, NEW s \in Syncs, engineOf[s] # None, FetchFailed(s)
  PROVE  /\ pc' \in [Syncs -> Stages] /\ result' \in [Syncs -> Results]
         /\ lockedOut' \subseteq Syncs
         /\ isSyncing' \in [Engines -> BOOLEAN]
         /\ syncMutexRelease' \in [Engines -> Syncs \cup {None}]
         /\ released' \subseteq Syncs
         /\ checkpoint' \in [Syncs -> [phase : Phases, saved : [Courses -> SUBSET Kinds]]]
         /\ UNCHANGED <<toFetch, metadataBy, contentBy, committed>>
  <1>1. engineOf[s] \in Engines /\ syncId[s] \in Syncs
    BY DEF TypeOK
  <1>2. "failed" \in Results /\ "failed" \in Phases
    BY DEF Results, Phases
  <1>3. /\ MarkCheckpoint(syncId[s], "failed") /\ ReleaseSyncMutex(engineOf[s])
        /\ Ends(s, "failed") /\ UNCHANGED <<toFetch, metadataBy, contentBy, committed>>
    BY DEF FetchFailed, contentVars
  <1>. QED BY <1>1, <1>2, <1>3, ReleaseTypes, MarkTypes, EndsTypes

(* The courses are known, or are not.                                      *)
LEMMA CoursesTypes ==
  ASSUME TypeOK, NEW s \in Syncs, engineOf[s] # None,
         CoursesFail(s) \/ CoursesKnown(s), UNCHANGED events
  PROVE  TypeOK'
  <1>1. UNCHANGED <<engineOf, options, predecessor, syncId, data, failures, syncMutex,
                    isAborted, lastSyncId, writeLocked, isOpen, engine, created, connecting,
                    resetStage, resetEngine, stalled, background, interrupted, wiped, events>>
    BY DEF CoursesFail, CoursesKnown, callVars, resultVars, appVars, otherVars
  <1>2. CASE FetchFailed(s)
    BY <1>1, <1>2, FetchFailedTypes DEF TypeOK
  <1>3. CASE ~FetchFailed(s)
    <2>1. /\ metadataBy' = s
          /\ checkpoint' = IF syncId[s] = s
                           THEN [checkpoint EXCEPT ![s] = [phase |-> "fetch", saved |-> NoData]]
                           ELSE checkpoint
          /\ toFetch' = [toFetch EXCEPT ![s] = CoursesToFetch(s)]
          /\ pc' = [pc EXCEPT ![s] = "fetching"]
          /\ UNCHANGED <<result, lockedOut, isSyncing, syncMutexRelease, released, contentBy, committed>>
      BY <1>3 DEF CoursesFail, CoursesKnown, resultVars
    <2>2. [phase |-> "fetch", saved |-> NoData] \in [phase : Phases, saved : [Courses -> SUBSET Kinds]]
      BY DEF Phases, NoData
    <2>3. /\ checkpoint' \in [Syncs -> [phase : Phases, saved : [Courses -> SUBSET Kinds]]]
          /\ toFetch' \in [Syncs -> SUBSET Courses]
          /\ pc' \in [Syncs -> Stages]
      BY <2>1, <2>2 DEF TypeOK, CoursesToFetch, Stages, Running, Fetching
    <2>. QED BY <1>1, <2>1, <2>3 DEF TypeOK
  <1>. QED BY <1>2, <1>3

(* The data of a course arrives.                                           *)
LEMMA CourseFetchedTypes ==
  ASSUME TypeOK, NEW s \in Syncs, NEW c \in Courses, NEW got \in SUBSET Kinds,
         CourseFetched(s, c, got), UNCHANGED events
  PROVE  TypeOK'
  <1>1. /\ toFetch' = [toFetch EXCEPT ![s] = @ \ {c}]
        /\ data' = [data EXCEPT ![s][c] = @ \cup got]
        /\ failures' = [failures EXCEPT ![s] = CallFailed(s, got)]
        /\ checkpoint' = IF Writable /\ checkpoint[syncId[s]].phase # "none"
                   THEN [checkpoint EXCEPT ![syncId[s]].saved[c] = @ \cup (got \ {"groups"})]
                   ELSE checkpoint
        /\ UNCHANGED <<pc, result, lockedOut, engineOf, options, predecessor, syncId, isSyncing, syncMutex,
                       syncMutexRelease, released, isAborted, lastSyncId, metadataBy, contentBy,
                       committed, writeLocked, isOpen, engine, created, connecting,
                       resetStage, resetEngine, stalled, background, interrupted, wiped, events>>
    BY DEF CourseFetched, callVars, resultVars, engineVars, mutexVars, contentVars, appVars, otherVars
  <1>2. /\ toFetch' \in [Syncs -> SUBSET Courses]
        /\ data' \in [Syncs -> [Courses -> SUBSET Kinds]]
        /\ failures' \in [Syncs -> BOOLEAN]
    BY <1>1 DEF TypeOK, CallFailed
  <1>3. checkpoint' \in [Syncs -> [phase : Phases, saved : [Courses -> SUBSET Kinds]]]
    <2> DEFINE id == syncId[s]
               old == checkpoint[id]
               new == [old EXCEPT !.saved[c] = @ \cup (got \ {"groups"})]
    <2>1. /\ id \in Syncs /\ old \in [phase : Phases, saved : [Courses -> SUBSET Kinds]]
          /\ checkpoint \in [Syncs -> [phase : Phases, saved : [Courses -> SUBSET Kinds]]]
      BY DEF TypeOK
    <2>2. checkpoint' = checkpoint \/ checkpoint' = [checkpoint EXCEPT ![id] = new]
      BY <1>1, <2>1
    <2>3. new \in [phase : Phases, saved : [Courses -> SUBSET Kinds]]
      <3> HIDE DEF old
      <3>. QED BY <2>1
    <2> HIDE DEF id, old, new
    <2>. QED BY <2>1, <2>2, <2>3
  <1>. QED BY <1>1, <1>2, <1>3 DEF TypeOK

(* The commit, and the end of the files.                                   *)
LEMMA CommitTypes ==
  ASSUME TypeOK, NEW s \in Syncs, engineOf[s] # None, CommitPhase(s), UNCHANGED events
  PROVE  TypeOK'
  <1>1. /\ engineOf[s] \in Engines /\ syncId[s] \in Syncs
        /\ \A how \in {"failed", "threw", "success"} : how \in Results
        /\ \A phase \in {"failed", "commit", "completed"} : phase \in Phases
    BY DEF TypeOK, Results, Phases
  <1>2. UNCHANGED <<engineOf, options, predecessor, syncId, toFetch, data, syncMutex,
                    isAborted, writeLocked, isOpen, engine, created, connecting, resetStage,
                    resetEngine, stalled, background, interrupted, wiped, events>>
    BY DEF CommitPhase, callVars, resultVars, appVars, otherVars
  <1>3. CASE FetchFailed(s) /\ UNCHANGED <<failures, lastSyncId>>
    BY <1>2, <1>3, FetchFailedTypes DEF TypeOK
  <1>4. CASE SnapshotThrows(s) /\ UNCHANGED failures
    <2>1. /\ Ends(s, "threw")
          /\ UNCHANGED <<checkpoint, metadataBy, contentBy, committed, isSyncing,
                         syncMutexRelease, released, lastSyncId>>
      BY <1>4 DEF SnapshotThrows, contentVars
    <2>. QED BY <1>1, <1>2, <1>4, <2>1, EndsTypes DEF TypeOK
  <1>5. CASE CommitSkipped(s)
    <2>1. /\ Ends(s, "success") /\ ReleaseSyncMutex(engineOf[s])
          /\ failures' = [failures EXCEPT ![s] = FALSE]
          /\ UNCHANGED <<checkpoint, metadataBy, contentBy, committed, lastSyncId>>
      BY <1>5 DEF CommitSkipped, contentVars
    <2>. QED BY <1>1, <1>2, <2>1, EndsTypes, ReleaseTypes DEF TypeOK
  <1>6. CASE CommitFails(s) /\ UNCHANGED failures
    <2>1. /\ Ends(s, "failed") /\ ReleaseSyncMutex(engineOf[s])
          /\ MarkCheckpoint(syncId[s], "failed")
          /\ UNCHANGED <<metadataBy, contentBy, committed, lastSyncId>>
      BY <1>6 DEF CommitFails, contentVars
    <2>. QED BY <1>1, <1>2, <1>6, <2>1, EndsTypes, ReleaseTypes, MarkTypes DEF TypeOK
  <1>7. CASE CommitSucceeds(s) /\ UNCHANGED failures
    <2>1. /\ metadataBy' = s /\ contentBy' = s /\ committed' = committed \cup {s}
          /\ ReleaseSyncMutex(engineOf[s])
      BY <1>7 DEF CommitSucceeds, Committed
    <2>2. /\ contentBy' \in Syncs \cup {None} /\ metadataBy' \in Syncs \cup {None}
          /\ committed' \subseteq Syncs
          /\ isSyncing' \in [Engines -> BOOLEAN]
          /\ syncMutexRelease' \in [Engines -> Syncs \cup {None}]
          /\ released' \subseteq Syncs
      BY <1>1, <2>1, ReleaseTypes DEF TypeOK
    <2>3. CASE HandleDeferred(s)
      <3>1. /\ MarkCheckpoint(syncId[s], "completed") /\ Ends(s, "success")
            /\ lastSyncId' \in [Engines -> Syncs \cup {None}]
        BY <2>3 DEF HandleDeferred, TypeOK
      <3>. QED BY <1>1, <1>2, <1>7, <2>2, <3>1, EndsTypes, MarkTypes DEF TypeOK
    <2>4. CASE ~HandleDeferred(s)
      <3>1. /\ MarkCheckpoint(syncId[s], "commit") /\ UNCHANGED <<result, lockedOut, lastSyncId>>
            /\ pc' \in [Syncs -> Stages]
        BY <1>7, <2>4 DEF CommitSucceeds, resultVars, TypeOK, Stages, Running
      <3>. QED BY <1>1, <1>2, <1>7, <2>2, <3>1, MarkTypes DEF TypeOK
    <2>. QED BY <2>3, <2>4
  <1>. QED BY <1>3, <1>4, <1>5, <1>6, <1>7 DEF CommitPhase

(* The files are processed.                                                *)
LEMMA FilesProcessedTypes ==
  ASSUME TypeOK, NEW s \in Syncs, FilesProcessed(s), UNCHANGED events
  PROVE  TypeOK'
  <1>1. UNCHANGED <<engineOf, options, predecessor, syncId, toFetch, data, failures, isSyncing,
                    syncMutex, syncMutexRelease, released, isAborted, lastSyncId, metadataBy,
                    contentBy, committed, writeLocked, isOpen, engine, created, connecting,
                    resetStage, resetEngine, stalled, background, interrupted, wiped, events>>
    BY DEF FilesProcessed, callVars, resultVars, fetchVars, engineVars, mutexVars, contentVars,
           appVars, otherVars
  <1>2. PICK how \in {"success", "threw"} : Ends(s, how)
    BY DEF FilesProcessed
  <1>3. UNCHANGED checkpoint \/ MarkCheckpoint(syncId[s], "completed")
    BY DEF FilesProcessed
  <1>4. syncId[s] \in Syncs /\ how \in Results /\ "completed" \in Phases
    BY DEF TypeOK, Results, Phases
  <1>5. /\ pc' \in [Syncs -> Stages] /\ result' \in [Syncs -> Results]
        /\ lockedOut' \subseteq Syncs
    BY <1>2, <1>4, EndsTypes
  <1>6. checkpoint' \in [Syncs -> [phase : Phases, saved : [Courses -> SUBSET Kinds]]]
    BY <1>3, <1>4, MarkTypes DEF TypeOK
  <1>. QED BY <1>1, <1>5, <1>6 DEF TypeOK

(* The runs of processFileReferencesBackground.                            *)
LEMMA BackgroundTypes ==
  ASSUME TypeOK, NEW b \in Backgrounds, Background(b), UNCHANGED events
  PROVE  TypeOK'
  <1>1. /\ UNCHANGED <<pc, result, lockedOut, engineOf, options, predecessor, syncId, toFetch, data, failures,
                       isSyncing, syncMutex, syncMutexRelease, released, isAborted, checkpoint,
                       metadataBy, contentBy, committed, writeLocked, isOpen, engine, created,
                       connecting, resetStage, resetEngine, stalled, interrupted, wiped, events>>
        /\ \/ UNCHANGED lastSyncId
           \/ lastSyncId' = [lastSyncId EXCEPT ![background[b].engine] = None]
        /\ \/ background' = [background EXCEPT ![b] = [at |-> "running", engine |-> engine]]
           \/ background' = [background EXCEPT ![b].at = "done"]
    BY DEF Background, BackgroundStarts, BackgroundEnds, BackgroundThrows, callVars, resultVars, fetchVars,
           engineVars, mutexVars, dbVars, contentVars, appVars
  <1>2. lastSyncId' \in [Engines -> Syncs \cup {None}]
    BY <1>1 DEF TypeOK
  <1>3. background' \in [Backgrounds -> [at : {"idle", "running", "done"},
                                         engine : Engines \cup {None}]]
    <2>1. CASE background' = [background EXCEPT ![b] = [at |-> "running", engine |-> engine]]
      BY <2>1 DEF TypeOK
    <2>2. CASE background' = [background EXCEPT ![b].at = "done"]
      <3>1. background[b] \in [at : {"idle", "running", "done"}, engine : Engines \cup {None}]
        BY DEF TypeOK
      <3>. QED BY <2>2, <3>1 DEF TypeOK
    <2>. QED BY <1>1, <2>1, <2>2
  <1>. QED BY <1>1, <1>2, <1>3 DEF TypeOK

(* The part of the types that a crash in the middle of a step concerns.    *)
ContentTypes ==
  /\ checkpoint \in [Syncs -> [phase : Phases, saved : [Courses -> SUBSET Kinds]]]
  /\ metadataBy \in Syncs \cup {None} /\ contentBy \in Syncs \cup {None}
  /\ committed \subseteq Syncs

(* The events of the application.                                          *)
LEMMA EventTypes ==
  ASSUME TypeOK, Event
  PROVE  TypeOK'
  <1>1. events' \in 0..MaxEvents
    BY SizeAssumption DEF Event, Abort, ResetKeepsToken, ResetCancels, ConnectUnlocks,
       CloseDatabase, CanvasStalls, Restart, CutInHalf, Restarted, Happens, TypeOK
  <1>2. CASE Abort
    <2>1. /\ engine \in Engines /\ ReleaseSyncMutex(engine)
          /\ isAborted' = [isAborted EXCEPT ![engine] = TRUE]
          /\ interrupted' = interrupted \cup RunningOn(engine)
          /\ UNCHANGED <<pc, result, lockedOut, engineOf, options, predecessor, syncId, toFetch, data,
                         failures, syncMutex, lastSyncId, checkpoint, metadataBy, contentBy,
                         committed, writeLocked, isOpen, engine, created, connecting,
                         resetStage, resetEngine, stalled, background, wiped>>
      BY <1>2 DEF Abort, TypeOK, callVars, resultVars, fetchVars, dbVars, contentVars, appVars
    <2>2. isAborted' \in [Engines -> BOOLEAN] /\ interrupted' \subseteq Syncs
      BY <2>1 DEF TypeOK, RunningOn
    <2>. QED BY <1>1, <2>1, <2>2, ReleaseTypes DEF TypeOK
  <1>3. CASE ResetKeepsToken
    <2>1. /\ metadataBy' = None /\ contentBy' = None
          /\ UNCHANGED <<pc, result, lockedOut, engineOf, options, predecessor, syncId, toFetch, data,
                         failures, isSyncing, syncMutex, syncMutexRelease, released, isAborted,
                         lastSyncId, checkpoint, committed, writeLocked, isOpen, engine, created,
                         connecting, resetStage, resetEngine, stalled, background, interrupted, wiped>>
      BY <1>3 DEF ResetKeepsToken, WipeContent, callVars, resultVars, fetchVars, engineVars, mutexVars,
                  appVars, otherVars
    <2>. QED BY <1>1, <2>1 DEF TypeOK
  <1>4. CASE ResetCancels
    <2>1. /\ metadataBy' = None /\ contentBy' = None
          /\ wiped' = wiped \cup {s \in Syncs : pc[s] \in Running}
          /\ resetEngine' = engine /\ resetStage' \in {"cancelling", "deleting"}
          /\ UNCHANGED <<result, lockedOut, engineOf, options, predecessor, syncId, toFetch, data,
                         failures, syncMutex, isAborted, lastSyncId, checkpoint, committed,
                         writeLocked, isOpen, engine, created, connecting, background,
                         interrupted>>
      BY <1>4 DEF ResetCancels, WipeContent, callVars, resultVars, fetchVars
    <2>2. pc' \in [Syncs -> Stages] /\ stalled' \in BOOLEAN
      <3>1. UNCHANGED <<pc, stalled>> \/ StopLimiter
        BY <1>4 DEF ResetCancels
      <3>. QED BY <3>1 DEF StopLimiter, TypeOK, Stages
    <2>3. /\ isSyncing' \in [Engines -> BOOLEAN] /\ released' \subseteq Syncs
          /\ syncMutexRelease' \in [Engines -> Syncs \cup {None}]
      <3>1. CASE engine # None /\ ReleaseSyncMutex(engine)
        <4>1. engine \in Engines
          BY <3>1 DEF TypeOK
        <4>. QED BY <3>1, <4>1, ReleaseTypes
      <3>2. CASE UNCHANGED <<isSyncing, syncMutexRelease, released>>
        BY <3>2 DEF TypeOK
      <3>. QED BY <1>4, <3>1, <3>2 DEF ResetCancels
    <2>4. wiped' \subseteq Syncs
      BY <2>1 DEF TypeOK
    <2>. QED BY <1>1, <2>1, <2>2, <2>3, <2>4 DEF TypeOK
  <1>5. CASE ConnectUnlocks
    <2>1. /\ writeLocked' = FALSE /\ connecting' = TRUE
          /\ UNCHANGED <<pc, result, lockedOut, engineOf, options, predecessor, syncId, toFetch, data,
                         failures, isSyncing, syncMutex, syncMutexRelease, released, isAborted,
                         lastSyncId, checkpoint, metadataBy, contentBy, committed, isOpen,
                         engine, created, resetStage, resetEngine, stalled, background, interrupted,
                         wiped>>
      BY <1>5 DEF ConnectUnlocks, callVars, resultVars, fetchVars, engineVars, mutexVars, contentVars,
                  otherVars
    <2>. QED BY <1>1, <2>1 DEF TypeOK
  <1>6. CASE CloseDatabase
    <2>1. /\ isOpen' = FALSE
          /\ UNCHANGED <<pc, result, lockedOut, engineOf, options, predecessor, syncId, toFetch, data,
                         failures, isSyncing, syncMutex, syncMutexRelease, released, isAborted,
                         lastSyncId, checkpoint, metadataBy, contentBy, committed, writeLocked,
                         engine, created, connecting, resetStage, resetEngine, stalled, background,
                         interrupted, wiped>>
      BY <1>6 DEF CloseDatabase, callVars, resultVars, fetchVars, engineVars, mutexVars, contentVars,
                  appVars, otherVars
    <2>. QED BY <1>1, <2>1 DEF TypeOK
  <1>7. CASE CanvasStalls
    <2>1. /\ stalled' = TRUE
          /\ UNCHANGED <<pc, result, lockedOut, engineOf, options, predecessor, syncId, toFetch,
                         data, failures, isSyncing, syncMutex, syncMutexRelease, released,
                         isAborted, lastSyncId, checkpoint, metadataBy, contentBy, committed,
                         writeLocked, isOpen, engine, created, connecting, resetStage,
                         resetEngine, background, interrupted, wiped>>
      BY <1>7 DEF CanvasStalls, callVars, resultVars, fetchVars, engineVars, mutexVars, dbVars,
                  contentVars, otherVars
    <2>. QED BY <1>1, <2>1 DEF TypeOK
  <1>8. ASSUME Restarted, ContentTypes'
        PROVE  TypeOK'
    <2>1. UNCHANGED <<lockedOut, engineOf, options, predecessor, syncId, toFetch, data, failures,
                      interrupted, wiped>>
      BY <1>8 DEF Restarted, callVars, fetchVars
    <2>2. /\ pc' \in [Syncs -> Stages] /\ result' \in [Syncs -> Results]
      BY <1>8 DEF Restarted, TypeOK, Stages, Results
    <2>3. /\ isSyncing' \in [Engines -> BOOLEAN] /\ isAborted' \in [Engines -> BOOLEAN]
          /\ syncMutex' \in [Engines -> Syncs \cup {None}]
          /\ syncMutexRelease' \in [Engines -> Syncs \cup {None}]
          /\ lastSyncId' \in [Engines -> Syncs \cup {None}]
          /\ released' \subseteq Syncs
      BY <1>8 DEF Restarted
    <2>4. /\ created' \in Engines /\ engine' \in Engines /\ connecting' = FALSE
          /\ resetStage' = "idle" /\ resetEngine' = None /\ stalled' = FALSE
          /\ writeLocked' = FALSE /\ isOpen' = TRUE
      BY <1>8, SizeAssumption DEF Restarted, TypeOK, Engines
    <2>5. background' \in [Backgrounds -> [at : {"idle", "running", "done"},
                                           engine : Engines \cup {None}]]
      BY <1>8 DEF Restarted, TypeOK
    <2>. QED BY <1>1, <1>8, <2>1, <2>2, <2>3, <2>4, <2>5 DEF ContentTypes, TypeOK
  <1>9. CASE Restart
    BY <1>8, <1>9 DEF Restart, ContentTypes, contentVars, TypeOK
  <1>10. ASSUME NEW s \in Syncs, CutInHalf(s)
         PROVE  TypeOK'
    <2>1. /\ syncId[s] \in Syncs
          /\ \A phase \in {"commit", "completed"} : phase \in Phases
      BY DEF TypeOK, Phases
    <2>2. \/ UNCHANGED checkpoint
          \/ \E phase \in {"commit", "completed"} : MarkCheckpoint(syncId[s], phase)
      BY <1>10 DEF CutInHalf, EarlyMetadataOnly, MarkedOnly, MarkedAndCommitted, CompletedOnly
    <2>3. checkpoint' \in [Syncs -> [phase : Phases, saved : [Courses -> SUBSET Kinds]]]
      BY <2>1, <2>2, MarkTypes DEF TypeOK
    <2>4. /\ metadataBy' \in {metadataBy, s} /\ contentBy' \in {contentBy, s}
          /\ committed' \in {committed, committed \cup {s}}
      BY <1>10 DEF CutInHalf, EarlyMetadataOnly, MarkedOnly, MarkedAndCommitted, Committed,
                   CompletedOnly, contentVars
    <2>5. ContentTypes'
      BY <2>3, <2>4 DEF ContentTypes, TypeOK
    <2>. QED BY <1>8, <1>10, <2>5 DEF CutInHalf
  <1>. QED BY <1>2, <1>3, <1>4, <1>5, <1>6, <1>7, <1>9, <1>10 DEF Event

(* The steps of the application that are no events.                        *)
LEMMA ApplicationTypes ==
  ASSUME TypeOK, ResetHasEngine, ResetStops \/ ResetLocks \/ LockTimesOut \/ ConnectEnds,
         UNCHANGED events
  PROVE  TypeOK'
  <1>1. CASE ResetStops
    <2>1. /\ resetEngine \in Engines /\ ReleaseSyncMutex(resetEngine) /\ StopLimiter
          /\ resetStage' = "deleting"
          /\ UNCHANGED <<result, lockedOut, engineOf, options, predecessor, syncId, toFetch, data, failures,
                         syncMutex, isAborted, lastSyncId, checkpoint, metadataBy, contentBy,
                         committed, writeLocked, isOpen, engine, created, connecting,
                         resetEngine, background, interrupted, wiped, events>>
      BY <1>1 DEF ResetStops, ResetHasEngine, TypeOK, callVars, resultVars, fetchVars, dbVars, contentVars,
                  otherVars
    <2>2. pc' \in [Syncs -> Stages] /\ stalled' = TRUE
      BY <2>1 DEF StopLimiter, TypeOK, Stages
    <2>. QED BY <2>1, <2>2, ReleaseTypes DEF TypeOK
  <1>2. CASE ResetLocks \/ LockTimesOut
    <2>1. /\ resetStage' \in {resetStage, "idle"} /\ engine' \in {engine, None}
          /\ writeLocked' \in BOOLEAN
          /\ UNCHANGED <<pc, result, lockedOut, engineOf, options, predecessor, syncId, toFetch, data,
                         failures, isSyncing, syncMutex, syncMutexRelease, released, isAborted,
                         lastSyncId, checkpoint, metadataBy, contentBy, committed, isOpen,
                         created, connecting, resetEngine, stalled, background, interrupted, wiped,
                         events>>
      BY <1>2 DEF ResetLocks, LockTimesOut, callVars, resultVars, fetchVars, engineVars, mutexVars,
                  contentVars, appVars, otherVars
    <2>. QED BY <2>1 DEF TypeOK
  <1>3. CASE ConnectEnds
    <2>1. /\ connecting' = FALSE
          /\ \/ created < NEngines /\ created' = created + 1 /\ engine' = created + 1
             \/ engine' \in {engine, None} /\ UNCHANGED created
          /\ UNCHANGED <<pc, result, lockedOut, engineOf, options, predecessor, syncId, toFetch, data,
                         failures, isSyncing, syncMutex, syncMutexRelease, released, isAborted,
                         lastSyncId, checkpoint, metadataBy, contentBy, committed, writeLocked,
                         isOpen, resetStage, resetEngine, stalled, background, interrupted, wiped,
                         events>>
      BY <1>3 DEF ConnectEnds, callVars, resultVars, fetchVars, engineVars, mutexVars, dbVars, contentVars,
                  otherVars
    <2>2. created' \in Engines /\ engine' \in Engines \cup {None}
      BY <2>1, SizeAssumption DEF TypeOK, Engines
    <2>. QED BY <2>1, <2>2 DEF TypeOK
  <1>. QED BY <1>1, <1>2, <1>3

(* Every step keeps the types.                                             *)
LEMMA TypesKept ==
  ASSUME TypeOK, ResetHasEngine, CallsInOrder, [Next]_vars
  PROVE  TypeOK'
  <1>1. CASE Event
    BY <1>1, EventTypes
  <1>2. ASSUME NEW s \in Syncs, Continue(s), UNCHANGED events
        PROVE  TypeOK'
    <2>1. pc[s] \notin {"idle", "done"}
      BY <1>2 DEF Continue, MutexGranted, CoursesFail, CoursesKnown, CourseArrives,
                  CourseFetched, CommitPhase, FetchEnded, FilesProcessed
    <2>2. engineOf[s] # None
      BY <2>1 DEF CallsInOrder, Accepted
    <2>3. CASE CourseArrives(s)
      BY <1>2, <2>3, CourseFetchedTypes DEF CourseArrives
    <2>. QED BY <1>2, <2>2, <2>3, MutexGrantedTypes, CoursesTypes, CommitTypes,
                FilesProcessedTypes DEF Continue
  <1>3. ASSUME NEW s \in Syncs, NEW o \in Options, SyncAll(s, o), UNCHANGED events
        PROVE  TypeOK'
    BY <1>3, SyncAllTypes
  <1>4. ASSUME NEW b \in Backgrounds, Background(b), UNCHANGED events
        PROVE  TypeOK'
    BY <1>4, BackgroundTypes
  <1>5. CASE (ResetStops \/ ResetLocks \/ LockTimesOut \/ ConnectEnds) /\ UNCHANGED events
    BY <1>5, ApplicationTypes
  <1>6. CASE UNCHANGED vars
    <2>1. UNCHANGED <<pc, result, lockedOut, engineOf, options, predecessor, syncId, toFetch, data, failures,
                      isSyncing, syncMutex, syncMutexRelease, released, isAborted, lastSyncId>>
      BY <1>6 DEF vars, callVars, resultVars, fetchVars, engineVars, mutexVars
    <2>2. UNCHANGED <<checkpoint, metadataBy, contentBy, committed, writeLocked, isOpen, engine,
                      created, connecting, resetStage, resetEngine, stalled, background, interrupted,
                      wiped, events>>
      BY <1>6 DEF vars, dbVars, contentVars, appVars, otherVars
    <2>. QED BY <2>1, <2>2 DEF TypeOK
  <1>. QED BY <1>1, <1>2, <1>3, <1>4, <1>5, <1>6 DEF Next

-----------------------------------------------------------------------------
(* What steps do to calls and mutexes.                                     *)

(* The answer to a call that is not accepted, and a call that is.          *)
Answers(s) ==
  /\ pc[s] = "idle" /\ engine # None
  /\ \A t \in 1..(s - 1) : pc[t] # "idle"
  /\ pc' = [pc EXCEPT ![s] = "done"]
  /\ \E how \in {"success", "failed", "refused"} : result' = [result EXCEPT ![s] = how]
  /\ UNCHANGED <<engineOf, predecessor, isSyncing, syncMutex, syncMutexRelease, released, isOpen,
                 engine, created>>

Accepts(s) ==
  /\ pc[s] = "idle" /\ engine # None
  /\ \A t \in 1..(s - 1) : pc[t] # "idle"
  /\ engineOf' = [engineOf EXCEPT ![s] = engine]
  /\ pc' = [pc EXCEPT ![s] = "waiting"]
  /\ isSyncing' = [isSyncing EXCEPT ![engine] = TRUE]
  /\ predecessor' = [predecessor EXCEPT ![s] = syncMutex[engine]]
  /\ syncMutex' = [syncMutex EXCEPT ![engine] = s]
  /\ UNCHANGED <<result, syncMutexRelease, released, isOpen, engine, created>>

AppSame  == UNCHANGED <<isOpen, engine, created>>
CallSame == UNCHANGED <<engineOf, predecessor>>

(* A sync gets its mutex; goes on, or ends, with all mutexes as they were;  *)
(* gives its mutex back.                                                   *)
Grants(s) ==
  /\ pc[s] = "waiting" /\ predecessor[s] \in released \cup {None}
  /\ syncMutexRelease' = [syncMutexRelease EXCEPT ![engineOf[s]] = s]
  /\ \E at \in {"fetchingCourses", "restored"} : pc' = [pc EXCEPT ![s] = at]
  /\ CallSame /\ AppSame
  /\ UNCHANGED <<result, isSyncing, syncMutex, released>>

Proceeds(s) ==
  /\ pc[s] \in {"fetchingCourses", "restored"}
  /\ pc' = [pc EXCEPT ![s] = "fetching"]
  /\ CallSame /\ AppSame
  /\ UNCHANGED <<result, isSyncing, syncMutex, syncMutexRelease, released>>

EndsUnreleased(s) ==
  /\ \/ pc[s] = "processing"
     \/ pc[s] = "fetching" /\ ~isOpen
  /\ pc' = [pc EXCEPT ![s] = "done"]
  /\ \E how \in {"success", "threw"} : result' = [result EXCEPT ![s] = how]
  /\ CallSame /\ AppSame
  /\ UNCHANGED <<isSyncing, syncMutex, syncMutexRelease, released>>

GivesBack(s) ==
  /\ pc[s] \in Fetching
  /\ ReleaseSyncMutex(engineOf[s])
  /\ \/ /\ pc' = [pc EXCEPT ![s] = "done"]
        /\ \E how \in {"failed", "success"} : result' = [result EXCEPT ![s] = how]
     \/ pc' = [pc EXCEPT ![s] = "processing"] /\ UNCHANGED result
  /\ CallSame /\ AppSame
  /\ UNCHANGED syncMutex

(* The application takes an engine's mutex away, and may leave syncs that  *)
(* await a request without an answer.                                      *)
TakesAway(e) ==
  /\ Abort \/ ResetCancels \/ ResetStops
  /\ ReleaseSyncMutex(e)
  /\ UNCHANGED pc \/ StopLimiter
  /\ CallSame /\ AppSame
  /\ UNCHANGED <<result, syncMutex>>

HangsOnly ==
  /\ UNCHANGED pc \/ StopLimiter
  /\ CallSame /\ AppSame
  /\ UNCHANGED <<result, isSyncing, syncMutex, syncMutexRelease, released>>

(* It replaces the engine, or closes the database.                         *)
Replaces ==
  /\ \/ engine' \in {engine, None} /\ UNCHANGED created
     \/ engine' = created + 1 /\ created' = created + 1
  /\ ConnectEnds \/ ResetLocks \/ UNCHANGED engine
  /\ isOpen' \in {isOpen, FALSE}
  /\ CallSame
  /\ UNCHANGED <<pc, result, isSyncing, syncMutex, syncMutexRelease, released>>

CallStep == \E s \in Syncs : Answers(s) \/ Accepts(s)
SyncStep ==
  \E s \in Syncs : Grants(s) \/ Proceeds(s) \/ EndsUnreleased(s) \/ GivesBack(s)
AppStep == (\E e \in Engines : TakesAway(e)) \/ HangsOnly \/ Replaces

(* Every step is one of these, or a restart.                               *)
LEMMA StepKinds ==
  ASSUME TypeOK, ResetHasEngine, CallsInOrder, [Next]_vars
  PROVE  CallStep \/ SyncStep \/ AppStep \/ Restarted
  <1>1. ASSUME NEW s \in Syncs, NEW o \in Options, SyncAll(s, o)
        PROVE  CallStep
    <2>1. ASSUME NEW how \in {"success", "failed", "refused"}, Answered(s, o, how)
          PROVE  CallStep
      <3>1. Answers(s)
        BY <2>1 DEF Answered, Called, Ends, Answers, dbVars, appVars
      <3>. QED BY <3>1 DEF CallStep
    <2>2. CASE SyncAllAccepted(s, o)
      <3>1. Accepts(s)
        BY <2>2 DEF SyncAllAccepted, Called, Accepts, resultVars, dbVars, appVars
      <3>. QED BY <3>1 DEF CallStep
    <2>. QED BY <1>1, <2>1, <2>2 DEF SyncAll, SyncAllClosed, SyncAllLocked, SyncAllRefused
  <1>2. ASSUME NEW s \in Syncs, Continue(s)
        PROVE  SyncStep \/ AppStep
    <2>1. CASE MutexGranted(s)
      <3>1. \E at \in {"fetchingCourses", "restored"} : pc' = [pc EXCEPT ![s] = at]
        BY <2>1 DEF MutexGranted, StartFresh, Resume
      <3>2. Grants(s)
        BY <2>1, <3>1 DEF MutexGranted, Grants, CallSame, AppSame, callVars, resultVars, appVars
      <3>. QED BY <3>2 DEF SyncStep
    <2>2. ASSUME FetchFailed(s), pc[s] \in Fetching, UNCHANGED <<callVars, syncMutex, isOpen, appVars>>
          PROVE  SyncStep
      <3>1. GivesBack(s)
        BY <2>2 DEF FetchFailed, Ends, GivesBack, CallSame, AppSame, callVars, resultVars, appVars
      <3>. QED BY <3>1 DEF SyncStep
    <2>3. CASE CoursesFail(s)
      BY <2>2, <2>3 DEF CoursesFail, Fetching
    <2>4. CASE CoursesKnown(s)
      <3>1. CASE FetchFailed(s)
        BY <2>2, <2>4, <3>1 DEF CoursesKnown, Fetching
      <3>2. CASE ~FetchFailed(s)
        <4>1. Proceeds(s)
          BY <2>4, <3>2 DEF CoursesKnown, Proceeds, CallSame, AppSame, callVars, resultVars, appVars
        <4>. QED BY <4>1 DEF SyncStep
      <3>. QED BY <3>1, <3>2
    <2>5. CASE CourseArrives(s)
      <3>1. HangsOnly
        BY <2>5 DEF CourseArrives, CourseFetched, HangsOnly, CallSame, AppSame, callVars, resultVars,
                    engineVars, mutexVars, appVars
      <3>. QED BY <3>1 DEF AppStep
    <2>6. CASE CommitPhase(s)
      <3>1. pc[s] \in Fetching /\ UNCHANGED <<callVars, syncMutex, isOpen, appVars>>
        BY <2>6 DEF CommitPhase, FetchEnded, Fetching
      <3>2. CASE FetchFailed(s)
        BY <2>2, <3>1, <3>2
      <3>3. CASE SnapshotThrows(s) /\ ~isOpen
        <4>1. EndsUnreleased(s)
          BY <2>6, <3>1, <3>3 DEF CommitPhase, FetchEnded, SnapshotThrows, Ends,
                                  EndsUnreleased, CallSame, AppSame, callVars, appVars
        <4>. QED BY <4>1 DEF SyncStep
      <3>4. CASE CommitSkipped(s) \/ CommitFails(s) \/ CommitSucceeds(s)
        <4>1. /\ ReleaseSyncMutex(engineOf[s])
              /\ \/ Ends(s, "failed") \/ Ends(s, "success")
                 \/ pc' = [pc EXCEPT ![s] = "processing"] /\ UNCHANGED result
          BY <3>4 DEF CommitSkipped, CommitFails, CommitSucceeds, HandleDeferred, resultVars
        <4>2. GivesBack(s)
          BY <3>1, <4>1 DEF Ends, GivesBack, CallSame, AppSame, callVars, resultVars, appVars
        <4>. QED BY <4>2 DEF SyncStep
      <3>. QED BY <2>6, <3>2, <3>3, <3>4 DEF CommitPhase
    <2>7. CASE FilesProcessed(s)
      <3>1. /\ pc[s] = "processing" /\ CallSame /\ AppSame
            /\ UNCHANGED <<isSyncing, syncMutex, syncMutexRelease, released>>
        BY <2>7 DEF FilesProcessed, CallSame, AppSame, callVars, resultVars, engineVars, mutexVars, appVars
      <3>2. Ends(s, "success") \/ Ends(s, "threw")
        BY <2>7 DEF FilesProcessed
      <3>3. pc' = [pc EXCEPT ![s] = "done"]
        BY <3>2 DEF Ends
      <3>4. \E how \in {"success", "threw"} : result' = [result EXCEPT ![s] = how]
        BY <3>2 DEF Ends
      <3>5. EndsUnreleased(s)
        BY <3>1, <3>3, <3>4 DEF EndsUnreleased
      <3>. QED BY <3>5 DEF SyncStep
    <2>. QED BY <1>2, <2>1, <2>3, <2>4, <2>5, <2>6, <2>7 DEF Continue
  <1>3. ASSUME NEW b \in Backgrounds, Background(b)
        PROVE  AppStep
    <2>1. HangsOnly
      BY <1>3 DEF Background, BackgroundStarts, BackgroundEnds, BackgroundThrows, HangsOnly,
                  CallSame, AppSame, callVars, resultVars, engineVars, mutexVars, dbVars, appVars
    <2>. QED BY <2>1 DEF AppStep
  <1>4. ASSUME Abort \/ ResetStops
        PROVE  AppStep
    <2>1. PICK e \in Engines : TakesAway(e)
      <3>1. CASE Abort
        <4>1. engine \in Engines /\ TakesAway(engine)
          BY <3>1 DEF Abort, TakesAway, CallSame, AppSame, callVars, resultVars, dbVars, appVars, TypeOK
        <4>. QED BY <4>1
      <3>2. CASE ResetStops
        <4>1. resetEngine \in Engines /\ TakesAway(resetEngine)
          BY <3>2 DEF ResetStops, ResetHasEngine, TakesAway, CallSame, AppSame, callVars, resultVars, dbVars,
                      TypeOK
        <4>. QED BY <4>1
      <3>. QED BY <1>4, <3>1, <3>2
    <2>. QED BY <2>1 DEF AppStep
  <1>5. CASE ResetCancels
    <2>1. /\ CallSame /\ AppSame /\ UNCHANGED <<result, syncMutex>>
          /\ UNCHANGED pc \/ StopLimiter
      BY <1>5 DEF ResetCancels, CallSame, AppSame, callVars, resultVars
    <2>2. CASE engine # None
      <3>1. ReleaseSyncMutex(engine) /\ engine \in Engines
        BY <1>5, <2>2 DEF ResetCancels, TypeOK
      <3>. QED BY <1>5, <2>1, <3>1 DEF TakesAway, AppStep
    <2>3. CASE engine = None
      BY <1>5, <2>1, <2>3 DEF ResetCancels, HangsOnly, AppStep
    <2>. QED BY <2>2, <2>3
  <1>6. ASSUME ResetKeepsToken \/ ConnectUnlocks \/ LockTimesOut \/ CanvasStalls
        PROVE  AppStep
    <2>1. HangsOnly
      BY <1>6 DEF ResetKeepsToken, ConnectUnlocks, LockTimesOut, CanvasStalls, HangsOnly, CallSame, AppSame,
                  callVars, resultVars, engineVars, mutexVars, dbVars, appVars
    <2>. QED BY <2>1 DEF AppStep
  <1>7. ASSUME CloseDatabase \/ ConnectEnds \/ ResetLocks
        PROVE  AppStep
    <2>1. Replaces
      BY <1>7 DEF CloseDatabase, ConnectEnds, ResetLocks, Replaces, CallSame, callVars, resultVars,
                  engineVars, mutexVars, dbVars, appVars
    <2>. QED BY <2>1 DEF AppStep
  <1>8. CASE UNCHANGED vars
    <2>1. HangsOnly
      BY <1>8 DEF vars, HangsOnly, CallSame, AppSame, callVars, resultVars, engineVars, mutexVars, dbVars,
                  appVars
    <2>. QED BY <2>1 DEF AppStep
  <1>. QED BY <1>1, <1>2, <1>3, <1>4, <1>5, <1>6, <1>7, <1>8 DEF Next, Event, Restart, CutInHalf

-----------------------------------------------------------------------------
(* The mutexes.                                                            *)

Granted(s) == pc[s] \notin {"idle", "waiting"}
SameEngine(s, t) == engineOf[s] = engineOf[t]

(* What the fields of an engine hold belongs to it; and no mutex is        *)
(* resolved before it was granted.                                         *)
FieldsOwn ==
  /\ \A s \in released : Granted(s)
  /\ \A e \in Engines :
       /\ syncMutexRelease[e] # None =>
            engineOf[syncMutexRelease[e]] = e /\ Granted(syncMutexRelease[e])
       /\ syncMutex[e] # None => engineOf[syncMutex[e]] = e /\ Accepted(syncMutex[e])

(* The calls accepted by an engine form a chain: syncMutex is the last     *)
(* one, each waits for the one before it, and when one is granted all the  *)
(* earlier ones are released.                                              *)
LastInChain ==
  \A s \in Syncs : Accepted(s) => s \in released \/ s <= syncMutex[engineOf[s]]
WaitsForEarlier ==
  \A s \in Syncs : pc[s] = "waiting" =>
    /\ predecessor[s] < s
    /\ predecessor[s] # None => SameEngine(predecessor[s], s) /\ Accepted(predecessor[s])
WaitsForLast ==
  \A s, t \in Syncs : pc[s] = "waiting" /\ t < s /\ Accepted(t) /\ SameEngine(t, s) =>
    t \in released \/ t <= predecessor[s]
EarlierReleased ==
  \A s, t \in Syncs : Granted(s) /\ Accepted(s) /\ t < s /\ Accepted(t) /\ SameEngine(t, s) =>
    t \in released

(* A granted mutex that is not resolved is the one the engine can resolve. *)
HeldIsHeld ==
  \A s \in Syncs : Accepted(s) /\ Granted(s) /\ s \notin released =>
    /\ syncMutexRelease[engineOf[s]] = s
    /\ isOpen => pc[s] \in Fetching \cup {"hung"}

(* A flag that is on belongs to the last call, which has not committed.    *)
BusyLast ==
  \A e \in Engines : isSyncing[e] /\ isOpen =>
    syncMutex[e] # None /\ pc[syncMutex[e]] \in {"waiting", "hung"} \cup Fetching

MutexChain == LastInChain /\ WaitsForEarlier /\ WaitsForLast /\ EarlierReleased /\ HeldIsHeld
MutexInv == CallsInOrder /\ FieldsOwn /\ MutexChain /\ BusyLast

CallTypes ==
  /\ pc \in [Syncs -> Stages] /\ result \in [Syncs -> Results]
  /\ engineOf \in [Syncs -> Engines \cup {None}]
  /\ predecessor \in [Syncs -> Syncs \cup {None}]
  /\ isSyncing \in [Engines -> BOOLEAN]
  /\ syncMutex \in [Engines -> Syncs \cup {None}]
  /\ syncMutexRelease \in [Engines -> Syncs \cup {None}]
  /\ released \subseteq Syncs /\ isOpen \in BOOLEAN
  /\ engine \in Engines \cup {None} /\ created \in Engines

(* A call comes after all earlier ones.                                    *)
LEMMA CallKeepsOrder ==
  ASSUME CallTypes, CallsInOrder, NEW s \in Syncs, Answers(s) \/ Accepts(s)
  PROVE  CallsInOrder'
  <1>1. /\ engineOf' \in {engineOf, [engineOf EXCEPT ![s] = engine]}
        /\ pc[s] = "idle" /\ engineOf[s] = None /\ engine # None /\ engine = created
        /\ \E at \in {"waiting", "done"} : pc' = [pc EXCEPT ![s] = at]
        /\ UNCHANGED <<engine, created>>
    BY DEF Answers, Accepts, CallsInOrder, Accepted
  <1>2. \A t \in Syncs : t < s => pc[t] # "idle" /\ pc'[t] # "idle"
    <2>1. \A t \in Syncs : t < s => t \in 1..(s - 1)
      BY SizeAssumption DEF Syncs
    <2>. QED BY <1>1, <2>1 DEF Answers, Accepts, CallTypes
  <1>3. \A t \in Syncs : (engineOf[t] <= created)'
    BY <1>1 DEF CallTypes, CallsInOrder, Engines, None
  <1>4. \A t \in Syncs : /\ (pc[t] = "idle" => ~Accepted(t))'
                         /\ (pc[t] \notin {"idle", "done"} => Accepted(t))'
                         /\ (pc[t] = "done" <=> result[t] # "none")'
    <2>1. CASE Answers(s)
      <3>1. PICK how \in {"success", "failed", "refused"} : result' = [result EXCEPT ![s] = how]
        BY <2>1 DEF Answers
      <3>2. pc' = [pc EXCEPT ![s] = "done"] /\ engineOf' = engineOf
        BY <2>1 DEF Answers
      <3>. QED BY <1>1, <3>1, <3>2 DEF CallTypes, CallsInOrder, Accepted
    <2>2. CASE Accepts(s)
      <3>1. /\ pc' = [pc EXCEPT ![s] = "waiting"] /\ result' = result
            /\ engineOf' = [engineOf EXCEPT ![s] = engine]
        BY <2>2 DEF Accepts
      <3>. QED BY <1>1, <3>1 DEF CallTypes, CallsInOrder, Accepted
    <2>. QED BY <2>1, <2>2
  <1>5. ASSUME NEW t \in Syncs, NEW u \in Syncs, u < t
        PROVE  /\ pc'[t] # "idle" => pc'[u] # "idle"
               /\ Accepted(t)' /\ Accepted(u)' => engineOf'[u] <= engineOf'[t]
    <2>1. CASE t = s
      <3>1. engineOf'[u] = engineOf[u] /\ engineOf[u] <= created /\ pc'[u] # "idle"
        BY <1>1, <1>2, <1>5, <2>1 DEF CallTypes, CallsInOrder, Syncs
      <3>2. engineOf'[s] \in {None, created}
        BY <1>1 DEF CallTypes
      <3>. QED BY <2>1, <3>1, <3>2 DEF Accepted
    <2>2. CASE t # s /\ u = s
      <3>1. pc[t] = "idle" /\ pc'[t] = pc[t] /\ engineOf'[t] = engineOf[t] /\ ~Accepted(t)
        BY <1>1, <1>5, <2>2 DEF CallTypes, CallsInOrder
      <3>. QED BY <3>1 DEF Accepted
    <2>3. CASE t # s /\ u # s
      <3>1. /\ pc'[t] = pc[t] /\ engineOf'[t] = engineOf[t]
            /\ pc'[u] = pc[u] /\ engineOf'[u] = engineOf[u]
        BY <1>1, <2>3 DEF CallTypes
      <3>. QED BY <1>5, <3>1 DEF CallsInOrder, Accepted
    <2>. QED BY <2>1, <2>2, <2>3
  <1>. QED BY <1>1, <1>3, <1>4, <1>5 DEF CallsInOrder

(* A call that is not accepted changes nothing for the others.             *)
LEMMA AnswersKeepsMutex ==
  ASSUME CallTypes, MutexInv, NEW s \in Syncs, Answers(s)
  PROVE  MutexInv'
  <1>1. /\ pc' = [pc EXCEPT ![s] = "done"]
        /\ pc[s] = "idle" /\ engineOf[s] = None /\ engine # None
        /\ UNCHANGED <<engineOf, predecessor, isSyncing, syncMutex, syncMutexRelease, released,
                       isOpen, engine, created>>
    BY DEF Answers, MutexInv, CallsInOrder, Accepted
  <1>2. PICK how \in {"success", "failed", "refused"} : result' = [result EXCEPT ![s] = how]
    BY DEF Answers
  <1>3. ~Accepted(s) /\ ~Accepted(s)'
    BY <1>1, <1>2 DEF CallTypes, Accepted
  <1>4. \A t \in Syncs \ {s} : /\ pc'[t] = pc[t] /\ engineOf'[t] = engineOf[t]
                               /\ result'[t] = result[t] /\ Accepted(t)' = Accepted(t)
    BY <1>1, <1>2 DEF CallTypes, Accepted
  <1>5. CallsInOrder'
    BY CallKeepsOrder DEF MutexInv
  <1>6. FieldsOwn'
    BY <1>1, <1>3, <1>4 DEF CallTypes, MutexInv, FieldsOwn, Granted
  <1>7. MutexChain'
    BY <1>1, <1>3, <1>4 DEF CallTypes, MutexInv, FieldsOwn, MutexChain, LastInChain,
       WaitsForEarlier, WaitsForLast, EarlierReleased, HeldIsHeld, Granted, SameEngine
  <1>8. BusyLast'
    <2>1. \A e \in Engines : syncMutex[e] # None => syncMutex[e] \in Syncs \ {s}
      BY <1>3 DEF CallTypes, MutexInv, FieldsOwn
    <2>. QED BY <1>1, <1>4, <2>1 DEF MutexInv, BusyLast
  <1>. QED BY <1>5, <1>6, <1>7, <1>8 DEF MutexInv

(* An accepted call is the last in its chain, and waits for the one before. *)
LEMMA AcceptsKeepsMutex ==
  ASSUME CallTypes, MutexInv, NEW s \in Syncs, Accepts(s)
  PROVE  MutexInv'
  <1>1. /\ pc' = [pc EXCEPT ![s] = "waiting"] /\ engineOf' = [engineOf EXCEPT ![s] = engine]
        /\ predecessor' = [predecessor EXCEPT ![s] = syncMutex[engine]]
        /\ syncMutex' = [syncMutex EXCEPT ![engine] = s]
        /\ isSyncing' = [isSyncing EXCEPT ![engine] = TRUE]
        /\ pc[s] = "idle" /\ engineOf[s] = None /\ engine \in Engines /\ result[s] = "none"
        /\ UNCHANGED <<result, syncMutexRelease, released, isOpen>>
    BY DEF Accepts, MutexInv, CallsInOrder, CallTypes, Accepted
  <1>2. ~Accepted(s) /\ Accepted(s)' /\ s \notin released /\ ~Granted(s)' /\ s \in Nat \ {0}
    BY <1>1 DEF CallTypes, Accepted, MutexInv, FieldsOwn, Granted, None, Engines, Syncs
  <1>3. \A t \in Syncs \ {s} : /\ pc'[t] = pc[t] /\ engineOf'[t] = engineOf[t]
                               /\ result'[t] = result[t] /\ predecessor'[t] = predecessor[t]
                               /\ Accepted(t)' = Accepted(t) /\ Granted(t)' = Granted(t)
    BY <1>1 DEF CallTypes, Accepted, Granted
  <1>4. \A t \in Syncs : Accepted(t) => t < s /\ t # s
    BY <1>1, <1>2 DEF Accepted, MutexInv, CallsInOrder, Syncs
  <1>5. \A e \in Engines : syncMutex[e] # None =>
          /\ syncMutex[e] \in Syncs /\ engineOf[syncMutex[e]] = e /\ Accepted(syncMutex[e])
          /\ syncMutex[e] < s /\ syncMutex[e] # s
    BY <1>4 DEF CallTypes, MutexInv, FieldsOwn
  <1>6. CallsInOrder'
    BY CallKeepsOrder DEF MutexInv
  <1>7. FieldsOwn'
    <2>1. \A t \in released : Granted(t)'
      BY <1>2, <1>3 DEF CallTypes, MutexInv, FieldsOwn
    <2>2. \A e \in Engines : syncMutexRelease[e] # None =>
            engineOf'[syncMutexRelease[e]] = e /\ Granted(syncMutexRelease[e])'
      <3>1. ~Granted(s)
        BY <1>1 DEF Granted
      <3>. QED BY <1>1, <1>3, <3>1 DEF Granted, CallTypes, MutexInv, FieldsOwn
    <2>3. ASSUME NEW e \in Engines, syncMutex'[e] # None
          PROVE  engineOf'[syncMutex'[e]] = e /\ Accepted(syncMutex[e])'
      <3>1. CASE e = engine
        BY <1>1, <1>2, <3>1 DEF CallTypes, Accepted
      <3>2. CASE e # engine
        <4>1. syncMutex'[e] = syncMutex[e]
          BY <1>1, <3>2 DEF CallTypes
        <4>. QED BY <1>3, <1>5, <2>3, <4>1 DEF Accepted
      <3>. QED BY <3>1, <3>2
    <2>. QED BY <1>1, <2>1, <2>2, <2>3 DEF FieldsOwn, Accepted, Granted
  <1>8. LastInChain'
    <2>1. ASSUME NEW t \in Syncs, Accepted(t)', t \notin released
          PROVE  t <= syncMutex'[engineOf'[t]]
      <3>1. CASE t = s
        BY <1>1, <1>2, <3>1 DEF CallTypes
      <3>2. CASE t # s
        <4>1. Accepted(t) /\ engineOf'[t] = engineOf[t] /\ engineOf[t] \in Engines
          BY <1>3, <2>1, <3>2 DEF Accepted, CallTypes
        <4>2. t <= syncMutex[engineOf[t]] /\ t < s
          BY <1>4, <2>1, <4>1 DEF MutexInv, MutexChain, LastInChain
        <4>. QED BY <1>1, <1>2, <4>1, <4>2 DEF CallTypes, Syncs
      <3>. QED BY <3>1, <3>2
    <2>. QED BY <1>1, <2>1 DEF LastInChain
  <1>9. WaitsForEarlier'
    <2>1. predecessor'[s] = syncMutex[engine] /\ engineOf'[s] = engine
      BY <1>1 DEF CallTypes
    <2>2. predecessor'[s] < s
      BY <1>1, <1>2, <1>5, <2>1 DEF None
    <2>3. predecessor'[s] # None => SameEngine(predecessor[s], s)' /\ Accepted(predecessor[s])'
      BY <1>1, <1>3, <1>5, <2>1 DEF SameEngine
    <2>4. ASSUME NEW t \in Syncs \ {s}, pc'[t] = "waiting"
          PROVE  /\ predecessor'[t] < t
                 /\ predecessor'[t] # None =>
                      SameEngine(predecessor[t], t)' /\ Accepted(predecessor[t])'
      <3>1. pc[t] = "waiting" /\ predecessor'[t] = predecessor[t] /\ engineOf'[t] = engineOf[t]
        BY <1>3, <2>4
      <3>2. /\ predecessor[t] < t
            /\ predecessor[t] # None =>
                 engineOf[predecessor[t]] = engineOf[t] /\ Accepted(predecessor[t])
        BY <3>1 DEF MutexInv, MutexChain, WaitsForEarlier, SameEngine
      <3>3. predecessor[t] # None => predecessor[t] \in Syncs \ {s}
        BY <1>2, <3>2 DEF CallTypes
      <3>. QED BY <1>3, <3>1, <3>2, <3>3 DEF SameEngine
    <2>. QED BY <2>2, <2>3, <2>4 DEF WaitsForEarlier
  <1>10. WaitsForLast'
    <2>1. ASSUME NEW t \in Syncs, NEW u \in Syncs,
                 pc'[t] = "waiting", u < t, Accepted(u)', engineOf'[u] = engineOf'[t],
                 u \notin released
          PROVE  u <= predecessor'[t]
      <3>1. CASE t = s
        <4>1. u # s /\ Accepted(u) /\ engineOf[u] = engine
          BY <1>1, <1>3, <2>1, <3>1 DEF CallTypes, Syncs
        <4>2. u <= syncMutex[engine]
          BY <2>1, <4>1 DEF MutexInv, MutexChain, LastInChain
        <4>. QED BY <1>1, <3>1, <4>2 DEF CallTypes
      <3>2. CASE t # s
        <4>1. pc[t] = "waiting"
          BY <1>3, <2>1, <3>2 DEF MutexInv, CallsInOrder
        <4>2. u # s
          BY <1>1, <2>1, <4>1 DEF MutexInv, CallsInOrder
        <4>. QED BY <1>3, <2>1, <3>2, <4>1, <4>2 DEF MutexInv, MutexChain, WaitsForLast, SameEngine
      <3>. QED BY <3>1, <3>2
    <2>. QED BY <1>1, <2>1 DEF WaitsForLast, SameEngine
  <1>11. EarlierReleased'
    <2>1. ASSUME NEW t \in Syncs, NEW u \in Syncs,
                 Granted(t)', Accepted(t)', u < t, Accepted(u)', engineOf'[u] = engineOf'[t]
          PROVE  u \in released
      <3>1. t # s
        BY <1>2, <2>1
      <3>2. Accepted(t) /\ Granted(t)
        BY <1>3, <2>1, <3>1
      <3>3. u # s
        BY <1>1, <2>1, <3>2 DEF MutexInv, CallsInOrder, Accepted
      <3>. QED BY <1>3, <2>1, <3>1, <3>2, <3>3 DEF MutexInv, MutexChain, EarlierReleased, SameEngine
    <2>. QED BY <1>1, <2>1 DEF EarlierReleased, SameEngine
  <1>12. HeldIsHeld'
    BY <1>1, <1>2, <1>3 DEF MutexInv, MutexChain, HeldIsHeld
  <1>13. BusyLast'
    BY <1>1, <1>2, <1>3, <1>5 DEF CallTypes, MutexInv, BusyLast, None
  <1>. QED BY <1>6, <1>7, <1>8, <1>9, <1>10, <1>11, <1>12, <1>13 DEF MutexInv, MutexChain

(* A mutex is granted when all the calls before it have released theirs.   *)
LEMMA GrantsKeepsMutex ==
  ASSUME CallTypes, MutexInv, NEW s \in Syncs, Grants(s)
  PROVE  MutexInv'
  <1> DEFINE e == engineOf[s]
  <1>1. /\ pc[s] = "waiting" /\ predecessor[s] \in released \cup {None}
        /\ syncMutexRelease' = [syncMutexRelease EXCEPT ![e] = s]
        /\ UNCHANGED <<engineOf, predecessor, isOpen, engine, created, result, isSyncing,
                       syncMutex, released>>
    BY DEF Grants, CallSame, AppSame
  <1>2. PICK at \in {"fetchingCourses", "restored"} : pc' = [pc EXCEPT ![s] = at]
    BY DEF Grants
  <1>3. /\ pc'[s] \in Fetching /\ Granted(s)' /\ ~Granted(s) /\ s \notin released
        /\ Accepted(s) /\ e \in Engines
    BY <1>1, <1>2 DEF CallTypes, Fetching, Granted, MutexInv, CallsInOrder, FieldsOwn, Accepted
  <1>4. \A t \in Syncs \ {s} : pc'[t] = pc[t] /\ Granted(t)' = Granted(t)
    BY <1>2 DEF CallTypes, Granted
  <1>5. \A t \in Syncs : Accepted(t)' = Accepted(t)
    BY <1>1 DEF Accepted
  <1>6. ASSUME NEW t \in Syncs, t < s, Accepted(t), engineOf[t] = e
        PROVE  t \in released
    <2>1. t \in released \/ t <= predecessor[s]
      BY <1>1, <1>6 DEF MutexInv, MutexChain, WaitsForLast, SameEngine
    <2>2. CASE predecessor[s] = None
      BY <2>1, <2>2 DEF Syncs, None
    <2>3. CASE predecessor[s] # None /\ t # predecessor[s] /\ t \notin released
      <3>1. predecessor[s] \in released /\ predecessor[s] \in Syncs
        BY <1>1, <2>3 DEF CallTypes
      <3>2. /\ Granted(predecessor[s]) /\ Accepted(predecessor[s])
            /\ engineOf[predecessor[s]] = e
        BY <1>1, <2>3, <3>1 DEF MutexInv, MutexChain, FieldsOwn, WaitsForEarlier, SameEngine
      <3>3. t < predecessor[s]
        BY <2>1, <2>3, <3>1 DEF Syncs
      <3>. QED BY <1>6, <3>1, <3>2, <3>3 DEF MutexInv, MutexChain, EarlierReleased, SameEngine
    <2>. QED BY <1>1, <2>1, <2>2, <2>3
  <1>7. ASSUME NEW t \in Syncs \ {s}, Granted(t), Accepted(t), engineOf[t] = e
        PROVE  t \in released
    <2>1. CASE t < s
      BY <1>6, <1>7, <2>1
    <2>2. CASE s < t
      BY <1>3, <1>7, <2>2 DEF MutexInv, MutexChain, EarlierReleased, SameEngine
    <2>. QED BY <2>1, <2>2 DEF Syncs
  <1>8. CallsInOrder'
    <2>1. \A t \in Syncs : /\ pc'[t] # "idle" <=> pc[t] # "idle"
                           /\ pc'[t] \in {"idle", "done"} <=> pc[t] \in {"idle", "done"}
                           /\ pc'[t] = "done" <=> pc[t] = "done"
      <3>1. pc'[s] \in {"fetchingCourses", "restored"} /\ pc[s] = "waiting"
        BY <1>1, <1>2 DEF CallTypes
      <3>. QED BY <1>4, <3>1
    <2>2. UNCHANGED <<result, engine, created>> /\ \A t \in Syncs : Accepted(t)' = Accepted(t)
      BY <1>1, <1>5
    <2>. QED BY <1>1, <2>1, <2>2 DEF MutexInv, CallsInOrder
  <1>9. FieldsOwn'
    BY <1>1, <1>3, <1>4, <1>5 DEF CallTypes, MutexInv, FieldsOwn
  <1>10. LastInChain'
    BY <1>1, <1>5 DEF MutexInv, MutexChain, LastInChain
  <1>11. WaitsForEarlier' /\ WaitsForLast'
    <2>1. \A t \in Syncs : pc'[t] = "waiting" => pc[t] = "waiting"
      BY <1>1, <1>4
    <2>2. WaitsForLast'
      BY <1>1, <1>5, <2>1 DEF MutexInv, MutexChain, WaitsForLast, SameEngine
    <2>3. \A t \in Syncs : pc[t] = "waiting" /\ predecessor[t] # None => predecessor[t] \in Syncs
      BY DEF CallTypes
    <2>4. WaitsForEarlier'
      BY <1>1, <1>5, <2>1, <2>3 DEF MutexInv, MutexChain, WaitsForEarlier, SameEngine
    <2>. QED BY <2>2, <2>4
  <1>12. EarlierReleased'
    <2>1. ASSUME NEW t \in Syncs, NEW u \in Syncs,
                 Granted(t)', Accepted(t), u < t, Accepted(u), engineOf[u] = engineOf[t]
          PROVE  u \in released
      <3>1. CASE t = s
        BY <1>6, <2>1, <3>1
      <3>2. CASE t # s
        BY <1>4, <2>1, <3>2 DEF MutexInv, MutexChain, EarlierReleased, SameEngine
      <3>. QED BY <3>1, <3>2
    <2>. QED BY <1>1, <1>5, <2>1 DEF EarlierReleased, SameEngine
  <1>13. HeldIsHeld'
    <2>1. ASSUME NEW t \in Syncs, Accepted(t), Granted(t)', t \notin released
          PROVE  /\ syncMutexRelease'[engineOf[t]] = t
                 /\ isOpen => pc'[t] \in Fetching \cup {"hung"}
      <3>1. CASE t = s
        BY <1>1, <1>3, <3>1 DEF CallTypes
      <3>2. CASE t # s
        <4>1. Granted(t) /\ engineOf[t] # e
          BY <1>4, <1>7, <2>1, <3>2
        <4>. QED BY <1>1, <1>4, <2>1, <3>2, <4>1 DEF CallTypes, Accepted, MutexInv, MutexChain, HeldIsHeld
      <3>. QED BY <3>1, <3>2
    <2>. QED BY <1>1, <1>5, <2>1 DEF HeldIsHeld
  <1>14. BusyLast'
    BY <1>1, <1>3, <1>4 DEF CallTypes, MutexInv, BusyLast
  <1>. QED BY <1>8, <1>9, <1>10, <1>11, <1>12, <1>13, <1>14 DEF MutexInv, MutexChain

(* What the other steps have in common: the calls and whether their mutex  *)
(* is granted stay as they are, and mutexes are only given up.             *)
CallsStay ==
  /\ UNCHANGED <<engineOf, predecessor, syncMutex>>
  /\ engine' \in {None, created'} /\ created' \in {created, created + 1}
  /\ isOpen' => isOpen
  /\ released \subseteq released' /\ \A s \in released' : Granted(s) /\ s \in Syncs
  /\ \A e \in Engines : syncMutexRelease'[e] \in {syncMutexRelease[e], None}
  /\ \A s \in Syncs :
       /\ pc'[s] = pc[s] \/ (Granted(s) /\ Granted(s)')
       /\ pc[s] = "done" => pc'[s] = "done"
       /\ pc'[s] = "done" <=> result'[s] # "none"
       /\ Accepted(s)' = Accepted(s)

(* Then only what is held, and the flag, remain to be seen to.             *)
LEMMA CallsStayKeepsMutex ==
  ASSUME CallTypes, MutexInv, CallsStay, HeldIsHeld', BusyLast'
  PROVE  MutexInv'
  <1>1. \A s \in Syncs : /\ Granted(s)' = Granted(s) /\ Accepted(s)' = Accepted(s)
                         /\ pc'[s] = "waiting" <=> pc[s] = "waiting"
                         /\ pc'[s] = "idle" <=> pc[s] = "idle"
    BY DEF CallsStay, Granted
  <1>2. UNCHANGED <<engineOf, predecessor, syncMutex>> /\ released \subseteq released'
    BY DEF CallsStay
  <1>3. CallsInOrder'
    <2>1. \A s \in Syncs : /\ (pc[s] = "idle" => ~Accepted(s))'
                           /\ (pc[s] \notin {"idle", "done"} => Accepted(s))'
                           /\ (pc[s] = "done" <=> result[s] # "none")'
      BY <1>1, <1>2 DEF CallsStay, Granted, MutexInv, CallsInOrder
    <2>2. \A s \in Syncs : (engineOf[s] <= created)'
      BY <1>2 DEF CallTypes, CallsStay, MutexInv, CallsInOrder, Engines, None
    <2>3. \A s, t \in Syncs :
            t < s => /\ pc'[s] # "idle" => pc'[t] # "idle"
                     /\ Accepted(s)' /\ Accepted(t)' => engineOf'[t] <= engineOf'[s]
      BY <1>1, <1>2 DEF MutexInv, CallsInOrder
    <2>. QED BY <2>1, <2>2, <2>3 DEF CallsStay, CallsInOrder
  <1>4. FieldsOwn'
    <2>1. \A s \in released' : Granted(s)'
      BY <1>1 DEF CallsStay
    <2>2. ASSUME NEW e \in Engines, syncMutexRelease'[e] # None
          PROVE  engineOf'[syncMutexRelease'[e]] = e /\ Granted(syncMutexRelease[e])'
      <3>1. syncMutexRelease'[e] = syncMutexRelease[e] /\ syncMutexRelease[e] \in Syncs
        BY <2>2 DEF CallsStay, CallTypes
      <3>2. engineOf[syncMutexRelease[e]] = e /\ Granted(syncMutexRelease[e])
        BY <2>2, <3>1 DEF MutexInv, FieldsOwn
      <3>. QED BY <1>1, <1>2, <3>1, <3>2 DEF Granted
    <2>3. ASSUME NEW e \in Engines, syncMutex'[e] # None
          PROVE  engineOf'[syncMutex'[e]] = e /\ Accepted(syncMutex[e])'
      <3>1. syncMutex'[e] = syncMutex[e] /\ syncMutex[e] \in Syncs
        BY <1>2, <2>3 DEF CallTypes
      <3>2. engineOf[syncMutex[e]] = e /\ Accepted(syncMutex[e])
        BY <2>3, <3>1 DEF MutexInv, FieldsOwn
      <3>. QED BY <1>1, <1>2, <3>1, <3>2 DEF Accepted
    <2>. QED BY <2>1, <2>2, <2>3 DEF FieldsOwn
  <1>5. LastInChain'
    BY <1>1, <1>2 DEF MutexInv, MutexChain, LastInChain
  <1>6. WaitsForEarlier'
    <2>1. \A s \in Syncs : predecessor[s] # None => predecessor[s] \in Syncs
      BY DEF CallTypes
    <2>. QED BY <1>1, <1>2, <2>1 DEF MutexInv, MutexChain, WaitsForEarlier, SameEngine, Accepted
  <1>7. WaitsForLast'
    BY <1>1, <1>2 DEF MutexInv, MutexChain, WaitsForLast, SameEngine
  <1>8. EarlierReleased'
    BY <1>1, <1>2 DEF MutexInv, MutexChain, EarlierReleased, SameEngine
  <1>. QED BY <1>3, <1>4, <1>5, <1>6, <1>7, <1>8 DEF MutexInv, MutexChain

(* releaseSyncMutex() releases the mutex that is held.                     *)
LEMMA ReleaseMutex ==
  ASSUME CallTypes, MutexInv, NEW e \in Engines, ReleaseSyncMutex(e)
  PROVE  /\ released \subseteq released' /\ \A s \in released' : Granted(s) /\ s \in Syncs
         /\ \A f \in Engines : syncMutexRelease'[f] \in {syncMutexRelease[f], None}
         /\ \A s \in Syncs : Accepted(s) /\ Granted(s) /\ s \notin released' =>
              syncMutexRelease'[engineOf[s]] = s /\ engineOf[s] # e
         /\ \A f \in Engines : isSyncing'[f] => isSyncing[f] /\ f # e
  <1>1. /\ isSyncing' = [isSyncing EXCEPT ![e] = FALSE]
        /\ released' = released \cup ({syncMutexRelease[e]} \ {None})
        /\ syncMutexRelease' = [syncMutexRelease EXCEPT ![e] = None]
    BY DEF ReleaseSyncMutex
  <1>2. \A s \in released' : Granted(s) /\ s \in Syncs
    BY <1>1 DEF CallTypes, MutexInv, FieldsOwn
  <1>3. ASSUME NEW s \in Syncs, Accepted(s), Granted(s), s \notin released'
        PROVE  syncMutexRelease'[engineOf[s]] = s /\ engineOf[s] # e
    <2>1. syncMutexRelease[engineOf[s]] = s /\ s # None /\ engineOf[s] \in Engines
      BY <1>1, <1>3 DEF MutexInv, MutexChain, HeldIsHeld, CallTypes, Accepted, Syncs, None
    <2>. QED BY <1>1, <1>3, <2>1 DEF CallTypes
  <1>. QED BY <1>1, <1>2, <1>3 DEF CallTypes

(* A sync that goes on or ends.                                            *)
LEMMA SyncStepKeepsMutex ==
  ASSUME CallTypes, MutexInv, NEW s \in Syncs,
         Proceeds(s) \/ EndsUnreleased(s) \/ GivesBack(s)
  PROVE  MutexInv'
  <1>1. /\ UNCHANGED <<engineOf, predecessor, syncMutex, isOpen, engine, created>>
        /\ pc[s] \in Fetching \cup {"processing"}
    BY DEF Proceeds, EndsUnreleased, GivesBack, CallSame, AppSame, Fetching
  <1>2. /\ pc[s] \notin {"idle", "waiting", "done"} /\ engineOf[s] # None /\ result[s] = "none"
        /\ Granted(s) /\ Accepted(s) /\ engineOf[s] \in Engines
    BY <1>1 DEF MutexInv, CallsInOrder, CallTypes, Accepted, Granted, Fetching
  <1>3. \E at \in {"fetching", "processing", "done"} : pc' = [pc EXCEPT ![s] = at]
    BY DEF Proceeds, EndsUnreleased, GivesBack
  <1>4. \/ pc'[s] = "done" /\ \E how \in {"failed", "success", "threw"} :
                                result' = [result EXCEPT ![s] = how]
        \/ pc'[s] # "done" /\ UNCHANGED result
    BY <1>3 DEF Proceeds, EndsUnreleased, GivesBack, CallTypes
  <1>5. \A t \in Syncs : /\ pc'[t] = pc[t] \/ (Granted(t) /\ Granted(t)')
                         /\ pc[t] = "done" => pc'[t] = "done"
                         /\ pc'[t] = "done" <=> result'[t] # "none"
                         /\ Accepted(t)' = Accepted(t)
    BY <1>1, <1>2, <1>3, <1>4 DEF CallTypes, MutexInv, CallsInOrder, Accepted, Granted
  <1>6. \A t \in Syncs \ {s} : pc'[t] = pc[t]
    BY <1>3 DEF CallTypes
  <1>7. \A e \in Engines : syncMutex[e] # None => engineOf[syncMutex[e]] = e /\ syncMutex[e] \in Syncs
    BY DEF MutexInv, FieldsOwn, CallTypes
  <1>8. CASE GivesBack(s)
    <2>1. /\ released \subseteq released' /\ \A t \in released' : Granted(t) /\ t \in Syncs
          /\ \A f \in Engines : syncMutexRelease'[f] \in {syncMutexRelease[f], None}
          /\ \A t \in Syncs : Accepted(t) /\ Granted(t) /\ t \notin released' =>
               syncMutexRelease'[engineOf[t]] = t /\ engineOf[t] # engineOf[s]
          /\ \A f \in Engines : isSyncing'[f] => isSyncing[f] /\ f # engineOf[s]
      BY <1>2, <1>8, ReleaseMutex DEF GivesBack
    <2>2. CallsStay
      BY <1>1, <1>5, <2>1 DEF CallsStay, MutexInv, CallsInOrder
    <2>3. HeldIsHeld'
      <3>1. ASSUME NEW t \in Syncs, Accepted(t)', Granted(t)', t \notin released'
            PROVE  (/\ syncMutexRelease[engineOf[t]] = t
                    /\ isOpen => pc[t] \in Fetching \cup {"hung"})'
        <4>1. Accepted(t) /\ Granted(t)
          BY <1>5, <3>1 DEF Granted
        <4>2. t # s
          BY <2>1, <3>1, <4>1
        <4>. QED BY <1>1, <1>6, <2>1, <3>1, <4>1, <4>2 DEF MutexInv, MutexChain, HeldIsHeld
      <3>. QED BY <3>1 DEF HeldIsHeld
    <2>4. BusyLast'
      BY <1>1, <1>6, <1>7, <2>1 DEF MutexInv, BusyLast
    <2>. QED BY <2>2, <2>3, <2>4, CallsStayKeepsMutex
  <1>9. CASE Proceeds(s) \/ EndsUnreleased(s)
    <2>1. UNCHANGED <<isSyncing, syncMutexRelease, released>>
      BY <1>9 DEF Proceeds, EndsUnreleased
    <2>2. \A t \in released : Granted(t) /\ t \in Syncs
      BY DEF MutexInv, FieldsOwn, CallTypes
    <2>3. CallsStay
      BY <1>1, <1>5, <2>1, <2>2 DEF CallsStay, MutexInv, CallsInOrder
    <2>4. isOpen => pc'[s] \in Fetching \/ (pc[s] = "processing" /\ pc'[s] = "done")
      BY <1>9, <1>3 DEF Proceeds, EndsUnreleased, Fetching, CallTypes
    <2>5. HeldIsHeld'
      <3>1. ASSUME NEW t \in Syncs, Accepted(t)', Granted(t)', t \notin released'
            PROVE  (/\ syncMutexRelease[engineOf[t]] = t
                    /\ isOpen => pc[t] \in Fetching \cup {"hung"})'
        <4>1. Accepted(t) /\ Granted(t) /\ t \notin released
          BY <1>2, <1>5, <2>1, <3>1 DEF Granted
        <4>2. /\ syncMutexRelease[engineOf[t]] = t
              /\ isOpen => pc[t] \in Fetching \cup {"hung"}
          BY <4>1 DEF MutexInv, MutexChain, HeldIsHeld
        <4>3. CASE t = s
          BY <1>1, <2>1, <2>4, <4>2, <4>3 DEF Fetching
        <4>4. CASE t # s
          BY <1>1, <1>6, <2>1, <4>2, <4>4
        <4>. QED BY <4>3, <4>4
      <3>. QED BY <3>1 DEF HeldIsHeld
    <2>6. BusyLast'
      <3>1. ASSUME NEW e \in Engines, isSyncing[e], isOpen
            PROVE  syncMutex[e] # None /\ pc'[syncMutex[e]] \in {"waiting", "hung"} \cup Fetching
        <4>1. syncMutex[e] # None /\ pc[syncMutex[e]] \in {"waiting", "hung"} \cup Fetching
          BY <3>1 DEF MutexInv, BusyLast
        <4>. QED BY <1>6, <1>7, <2>4, <3>1, <4>1 DEF Fetching
      <3>. QED BY <1>1, <2>1, <3>1 DEF BusyLast
    <2>. QED BY <2>3, <2>5, <2>6, CallsStayKeepsMutex
  <1>. QED BY <1>8, <1>9

(* An abort or a reset, the loss of requests, a new engine, the end of the *)
(* database.                                                               *)
LEMMA AppStepKeepsMutex ==
  ASSUME CallTypes, MutexInv, AppStep
  PROVE  MutexInv'
  <1>1. /\ UNCHANGED <<result, engineOf, predecessor, syncMutex>>
        /\ engine' \in {None, created'} /\ created' \in {created, created + 1}
        /\ isOpen' => isOpen
    <2>1. engine \in {None, created} /\ isOpen \in BOOLEAN
      BY DEF MutexInv, CallsInOrder, CallTypes
    <2>2. CASE HangsOnly \/ \E e \in Engines : TakesAway(e)
      BY <2>1, <2>2 DEF TakesAway, HangsOnly, CallSame, AppSame
    <2>3. CASE Replaces
      <3>1. isOpen' => isOpen
        BY <2>1, <2>3, Zenon DEF Replaces
      <3>2. engine' \in {None, created'} /\ created' \in {created, created + 1}
        BY <2>1, <2>3 DEF Replaces
      <3>. QED BY <2>3, <3>1, <3>2 DEF Replaces, CallSame
    <2>. QED BY <2>2, <2>3 DEF AppStep
  <1>2. \A s \in Syncs : Accepted(s)' = Accepted(s)
    BY <1>1 DEF Accepted
  <1>3. \A s \in Syncs : \/ pc'[s] = pc[s]
                         \/ pc[s] \in Fetching \cup {"processing"} /\ pc'[s] = "hung"
    BY DEF AppStep, TakesAway, HangsOnly, Replaces, StopLimiter, AwaitsRequest, Fetching
  <1>4. \A s \in Syncs : /\ pc'[s] = pc[s] \/ (Granted(s) /\ Granted(s)')
                         /\ pc[s] = "done" => pc'[s] = "done"
                         /\ pc'[s] = "done" <=> result'[s] # "none"
                         /\ Granted(s)' => Granted(s)
    <2>1. ASSUME NEW s \in Syncs
          PROVE  /\ pc'[s] = pc[s] \/ (Granted(s) /\ Granted(s)')
                 /\ pc[s] = "done" => pc'[s] = "done"
                 /\ pc'[s] = "done" <=> result'[s] # "none"
                 /\ Granted(s)' => Granted(s)
      <3>1. CASE pc'[s] = pc[s]
        BY <1>1, <3>1 DEF MutexInv, CallsInOrder, Granted
      <3>2. CASE pc[s] \in Fetching \cup {"processing"} /\ pc'[s] = "hung"
        BY <1>1, <3>2 DEF MutexInv, CallsInOrder, Granted, Fetching
      <3>. QED BY <1>3, <3>1, <3>2
    <2>. QED BY <2>1
  <1>5. /\ released \subseteq released' /\ \A s \in released' : Granted(s) /\ s \in Syncs
        /\ \A f \in Engines : syncMutexRelease'[f] \in {syncMutexRelease[f], None}
        /\ \A s \in Syncs : Accepted(s) /\ Granted(s) /\ s \notin released' =>
             syncMutexRelease'[engineOf[s]] = s
        /\ \A f \in Engines : isSyncing'[f] => isSyncing[f]
    <2>1. ASSUME NEW e \in Engines, ReleaseSyncMutex(e)
          PROVE  <1>5!:
      BY <2>1, ReleaseMutex
    <2>2. CASE UNCHANGED <<isSyncing, syncMutexRelease, released>>
      BY <2>2 DEF MutexInv, FieldsOwn, MutexChain, HeldIsHeld, CallTypes
    <2>. QED BY <2>1, <2>2 DEF AppStep, TakesAway, HangsOnly, Replaces
  <1>6. CallsStay
    BY <1>1, <1>2, <1>4, <1>5 DEF CallsStay
  <1>7. HeldIsHeld'
    <2>1. ASSUME NEW s \in Syncs, Accepted(s)', Granted(s)', s \notin released'
          PROVE  (/\ syncMutexRelease[engineOf[s]] = s
                  /\ isOpen => pc[s] \in Fetching \cup {"hung"})'
      <3>1. Accepted(s) /\ Granted(s) /\ s \notin released
        BY <1>2, <1>4, <1>5, <2>1
      <3>2. isOpen => pc[s] \in Fetching \cup {"hung"}
        BY <3>1 DEF MutexInv, MutexChain, HeldIsHeld
      <3>. QED BY <1>1, <1>3, <1>5, <2>1, <3>1, <3>2
    <2>. QED BY <2>1 DEF HeldIsHeld
  <1>8. BusyLast'
    <2>1. ASSUME NEW e \in Engines, isSyncing'[e], isOpen'
          PROVE  syncMutex[e] # None /\ pc'[syncMutex[e]] \in {"waiting", "hung"} \cup Fetching
      <3>1. /\ syncMutex[e] # None /\ pc[syncMutex[e]] \in {"waiting", "hung"} \cup Fetching
            /\ syncMutex[e] \in Syncs
        BY <1>1, <1>5, <2>1 DEF MutexInv, BusyLast, CallTypes
      <3>. QED BY <1>3, <3>1
    <2>. QED BY <1>1, <2>1 DEF BusyLast
  <1>. QED BY <1>6, <1>7, <1>8, CallsStayKeepsMutex

(* After a restart nobody runs, and the fields of the engines are empty.   *)
LEMMA RestartKeepsMutex ==
  ASSUME CallTypes, MutexInv, Restarted
  PROVE  MutexInv'
  <1>1. /\ pc' = [s \in Syncs |-> IF pc[s] = "idle" THEN "idle" ELSE "done"]
        /\ result' = [s \in Syncs |-> IF pc[s] \in Running \cup {"hung"} THEN "killed" ELSE result[s]]
        /\ created' = created + 1 /\ engine' = created + 1
        /\ isSyncing' = [e \in Engines |-> FALSE]
        /\ syncMutex' = [e \in Engines |-> None] /\ syncMutexRelease' = [e \in Engines |-> None]
        /\ released' = {s \in Syncs : pc[s] # "idle"}
        /\ UNCHANGED <<engineOf, predecessor>>
    BY DEF Restarted, callVars, resultVars
  <1>2. ASSUME NEW s \in Syncs
        PROVE  /\ pc'[s] \in {"idle", "done"} /\ (pc'[s] = "idle" <=> pc[s] = "idle")
               /\ pc'[s] = "done" <=> result'[s] # "none"
    <2>1. pc[s] \in Running \cup {"idle", "hung", "done"} /\ (pc[s] = "done" <=> result[s] # "none")
      BY DEF CallTypes, Stages, MutexInv, CallsInOrder
    <2>2. /\ pc'[s] = IF pc[s] = "idle" THEN "idle" ELSE "done"
          /\ result'[s] = IF pc[s] \in Running \cup {"hung"} THEN "killed" ELSE result[s]
      BY <1>1
    <2>. QED BY <2>1, <2>2 DEF Running, Fetching
  <1>3. \A s \in Syncs : Accepted(s)' => s \in released'
    BY <1>1 DEF Accepted, MutexInv, CallsInOrder
  <1>4. CallsInOrder'
    <2>1. \A s \in Syncs : (engineOf[s] <= created)'
      BY <1>1 DEF CallTypes, MutexInv, CallsInOrder, Engines, None
    <2>2. \A s \in Syncs : /\ pc'[s] = "idle" => ~Accepted(s)'
                           /\ pc'[s] \in {"idle", "done"}
                           /\ pc'[s] = "done" <=> result'[s] # "none"
      BY <1>1, <1>2 DEF MutexInv, CallsInOrder, Accepted
    <2>3. \A s, t \in Syncs :
            t < s => /\ pc'[s] # "idle" => pc'[t] # "idle"
                     /\ Accepted(s)' /\ Accepted(t)' => engineOf'[t] <= engineOf'[s]
      BY <1>1, <1>2 DEF MutexInv, CallsInOrder, Accepted
    <2>. QED BY <1>1, <2>1, <2>2, <2>3 DEF CallsInOrder
  <1>5. FieldsOwn'
    BY <1>1, <1>2 DEF FieldsOwn, Granted
  <1>6. MutexChain'
    BY <1>2, <1>3 DEF MutexChain, LastInChain, WaitsForEarlier, WaitsForLast, EarlierReleased,
                      HeldIsHeld
  <1>7. BusyLast'
    BY <1>1 DEF BusyLast
  <1>. QED BY <1>4, <1>5, <1>6, <1>7 DEF MutexInv

(* Every step keeps the mutexes and the calls in their order.              *)
LEMMA MutexKept ==
  ASSUME TypeOK, ResetHasEngine, MutexInv, [Next]_vars
  PROVE  MutexInv'
  <1>1. CallTypes
    BY DEF TypeOK, CallTypes
  <1>2. CallStep \/ SyncStep \/ AppStep \/ Restarted
    BY StepKinds DEF MutexInv
  <1>3. CASE CallStep
    BY <1>1, <1>3, AnswersKeepsMutex, AcceptsKeepsMutex DEF CallStep
  <1>4. CASE SyncStep
    BY <1>1, <1>4, GrantsKeepsMutex, SyncStepKeepsMutex DEF SyncStep
  <1>. QED BY <1>1, <1>2, <1>3, <1>4, AppStepKeepsMutex, RestartKeepsMutex

-----------------------------------------------------------------------------
(* The application left alone.                                             *)

(* Without aborts and resets, no mutex is resolved between its grant and   *)
(* the commit; without new connections either, the syncs that run are all  *)
(* those of the current engine.                                            *)
Undisturbed ==
  Events \cap {"abort", "reset"} = {} =>
    resetStage = "idle" /\ \A s \in InSession : s \notin released
OneEngine ==
  Events \cap {"abort", "reset", "connect"} = {} =>
    /\ ~connecting
    /\ \A s \in Syncs : pc[s] \in Running \cup {"hung"} => engineOf[s] = engine

(* How a reset goes from stage to stage.                                   *)
LEMMA ResetStages ==
  ASSUME [Next]_vars
  PROVE  \/ UNCHANGED <<resetStage, resetEngine>>
         \/ resetStage' = "idle"
         \/ ResetCancels
         \/ resetStage = "cancelling" /\ resetStage' = "deleting"
  <1>1. CASE Event
    <2>1. CASE Restarted
      BY <2>1 DEF Restarted
    <2>. QED BY <1>1, <2>1 DEF Event, Abort, ResetKeepsToken, ConnectUnlocks, CloseDatabase,
                               CanvasStalls, Restart, CutInHalf, appVars
  <1>2. ASSUME NEW s \in Syncs, Continue(s)
        PROVE  UNCHANGED <<resetStage, resetEngine>>
    BY <1>2 DEF Continue, MutexGranted, CoursesFail, CoursesKnown, CourseArrives, CourseFetched,
                CommitPhase, FilesProcessed, appVars
  <1>3. ASSUME NEW s \in Syncs, NEW o \in Options, SyncAll(s, o)
        PROVE  UNCHANGED <<resetStage, resetEngine>>
    BY <1>3 DEF SyncAll, SyncAllClosed, SyncAllLocked, SyncAllRefused,
                Answered, SyncAllAccepted, Called, appVars
  <1>4. ASSUME NEW b \in Backgrounds, Background(b)
        PROVE  UNCHANGED <<resetStage, resetEngine>>
    BY <1>4 DEF Background, BackgroundStarts, BackgroundEnds, BackgroundThrows, appVars
  <1>5. CASE ResetStops \/ ResetLocks \/ LockTimesOut \/ ConnectEnds
    BY <1>5 DEF ResetStops, ResetLocks, LockTimesOut, ConnectEnds, appVars
  <1>6. CASE UNCHANGED vars
    BY <1>6 DEF vars, appVars
  <1>. QED BY <1>1, <1>2, <1>3, <1>4, <1>5, <1>6 DEF Next

(* A reset that cancels a sync knows its engine.                           *)
LEMMA ResetKept ==
  ASSUME TypeOK, ResetHasEngine, [Next]_vars
  PROVE  ResetHasEngine'
  <1>1. CASE ResetCancels
    BY <1>1 DEF ResetCancels, ResetHasEngine
  <1>2. CASE ~ResetCancels
    BY <1>2, ResetStages DEF ResetHasEngine
  <1>. QED BY <1>1, <1>2

(* A sync resolves its own mutex only, when it leaves the session.         *)
LEMMA UndisturbedKept ==
  ASSUME TypeOK, ResetHasEngine, MutexInv, Undisturbed, [Next]_vars
  PROVE  Undisturbed'
  <1> SUFFICES ASSUME Events \cap {"abort", "reset"} = {}
               PROVE  resetStage' = "idle" /\ \A s \in InSession' : s \notin released'
    BY DEF Undisturbed
  <1>1. resetStage = "idle" /\ \A s \in InSession : s \notin released
    BY DEF Undisturbed
  <1>2. ~Abort /\ ~ResetCancels /\ ~ResetStops
    BY <1>1 DEF Abort, ResetCancels, ResetStops, Happens
  <1>3. resetStage' = "idle"
    BY <1>1, <1>2, ResetStages
  <1>4. CallTypes
    BY DEF TypeOK, CallTypes
  <1>5. \A s \in Syncs : pc[s] = "waiting" => s \notin released
    BY DEF MutexInv, FieldsOwn, Granted
  <1>6. CASE CallStep
    BY <1>1, <1>3, <1>4, <1>6 DEF CallStep, Answers, Accepts, CallTypes, InSession, Fetching
  <1>7. CASE \E s \in Syncs : Grants(s) \/ Proceeds(s) \/ EndsUnreleased(s)
    <2>1. PICK s \in Syncs : Grants(s) \/ Proceeds(s) \/ EndsUnreleased(s)
      BY <1>7
    <2>2. /\ pc[s] = "waiting" \/ pc[s] \in Fetching \/ pc'[s] = "done"
          /\ released' = released /\ \A t \in Syncs \ {s} : pc'[t] = pc[t]
      BY <1>4, <2>1 DEF Grants, Proceeds, EndsUnreleased, CallTypes, Fetching
    <2>. QED BY <1>1, <1>3, <1>5, <2>2 DEF InSession, Fetching
  <1>8. CASE \E s \in Syncs : GivesBack(s)
    <2>1. PICK s \in Syncs : GivesBack(s)
      BY <1>8
    <2>2. /\ s \in InSession /\ Granted(s) /\ Accepted(s)
      BY <2>1 DEF GivesBack, InSession, Granted, Fetching, MutexInv, CallsInOrder, Accepted
    <2>3. syncMutexRelease[engineOf[s]] = s
      BY <1>1, <2>2 DEF MutexInv, MutexChain, HeldIsHeld
    <2>4. released' \subseteq released \cup {s}
      BY <2>1, <2>3 DEF GivesBack, ReleaseSyncMutex
    <2>5. pc'[s] \notin Fetching /\ \A t \in Syncs \ {s} : pc'[t] = pc[t]
      BY <1>4, <2>1 DEF GivesBack, CallTypes, Fetching
    <2>. QED BY <1>1, <1>3, <2>4, <2>5 DEF InSession
  <1>9. CASE AppStep
    <2>1. released' = released
      BY <1>2, <1>9 DEF AppStep, TakesAway, HangsOnly, Replaces
    <2>2. \A s \in Syncs : pc'[s] \in {pc[s], "hung"}
      BY <1>9 DEF AppStep, TakesAway, HangsOnly, Replaces, StopLimiter
    <2>. QED BY <1>1, <1>3, <2>1, <2>2 DEF InSession, Fetching
  <1>10. CASE Restarted
    BY <1>10 DEF Restarted, InSession, Fetching
  <1>. QED BY <1>6, <1>7, <1>8, <1>9, <1>10, StepKinds DEF MutexInv, SyncStep

(* Only a restart replaces the engine, and it ends what runs.              *)
LEMMA OneEngineKept ==
  ASSUME TypeOK, ResetHasEngine, MutexInv, Undisturbed, OneEngine, [Next]_vars
  PROVE  OneEngine'
  <1> SUFFICES ASSUME Events \cap {"abort", "reset", "connect"} = {}
               PROVE  /\ ~connecting'
                      /\ \A s \in Syncs :
                           pc'[s] \in Running \cup {"hung"} => engineOf'[s] = engine'
    BY DEF OneEngine
  <1>1. /\ resetStage = "idle" /\ ~connecting
        /\ \A s \in Syncs : pc[s] \in Running \cup {"hung"} => engineOf[s] = engine
    BY DEF Undisturbed, OneEngine
  <1>2. ~ConnectUnlocks /\ ~ConnectEnds /\ ~ResetLocks
    BY <1>1 DEF ConnectUnlocks, ConnectEnds, ResetLocks, Happens
  <1>3. ~connecting'
    <2>1. CASE Event
      BY <1>1, <1>2, <2>1 DEF Event, Abort, ResetKeepsToken, ResetCancels, CloseDatabase,
                              CanvasStalls, Restart, CutInHalf, Restarted, appVars
    <2>2. ASSUME NEW s \in Syncs, Continue(s)
          PROVE  UNCHANGED connecting
      BY <2>2 DEF Continue, MutexGranted, CoursesFail, CoursesKnown, CourseArrives, CourseFetched,
                  CommitPhase, FilesProcessed, appVars
    <2>3. ASSUME NEW s \in Syncs, NEW o \in Options, SyncAll(s, o)
          PROVE  UNCHANGED connecting
      BY <2>3 DEF SyncAll, SyncAllClosed, SyncAllLocked, SyncAllRefused,
                Answered, SyncAllAccepted, Called, appVars
    <2>4. ASSUME NEW b \in Backgrounds, Background(b)
          PROVE  UNCHANGED connecting
      BY <2>4 DEF Background, BackgroundStarts, BackgroundEnds, BackgroundThrows, appVars
    <2>5. CASE ResetStops \/ LockTimesOut
      BY <1>1, <2>5 DEF ResetStops, LockTimesOut, appVars
    <2>6. CASE UNCHANGED vars
      BY <1>1, <2>6 DEF vars, appVars
    <2>. QED BY <1>1, <1>2, <2>1, <2>2, <2>3, <2>4, <2>5, <2>6 DEF Next
  <1>4. CallTypes
    BY DEF TypeOK, CallTypes
  <1>5. CASE CallStep
    BY <1>1, <1>3, <1>4, <1>5 DEF CallStep, Answers, Accepts, CallTypes, Running, Fetching
  <1>6. CASE SyncStep
    <2>1. PICK s \in Syncs : Grants(s) \/ Proceeds(s) \/ EndsUnreleased(s) \/ GivesBack(s)
      BY <1>6 DEF SyncStep
    <2>2. /\ pc[s] \in Running /\ UNCHANGED <<engineOf, engine>>
          /\ \A t \in Syncs \ {s} : pc'[t] = pc[t]
      BY <1>4, <2>1 DEF Grants, Proceeds, EndsUnreleased, GivesBack, CallTypes, Running, Fetching,
                        CallSame, AppSame
    <2>. QED BY <1>1, <1>3, <2>2
  <1>7. CASE AppStep
    <2>1. UNCHANGED <<engineOf, engine>>
      BY <1>2, <1>7 DEF AppStep, TakesAway, HangsOnly, Replaces, CallSame, AppSame
    <2>2. \A s \in Syncs : pc'[s] = pc[s] \/ (pc[s] \in Running /\ pc'[s] = "hung")
      BY <1>7 DEF AppStep, TakesAway, HangsOnly, Replaces, StopLimiter, AwaitsRequest, Running,
                  Fetching
    <2>. QED BY <1>1, <1>3, <2>1, <2>2
  <1>8. CASE Restarted
    BY <1>8 DEF Restarted, Running, Fetching
  <1>. QED BY <1>3, <1>5, <1>6, <1>7, <1>8, StepKinds DEF MutexInv

-----------------------------------------------------------------------------
(* The invariant and what it says of the mutexes.                          *)

SyncInv == TypeOK /\ ResetHasEngine /\ MutexInv /\ Undisturbed /\ OneEngine

(* The invariant holds when the application starts,                        *)
LEMMA InitSyncInv ==
  ASSUME Init
  PROVE  SyncInv
  <1>1. TypeOK
    <2>1. 1 \in Engines /\ 0 \in 0..MaxEvents
      BY SizeAssumption DEF Engines
    <2>2. NoData \in [Courses -> SUBSET Kinds]
      BY DEF NoData
    <2>. QED BY <2>1, <2>2 DEF Init, TypeOK, Stages, Results, Phases
  <1>2. CallsInOrder
    BY DEF Init, CallsInOrder, Accepted, None
  <1>3. \A s \in Syncs : ~Accepted(s) /\ ~Granted(s) /\ pc[s] = "idle"
    BY DEF Init, Accepted, Granted
  <1>4. FieldsOwn /\ MutexChain /\ BusyLast
    <2>1. FieldsOwn
      BY DEF Init, FieldsOwn
    <2>2. MutexChain
      BY <1>3 DEF MutexChain, LastInChain, WaitsForEarlier, WaitsForLast, EarlierReleased, HeldIsHeld
    <2>3. BusyLast
      BY DEF Init, BusyLast
    <2>. QED BY <2>1, <2>2, <2>3
  <1>5. ResetHasEngine /\ Undisturbed /\ OneEngine
    BY <1>3 DEF Init, ResetHasEngine, Undisturbed, OneEngine, InSession, Running, Fetching
  <1>. QED BY <1>1, <1>2, <1>4, <1>5 DEF SyncInv, MutexInv

(* every step keeps it,                                                    *)
LEMMA SyncInvKept ==
  ASSUME SyncInv, [Next]_vars
  PROVE  SyncInv'
  <1>1. TypeOK'
    BY TypesKept DEF SyncInv, MutexInv
  <1>2. ResetHasEngine' /\ MutexInv' /\ Undisturbed' /\ OneEngine'
    BY ResetKept, MutexKept, UndisturbedKept, OneEngineKept DEF SyncInv
  <1>. QED BY <1>1, <1>2 DEF SyncInv

(* and so it always holds.                                                 *)
LEMMA SyncInvariance == Spec => []SyncInv
  BY InitSyncInv, SyncInvKept, PTL DEF Spec

(* The types of the model hold in every state.                             *)
THEOREM TypeCorrect == Spec => []TypeOK
  <1>1. SyncInv => TypeOK
    BY DEF SyncInv
  <1>. QED BY <1>1, SyncInvariance, PTL

(* syncAll never leaves a promise that a later call would await for ever:  *)
(* whatever aborts, resets, closed databases and restarts do, an accepted  *)
(* call that has not resolved its mutex waits for an earlier one or is the *)
(* one whose release function the engine holds.                            *)
THEOREM MutexIsNeverLost == Spec => []MutexNeverLost
  <1>1. SyncInv => MutexNeverLost
    <2> SUFFICES ASSUME SyncInv, NEW s \in Syncs, Accepted(s), s \notin released
                 PROVE  \/ pc[s] = "waiting" /\ predecessor[s] < s
                        \/ /\ syncMutexRelease[engineOf[s]] = s
                           /\ isOpen => pc[s] \in Fetching \cup {"hung"}
      BY DEF MutexNeverLost
    <2>1. CASE pc[s] = "waiting"
      BY <2>1 DEF SyncInv, MutexInv, MutexChain, WaitsForEarlier
    <2>2. CASE pc[s] # "waiting"
      <3>1. Granted(s)
        BY <2>2 DEF Granted, Accepted, SyncInv, MutexInv, CallsInOrder
      <3>. QED BY <3>1 DEF SyncInv, MutexInv, MutexChain, HeldIsHeld
    <2>. QED BY <2>1, <2>2
  <1>. QED BY <1>1, SyncInvariance, PTL

(* isSyncing, which refuses calls, is never left on: while the database is *)
(* open, a sync of the engine is under way that will turn it off.          *)
THEOREM BusyOnlyWhileRunning == Spec => []BusyMeansRunning
  <1>1. SyncInv => BusyMeansRunning
    <2> SUFFICES ASSUME SyncInv, NEW e \in Engines, isSyncing[e], isOpen
                 PROVE  \E s \in Syncs :
                          engineOf[s] = e /\ pc[s] \in {"waiting", "hung"} \cup Fetching
      BY DEF BusyMeansRunning
    <2>1. syncMutex[e] # None /\ pc[syncMutex[e]] \in {"waiting", "hung"} \cup Fetching
      BY DEF SyncInv, MutexInv, BusyLast
    <2>2. syncMutex[e] \in Syncs /\ engineOf[syncMutex[e]] = e
      BY <2>1 DEF SyncInv, MutexInv, FieldsOwn, TypeOK
    <2>. QED BY <2>1, <2>2
  <1>. QED BY <1>1, SyncInvariance, PTL

(* Unless an abort or a reset takes the mutex away, an engine has at most  *)
(* one sync between the grant and the commit.                              *)
THEOREM OneSyncAtATime ==
  ASSUME Events \cap {"abort", "reset"} = {}
  PROVE  Spec => []OneAtATime
  <1>1. SyncInv => OneAtATime
    <2> SUFFICES ASSUME SyncInv, NEW s \in InSession, NEW t \in InSession,
                        engineOf[s] = engineOf[t], t < s
                 PROVE  FALSE
      BY DEF OneAtATime, InSession, Syncs
    <2>1. Granted(s) /\ Accepted(s) /\ Accepted(t) /\ s \in Syncs /\ t \in Syncs
      BY DEF SyncInv, MutexInv, CallsInOrder, InSession, Granted, Accepted, Fetching
    <2>2. t \in released
      BY <2>1 DEF SyncInv, MutexInv, MutexChain, EarlierReleased, SameEngine
    <2>. QED BY <2>2 DEF SyncInv, Undisturbed
  <1>. QED BY <1>1, SyncInvariance, PTL
=============================================================================
