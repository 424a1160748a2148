----------------------- MODULE SyncEngineContentProofs -----------------------
(***************************************************************************)
(* What the engine does to the database, and what it says of it: nothing   *)
(* is written while it is locked or closed, the answers of syncAll and the *)
(* checkpoints are true, and a success without an error is complete.       *)
(***************************************************************************)
EXTENDS SyncEngineProofs

(* No step writes what it fetched to a database that is locked or closed.  *)
LEMMA StepsWriteWhenWritable ==
  ASSUME [Next]_vars, ~Writable
  PROVE  UNCHANGED <<checkpoint, metadataBy, contentBy>>
  <1>1. CASE Event
    <2>1. CASE Abort \/ ConnectUnlocks \/ CloseDatabase \/ CanvasStalls \/ Restart
      BY <2>1 DEF Abort, ConnectUnlocks, CloseDatabase, CanvasStalls, Restart, dbVars, contentVars
    <2>2. ~ResetKeepsToken /\ ~ResetCancels /\ \A s \in Syncs : ~CutInHalf(s)
      BY DEF ResetKeepsToken, ResetCancels, WipeContent, CutInHalf
    <2>. QED BY <1>1, <2>1, <2>2 DEF Event
  <1>2. ASSUME NEW s \in Syncs, NEW o \in Options, SyncAll(s, o)
        PROVE  UNCHANGED <<checkpoint, metadataBy, contentBy>>
    BY <1>2 DEF SyncAll, SyncAllClosed, SyncAllLocked, SyncAllRefused, Answered, SyncAllAccepted,
                Called, dbVars, contentVars
  <1>3. ASSUME NEW s \in Syncs, Continue(s)
        PROVE  UNCHANGED <<checkpoint, metadataBy, contentBy>>
    <2>1. CASE MutexGranted(s)
      BY <2>1 DEF MutexGranted, ClearIncompleteCheckpoints, contentVars
    <2>2. ASSUME NEW phase \in Phases, MarkCheckpoint(syncId[s], phase)
          PROVE  UNCHANGED checkpoint
      BY <2>2 DEF MarkCheckpoint
    <2>3. FetchFailed(s) => UNCHANGED <<checkpoint, metadataBy, contentBy>>
      BY <2>2 DEF FetchFailed, Phases, contentVars
    <2>4. CASE CoursesFail(s) \/ CoursesKnown(s)
      BY <2>3, <2>4 DEF CoursesFail, CoursesKnown
    <2>5. CASE CourseArrives(s)
      BY <2>5 DEF CourseArrives, CourseFetched, contentVars
    <2>6. CASE CommitPhase(s)
      BY <2>3, <2>6 DEF CommitPhase, SnapshotThrows, CommitSkipped, contentVars
    <2>7. CASE FilesProcessed(s)
      BY <2>2, <2>7 DEF FilesProcessed, Phases, contentVars
    <2>. QED BY <1>3, <2>1, <2>4, <2>5, <2>6, <2>7 DEF Continue
  <1>4. ASSUME NEW b \in Backgrounds, Background(b)
        PROVE  UNCHANGED <<checkpoint, metadataBy, contentBy>>
    BY <1>4 DEF Background, BackgroundStarts, BackgroundEnds, BackgroundThrows, dbVars, contentVars
  <1>5. CASE ResetStops \/ ResetLocks \/ LockTimesOut \/ ConnectEnds
    BY <1>5 DEF ResetStops, ResetLocks, LockTimesOut, ConnectEnds, dbVars, contentVars
  <1>6. CASE UNCHANGED vars
    BY <1>6 DEF vars, dbVars, contentVars
  <1>. QED BY <1>1, <1>2, <1>3, <1>4, <1>5, <1>6 DEF Next

(* Late answers of Canvas do not reach a database that is locked or closed *)
(* and stays so: every write asks isWriteAllowed() or fails.               *)
THEOREM NoWriteIsStray == Spec => NoStrayWrites
  <1>1. [Next]_vars => [(writeLocked /\ writeLocked') \/ (~isOpen /\ ~isOpen') =>
                          UNCHANGED <<checkpoint, metadataBy, contentBy>>]_vars
    BY StepsWriteWhenWritable DEF Writable
  <1>. QED BY <1>1, PTL DEF Spec, NoStrayWrites

-----------------------------------------------------------------------------
(* The database and what syncAll says of it.                               *)

(* Committed syncs are those past their commit, and the content is that of *)
(* one of them, or empty; who wrote to the database, was accepted and      *)
(* granted its mutex.                                                      *)
CommittedStages ==
  /\ contentBy \in committed \cup {None}
  /\ \A s \in Syncs :
       /\ pc[s] \in {"idle", "waiting"} \cup Fetching => s \notin committed
       /\ pc[s] = "processing" => s \in committed
       /\ s \in committed \/ s = metadataBy => Granted(s) /\ Accepted(s)

CommittedInv == CommittedStages /\ ResultTruthful /\ CheckpointTruthful

(* What a step does to a sync that does not commit in it.                  *)
Keeps(s) ==
  /\ syncId'[s] = syncId[s] \/ pc[s] = "waiting"
  /\ \/ pc'[s] \in {pc[s], "done", "hung"}
     \/ pc[s] \in {"idle", "waiting"} \cup Fetching /\ pc'[s] \in {"waiting"} \cup Fetching
  /\ \/ result'[s] = result[s]
     \/ pc[s] # "done" /\ result'[s] \in {"threw", "killed"}
     \/ /\ pc[s] \in {"idle"} \cup Fetching
        /\ result'[s] \in {"failed", "refused"} \/ (result'[s] = "success" /\ s \in lockedOut')

WritesEarly == metadataBy' \in {metadataBy, None} \cup InSession

CommitsNothing ==
  /\ UNCHANGED committed /\ contentBy' \in {contentBy, None} /\ WritesEarly
  /\ \A id \in Syncs : checkpoint'[id].phase \in {checkpoint[id].phase, "failed", "fetch"}
  /\ \A s \in Syncs : Keeps(s)

(* A commit; the end of the files of a sync that has committed; the end of *)
(* the process between the mark of a checkpoint and the commit.            *)
Commits(s) ==
  /\ pc[s] = "fetching" /\ pc'[s] \in {"processing", "done"}
  /\ committed' = committed \cup {s} /\ contentBy' = s /\ metadataBy' = s
  /\ result'[s] \in {result[s], "success", "killed"} /\ syncId'[s] = syncId[s]
  /\ \A id \in Syncs : checkpoint'[id].phase = checkpoint[id].phase \/ id = syncId[s]
  /\ \A t \in Syncs \ {s} : Keeps(t)

Completes(s) ==
  /\ pc[s] = "processing" /\ pc'[s] = "done"
  /\ UNCHANGED <<committed, contentBy, metadataBy>>
  /\ result'[s] \in {"success", "threw", "killed"} /\ syncId'[s] = syncId[s]
  /\ \A id \in Syncs : checkpoint'[id].phase = checkpoint[id].phase \/ id = syncId[s]
  /\ \A t \in Syncs \ {s} : Keeps(t)

MarksOnly(s) ==
  /\ pc[s] = "fetching" /\ pc'[s] = "done"
  /\ UNCHANGED <<committed, contentBy, metadataBy>>
  /\ result'[s] = "killed" /\ syncId'[s] = syncId[s]
  /\ \A id \in Syncs : \/ checkpoint'[id].phase = checkpoint[id].phase
                       \/ id = syncId[s] /\ checkpoint'[id].phase = "commit"
  /\ \A t \in Syncs \ {s} : Keeps(t)

(* The effect of a mark on the phases.                                     *)
LEMMA MarkPhases ==
  ASSUME TypeOK, NEW i \in Syncs, NEW phase \in Phases, MarkCheckpoint(i, phase)
  PROVE  \A id \in Syncs : \/ checkpoint'[id].phase = checkpoint[id].phase
                           \/ id = i /\ checkpoint'[id].phase = phase
  BY DEF TypeOK, MarkCheckpoint

(* The end of the process, for each sync.                                  *)
LEMMA RestartedKeeps ==
  ASSUME SyncInv, Restarted
  PROVE  /\ UNCHANGED syncId
         /\ \A s \in Syncs : /\ Keeps(s)
                             /\ pc[s] \in Running => pc'[s] = "done" /\ result'[s] = "killed"
  <1>1. /\ UNCHANGED syncId
        /\ \A s \in Syncs :
             /\ pc'[s] = IF pc[s] = "idle" THEN "idle" ELSE "done"
             /\ result'[s] = IF pc[s] \in Running \cup {"hung"} THEN "killed" ELSE result[s]
    BY DEF Restarted, fetchVars
  <1>. QED BY <1>1 DEF Keeps, Running, Fetching

(* Every step is one of these.                                             *)
LEMMA ContentSteps ==
  ASSUME SyncInv, [Next]_vars
  PROVE  CommitsNothing \/ \E s \in Syncs : Commits(s) \/ Completes(s) \/ MarksOnly(s)
  <1>1. TypeOK
    BY DEF SyncInv
  <1>2. ASSUME NEW s \in Syncs, NEW how \in {"failed", "refused", "threw", "success"}, Ends(s, how),
               how = "success" => writeLocked,
               pc[s] \in {"idle"} \cup Fetching,
               UNCHANGED <<committed, contentBy, metadataBy, syncId>>,
               UNCHANGED checkpoint \/ MarkCheckpoint(syncId[s], "failed")
        PROVE  CommitsNothing
    <2>1. \A id \in Syncs : checkpoint'[id].phase \in {checkpoint[id].phase, "failed"}
      <3>1. syncId[s] \in Syncs /\ "failed" \in Phases
        BY <1>1 DEF TypeOK, Phases
      <3>. QED BY <1>1, <1>2, <3>1, MarkPhases
    <2>2. \A t \in Syncs : pc'[t] \in {pc[t], "done"} /\ (t # s => result'[t] = result[t])
      BY <1>1, <1>2 DEF Ends, TypeOK
    <2>3. result'[s] = how /\ (how = "success" => s \in lockedOut')
      BY <1>1, <1>2 DEF Ends, TypeOK
    <2>4. \A t \in Syncs : Keeps(t)
      BY <1>2, <2>2, <2>3 DEF Keeps, Fetching
    <2>. QED BY <1>2, <2>1, <2>4 DEF CommitsNothing, WritesEarly
  <1>3. ASSUME UNCHANGED <<pc, result, committed, syncId, checkpoint>>,
               contentBy' \in {contentBy, None}, metadataBy' \in {metadataBy, None}
        PROVE  CommitsNothing
    BY <1>3 DEF CommitsNothing, Keeps, WritesEarly
  <1>4. ASSUME UNCHANGED <<result, committed, syncId, checkpoint>>,
               contentBy' \in {contentBy, None}, metadataBy' \in {metadataBy, None}, StopLimiter
        PROVE  CommitsNothing
    BY <1>4 DEF CommitsNothing, Keeps, WritesEarly, StopLimiter
  <1>5. CASE Event
    <2>1. CASE Abort \/ ResetKeepsToken \/ ConnectUnlocks \/ CloseDatabase \/ CanvasStalls
      BY <1>3, <2>1 DEF Abort, ResetKeepsToken, WipeContent, ConnectUnlocks, CloseDatabase,
                        CanvasStalls, resultVars, dbVars, contentVars, fetchVars
    <2>2. CASE ResetCancels
      <3>1. /\ UNCHANGED <<result, committed, syncId, checkpoint>>
            /\ contentBy' = None /\ metadataBy' = None
            /\ UNCHANGED pc \/ StopLimiter
        BY <2>2 DEF ResetCancels, WipeContent, resultVars, fetchVars
      <3>. QED BY <1>3, <1>4, <3>1
    <2>3. CASE Restart
      <3>1. UNCHANGED <<committed, contentBy, metadataBy, checkpoint>>
        BY <2>3 DEF Restart, contentVars
      <3>. QED BY <2>3, <3>1, RestartedKeeps DEF Restart, CommitsNothing, WritesEarly
    <2>4. ASSUME NEW s \in Syncs, CutInHalf(s)
          PROVE  CommitsNothing \/ Commits(s) \/ Completes(s) \/ MarksOnly(s)
      <3>1. /\ UNCHANGED syncId
            /\ \A t \in Syncs : /\ Keeps(t)
                                /\ pc[t] \in Running => pc'[t] = "done" /\ result'[t] = "killed"
        BY <2>4, RestartedKeeps DEF CutInHalf
      <3>2. syncId[s] \in Syncs /\ "completed" \in Phases /\ "commit" \in Phases
        BY <1>1 DEF TypeOK, Phases
      <3>3. CASE EarlyMetadataOnly(s)
        BY <3>1, <3>3 DEF EarlyMetadataOnly, CommitsNothing, WritesEarly, InSession, Fetching
      <3>4. CASE MarkedOnly(s)
        <4>1. \A id \in Syncs : \/ checkpoint'[id].phase = checkpoint[id].phase
                                \/ id = syncId[s] /\ checkpoint'[id].phase = "commit"
          BY <1>1, <3>2, <3>4, MarkPhases DEF MarkedOnly
        <4>. QED BY <3>1, <3>4, <4>1 DEF MarkedOnly, FetchEnded, MarksOnly, contentVars, Running,
                                         Fetching
      <3>5. CASE MarkedAndCommitted(s)
        <4>1. \A id \in Syncs : checkpoint'[id].phase = checkpoint[id].phase \/ id = syncId[s]
          BY <1>1, <3>2, <3>5, MarkPhases DEF MarkedAndCommitted
        <4>. QED BY <3>1, <3>5, <4>1 DEF MarkedAndCommitted, FetchEnded, Committed, Commits, Running,
                                         Fetching
      <3>6. CASE CompletedOnly(s)
        <4>1. \A id \in Syncs : checkpoint'[id].phase = checkpoint[id].phase \/ id = syncId[s]
          BY <1>1, <3>2, <3>6, MarkPhases DEF CompletedOnly
        <4>. QED BY <3>1, <3>6, <4>1 DEF CompletedOnly, Completes, contentVars, Running
      <3>. QED BY <2>4, <3>3, <3>4, <3>5, <3>6 DEF CutInHalf
    <2>. QED BY <1>5, <2>1, <2>2, <2>3, <2>4 DEF Event
  <1>6. ASSUME NEW s \in Syncs, NEW o \in Options, SyncAll(s, o)
        PROVE  CommitsNothing
    <2>1. /\ UNCHANGED <<committed, contentBy, metadataBy, syncId, checkpoint>> /\ pc[s] = "idle"
      BY <1>6 DEF SyncAll, SyncAllClosed, SyncAllLocked, SyncAllRefused, Answered, SyncAllAccepted,
                  Called, dbVars, contentVars, fetchVars
    <2>2. ASSUME NEW how \in {"failed", "refused", "success"}, Answered(s, o, how),
                 how = "success" => writeLocked
          PROVE  CommitsNothing
      BY <1>2, <2>1, <2>2 DEF Answered
    <2>3. CASE SyncAllAccepted(s, o)
      <3>1. pc' = [pc EXCEPT ![s] = "waiting"] /\ UNCHANGED result
        BY <2>3 DEF SyncAllAccepted, resultVars
      <3>2. \A t \in Syncs : Keeps(t)
        BY <1>1, <2>1, <3>1 DEF Keeps, TypeOK
      <3>. QED BY <2>1, <3>2 DEF CommitsNothing, WritesEarly
    <2>. QED BY <1>6, <2>2, <2>3 DEF SyncAll, SyncAllClosed, SyncAllLocked, SyncAllRefused
  <1>7. ASSUME NEW s \in Syncs, Continue(s)
        PROVE  CommitsNothing \/ Commits(s) \/ Completes(s)
    <2>1. CASE MutexGranted(s)
      <3>1. pc[s] = "waiting" /\ UNCHANGED <<result, committed, contentBy, metadataBy>>
        BY <2>1 DEF MutexGranted, resultVars, contentVars
      <3>2. /\ \E at \in {"fetchingCourses", "restored"} : pc' = [pc EXCEPT ![s] = at]
            /\ syncId' = syncId \/ \E id \in Resumable : syncId' = [syncId EXCEPT ![s] = id]
            /\ UNCHANGED checkpoint \/ ClearIncompleteCheckpoints
        BY <2>1 DEF MutexGranted, StartFresh, Resume
      <3>3. \A t \in Syncs : /\ syncId'[t] = syncId[t] \/ pc[t] = "waiting"
                             /\ pc'[t] = pc[t] \/ (pc[t] = "waiting" /\ pc'[t] \in Fetching)
        BY <1>1, <3>1, <3>2 DEF TypeOK, Fetching
      <3>4. \A id \in Syncs : checkpoint'[id].phase \in {checkpoint[id].phase, "failed"}
        BY <1>1, <3>2 DEF TypeOK, ClearIncompleteCheckpoints
      <3>. QED BY <3>1, <3>3, <3>4 DEF CommitsNothing, Keeps, WritesEarly
    <2>2. ASSUME FetchFailed(s), pc[s] \in Fetching, UNCHANGED syncId
          PROVE  CommitsNothing
      BY <1>2, <2>2 DEF FetchFailed, contentVars
    <2>3. CASE CoursesFail(s)
      BY <2>2, <2>3 DEF CoursesFail, Fetching
    <2>4. CASE CoursesKnown(s)
      <3>1. pc[s] \in {"fetchingCourses", "restored"} /\ UNCHANGED syncId
        BY <2>4 DEF CoursesKnown
      <3>2. CASE FetchFailed(s)
        BY <2>2, <3>1, <3>2 DEF Fetching
      <3>3. CASE ~FetchFailed(s)
        <4>1. /\ checkpoint' = IF syncId[s] = s
                         THEN [checkpoint EXCEPT ![s] = [phase |-> "fetch", saved |-> NoData]]
                         ELSE checkpoint
              /\ pc' = [pc EXCEPT ![s] = "fetching"] /\ metadataBy' = s
              /\ UNCHANGED <<result, contentBy, committed>>
          BY <2>4, <3>3 DEF CoursesKnown, resultVars
        <4>2. \A id \in Syncs : checkpoint'[id].phase \in {checkpoint[id].phase, "fetch"}
          BY <1>1, <4>1 DEF TypeOK
        <4>3. \A t \in Syncs : pc'[t] = pc[t] \/ (pc[t] \in Fetching /\ pc'[t] \in Fetching)
          BY <1>1, <3>1, <4>1 DEF TypeOK, Fetching
        <4>. QED BY <3>1, <4>1, <4>2, <4>3 DEF CommitsNothing, Keeps, WritesEarly, InSession, Fetching
      <3>. QED BY <3>2, <3>3
    <2>5. CASE CourseArrives(s)
      <3>1. PICK c \in Courses, got \in SUBSET Kinds : CourseFetched(s, c, got)
        BY <2>5 DEF CourseArrives
      <3>2. /\ UNCHANGED <<pc, result, committed, contentBy, metadataBy, syncId>>
            /\ checkpoint' = IF Writable /\ checkpoint[syncId[s]].phase # "none"
                   THEN [checkpoint EXCEPT ![syncId[s]].saved[c] = @ \cup (got \ {"groups"})]
                   ELSE checkpoint
        BY <3>1 DEF CourseFetched, resultVars, contentVars
      <3>3. \A id \in Syncs : checkpoint'[id].phase = checkpoint[id].phase
        BY <1>1, <3>2 DEF TypeOK
      <3>. QED BY <3>2, <3>3 DEF CommitsNothing, Keeps, WritesEarly
    <2>6. CASE CommitPhase(s)
      <3>1. pc[s] = "fetching" /\ UNCHANGED syncId
        BY <2>6 DEF CommitPhase, FetchEnded
      <3>2. CASE FetchFailed(s)
        BY <2>2, <3>1, <3>2 DEF Fetching
      <3>3. CASE SnapshotThrows(s) \/ CommitFails(s)
        BY <1>2, <3>1, <3>3 DEF SnapshotThrows, CommitFails, contentVars, Fetching
      <3>4. CASE writeLocked /\ CommitSkipped(s)
        BY <1>2, <3>1, <3>4 DEF CommitSkipped, contentVars, Fetching
      <3>5. CASE CommitSucceeds(s)
        <4>1. /\ Committed(s)
              /\ \/ pc' = [pc EXCEPT ![s] = "processing"] /\ UNCHANGED result
                 \/ Ends(s, "success")
              /\ MarkCheckpoint(syncId[s], "completed") \/ MarkCheckpoint(syncId[s], "commit")
          BY <3>5 DEF CommitSucceeds, HandleDeferred, resultVars
        <4>2. \A id \in Syncs : checkpoint'[id].phase = checkpoint[id].phase \/ id = syncId[s]
          <5>1. syncId[s] \in Syncs /\ "completed" \in Phases /\ "commit" \in Phases
            BY <1>1 DEF TypeOK, Phases
          <5>. QED BY <1>1, <4>1, <5>1, MarkPhases
        <4>3. /\ pc'[s] \in {"processing", "done"} /\ result'[s] \in {result[s], "success"}
              /\ \A t \in Syncs \ {s} : pc'[t] = pc[t] /\ result'[t] = result[t]
          BY <1>1, <4>1 DEF Ends, TypeOK
        <4>4. Commits(s)
          BY <3>1, <4>1, <4>2, <4>3 DEF Commits, Committed, Keeps
        <4>. QED BY <4>4
      <3>. QED BY <2>6, <3>2, <3>3, <3>4, <3>5 DEF CommitPhase
    <2>7. CASE FilesProcessed(s)
      <3>1. /\ pc[s] = "processing" /\ UNCHANGED <<committed, contentBy, metadataBy, syncId>>
            /\ Ends(s, "success") \/ Ends(s, "threw")
            /\ MarkCheckpoint(syncId[s], "completed") \/ UNCHANGED checkpoint
        BY <2>7 DEF FilesProcessed, fetchVars, contentVars
      <3>2. \A id \in Syncs : checkpoint'[id].phase = checkpoint[id].phase \/ id = syncId[s]
        <4>1. syncId[s] \in Syncs /\ "completed" \in Phases
          BY <1>1 DEF TypeOK, Phases
        <4>. QED BY <1>1, <3>1, <4>1, MarkPhases
      <3>3. /\ pc'[s] = "done" /\ result'[s] \in {"success", "threw"}
            /\ \A t \in Syncs \ {s} : pc'[t] = pc[t] /\ result'[t] = result[t]
        BY <1>1, <3>1 DEF Ends, TypeOK
      <3>4. Completes(s)
        BY <3>1, <3>2, <3>3 DEF Completes, Keeps
      <3>. QED BY <3>4
    <2>. QED BY <1>7, <2>1, <2>3, <2>4, <2>5, <2>6, <2>7 DEF Continue
  <1>8. ASSUME NEW b \in Backgrounds, Background(b)
        PROVE  CommitsNothing
    BY <1>3, <1>8 DEF Background, BackgroundStarts, BackgroundEnds, BackgroundThrows, resultVars,
                      dbVars, contentVars, fetchVars
  <1>9. CASE ResetStops
    BY <1>4, <1>9 DEF ResetStops, resultVars, dbVars, contentVars, fetchVars
  <1>10. CASE ResetLocks \/ LockTimesOut \/ ConnectEnds
    BY <1>3, <1>10 DEF ResetLocks, LockTimesOut, ConnectEnds, resultVars, dbVars, contentVars,
                       fetchVars
  <1>11. CASE UNCHANGED vars
    BY <1>3, <1>11 DEF vars, resultVars, dbVars, contentVars, fetchVars
  <1>. QED BY <1>5, <1>6, <1>7, <1>8, <1>9, <1>10, <1>11 DEF Next

(* A history of answers only grows.                                        *)
LEMMA LockedOutGrows ==
  ASSUME [Next]_vars
  PROVE  lockedOut \subseteq lockedOut'
  <1>1. CASE Event
    BY <1>1 DEF Event, Abort, ResetKeepsToken, ResetCancels, ConnectUnlocks, CloseDatabase,
                CanvasStalls, Restart, CutInHalf, Restarted, resultVars
  <1>2. ASSUME NEW s \in Syncs, Continue(s)
        PROVE  lockedOut \subseteq lockedOut'
    BY <1>2 DEF Continue, MutexGranted, CoursesFail, CoursesKnown, CourseArrives, CourseFetched,
                CommitPhase, FetchFailed, SnapshotThrows, CommitSkipped, CommitFails,
                CommitSucceeds, HandleDeferred, FilesProcessed, Ends, resultVars
  <1>3. ASSUME NEW s \in Syncs, NEW o \in Options, SyncAll(s, o)
        PROVE  lockedOut \subseteq lockedOut'
    BY <1>3 DEF SyncAll, SyncAllClosed, SyncAllLocked, SyncAllRefused, Answered, SyncAllAccepted,
                Ends, resultVars
  <1>4. ASSUME NEW b \in Backgrounds, Background(b)
        PROVE  lockedOut \subseteq lockedOut'
    BY <1>4 DEF Background, BackgroundStarts, BackgroundEnds, BackgroundThrows, resultVars
  <1>5. CASE ResetStops \/ ResetLocks \/ LockTimesOut \/ ConnectEnds
    BY <1>5 DEF ResetStops, ResetLocks, LockTimesOut, ConnectEnds, resultVars
  <1>6. CASE UNCHANGED vars
    BY <1>6 DEF vars, resultVars
  <1>. QED BY <1>1, <1>2, <1>3, <1>4, <1>5, <1>6 DEF Next

(* A sync stays accepted, and granted.                                     *)
LEMMA WritersStay ==
  ASSUME SyncInv, [Next]_vars, NEW s \in Syncs, Granted(s), Accepted(s)
  PROVE  Granted(s)' /\ Accepted(s)'
  <1>1. TypeOK /\ ResetHasEngine /\ CallsInOrder
    BY DEF SyncInv, MutexInv
  <1>2. CallTypes /\ pc[s] \notin {"idle", "waiting"} /\ engineOf[s] # None
    BY <1>1 DEF TypeOK, CallTypes, Granted, Accepted
  <1>3. CASE CallStep
    BY <1>2, <1>3 DEF CallStep, Answers, Accepts, CallTypes, Granted, Accepted
  <1>4. CASE SyncStep
    <2>1. UNCHANGED engineOf /\ \E t \in Syncs, at \in Stages \ {"idle", "waiting"} : pc' = [pc EXCEPT ![t] = at]
      BY <1>4 DEF SyncStep, Grants, Proceeds, EndsUnreleased, GivesBack, CallSame, Stages, Running,
                  Fetching
    <2>. QED BY <1>2, <2>1 DEF CallTypes, Granted, Accepted
  <1>5. CASE AppStep
    <2>1. UNCHANGED engineOf /\ pc'[s] \in {pc[s], "hung"}
      BY <1>5 DEF AppStep, TakesAway, HangsOnly, Replaces, CallSame, StopLimiter
    <2>. QED BY <1>2, <2>1 DEF Granted, Accepted
  <1>6. CASE Restarted
    BY <1>2, <1>6 DEF Restarted, callVars, Granted, Accepted
  <1>. QED BY <1>1, <1>3, <1>4, <1>5, <1>6, StepKinds

(* They keep the database, the results and the checkpoints true to one     *)
(* another.                                                                *)
LEMMA CommittedKept ==
  ASSUME SyncInv, CommittedInv, [Next]_vars
  PROVE  CommittedInv'
  <1>1. TypeOK /\ TypeOK' /\ lockedOut \subseteq lockedOut'
    BY SyncInvKept, LockedOutGrows DEF SyncInv
  <1>2. \A s \in Syncs : pc[s] = "done" <=> result[s] # "none"
    BY DEF SyncInv, MutexInv, CallsInOrder
  <1>3. \A s \in Syncs : s \in committed => pc[s] \notin {"idle", "waiting"} \cup Fetching
    BY DEF CommittedInv, CommittedStages
  <1>4. ASSUME NEW s \in Syncs, pc[s] \in Fetching \cup {"processing"}
        PROVE  Granted(s)' /\ Accepted(s)'
    <2>1. Granted(s) /\ Accepted(s)
      BY <1>4 DEF SyncInv, MutexInv, CallsInOrder, Granted, Fetching
    <2>. QED BY <2>1, WritersStay
  <1>5. \A s \in Syncs : s \in committed \/ s = metadataBy => Granted(s)' /\ Accepted(s)'
    BY WritersStay DEF CommittedInv, CommittedStages
  <1>6. ASSUME NEW s \in Syncs, Keeps(s), s \in committed' <=> s \in committed
        PROVE  /\ pc'[s] \in {"idle", "waiting"} \cup Fetching => s \notin committed'
               /\ pc'[s] = "processing" => s \in committed'
               /\ result'[s] \in {"failed", "refused"} => s \notin committed'
               /\ result'[s] = "success" => s \in committed' \cup lockedOut'
               /\ s \in committed => syncId'[s] = syncId[s]
               /\ result[s] = "killed" => syncId'[s] = syncId[s] /\ result'[s] = "killed"
    BY <1>1, <1>2, <1>3, <1>6 DEF Keeps, CommittedInv, CommittedStages, ResultTruthful, Fetching
  <1>7. CASE CommitsNothing
    <2>1. \A s \in Syncs : Keeps(s) /\ (s \in committed' <=> s \in committed)
      BY <1>7 DEF CommitsNothing
    <2>2. \A s \in Syncs : s \in committed' \/ s = metadataBy' => Granted(s)' /\ Accepted(s)'
      BY <1>4, <1>5, <1>7 DEF CommitsNothing, WritesEarly, InSession, Syncs, None
    <2>3. contentBy' \in committed' \cup {None}
      BY <1>7 DEF CommitsNothing, CommittedInv, CommittedStages
    <2>4. CommittedStages' /\ ResultTruthful'
      BY <1>6, <2>1, <2>2, <2>3 DEF CommittedStages, ResultTruthful
    <2>5. CheckpointTruthful'
      BY <1>1, <1>6, <1>7, <2>1 DEF CommitsNothing, CommittedInv, CheckpointTruthful
    <2>. QED BY <2>4, <2>5 DEF CommittedInv
  <1>8. ASSUME NEW s \in Syncs, Commits(s) \/ Completes(s)
        PROVE  CommittedInv'
    <2>1. /\ s \in committed' /\ committed' = committed \cup {s} /\ syncId'[s] = syncId[s]
          /\ contentBy' \in committed' \cup {None} /\ metadataBy' \in {metadataBy, s}
          /\ pc[s] \in {"fetching", "processing"} /\ pc'[s] \in {"processing", "done"}
          /\ result'[s] \in {result[s], "success", "threw", "killed"}
      BY <1>8 DEF Commits, Completes, CommittedInv, CommittedStages
    <2>2. \A t \in Syncs \ {s} : Keeps(t) /\ (t \in committed' <=> t \in committed)
      BY <1>8, <2>1 DEF Commits, Completes
    <2>3. result[s] = "none"
      BY <1>2, <2>1
    <2>4. \A t \in Syncs : t \in committed' \/ t = metadataBy' => Granted(t)' /\ Accepted(t)'
      BY <1>4, <1>5, <2>1 DEF Fetching
    <2>5. CommittedStages' /\ ResultTruthful'
      BY <1>6, <2>1, <2>2, <2>3, <2>4 DEF CommittedStages, ResultTruthful, Fetching
    <2>6. CheckpointTruthful'
      <3>1. \A id \in Syncs : checkpoint'[id].phase = checkpoint[id].phase \/ id = syncId[s]
        BY <1>8 DEF Commits, Completes
      <3>. QED BY <1>6, <2>1, <2>2, <2>3, <3>1 DEF CommittedInv, CheckpointTruthful
    <2>. QED BY <2>5, <2>6 DEF CommittedInv
  <1>9. ASSUME NEW s \in Syncs, MarksOnly(s)
        PROVE  CommittedInv'
    <2>1. /\ UNCHANGED <<committed, contentBy, metadataBy>> /\ syncId'[s] = syncId[s]
          /\ pc[s] = "fetching" /\ pc'[s] = "done" /\ result'[s] = "killed"
          /\ \A t \in Syncs \ {s} : Keeps(t)
      BY <1>9 DEF MarksOnly
    <2>2. result[s] = "none" /\ s \notin committed
      BY <1>2, <1>3, <2>1 DEF Fetching
    <2>3. CommittedStages' /\ ResultTruthful'
      BY <1>5, <1>6, <2>1, <2>2 DEF CommittedInv, CommittedStages, ResultTruthful, Fetching
    <2>4. CheckpointTruthful'
      <3>1. \A id \in Syncs : \/ checkpoint'[id].phase = checkpoint[id].phase
                              \/ id = syncId[s] /\ checkpoint'[id].phase = "commit"
        BY <1>9 DEF MarksOnly
      <3>. QED BY <1>6, <2>1, <2>2, <3>1 DEF CommittedInv, CheckpointTruthful
    <2>. QED BY <2>3, <2>4 DEF CommittedInv
  <1>. QED BY <1>7, <1>8, <1>9, ContentSteps

(* So they are always.                                                     *)
LEMMA CommittedInvariance == Spec => [](SyncInv /\ CommittedInv)
  <1>1. Init => CommittedInv
    <2> SUFFICES ASSUME Init PROVE CommittedInv
      OBVIOUS
    <2>1. \A s \in Syncs : s \notin committed /\ s # metadataBy /\ result[s] = "none"
      BY DEF Init, Syncs, None
    <2>. QED BY <2>1 DEF Init, CommittedInv, CommittedStages, ResultTruthful, CheckpointTruthful
  <1>2. SyncInv /\ CommittedInv /\ [Next]_vars => CommittedInv'
    BY CommittedKept
  <1>. QED BY <1>1, <1>2, SyncInvariance, PTL DEF Spec

(* What syncAll answers is what happened to the database, but under the    *)
(* write lock: a success that is none of a commit was given there, by a    *)
(* call that was not begun or a commit that was left out.                  *)
THEOREM ResultsAreTruthful == Spec => []ResultTruthful
  BY CommittedInvariance, PTL DEF CommittedInv

(* So is what a checkpoint says, also when it was resumed or cleared by    *)
(* another sync, or found after a restart that cut a commit in half.       *)
THEOREM CheckpointsAreTruthful == Spec => []CheckpointTruthful
  BY CommittedInvariance, PTL DEF CommittedInv

-----------------------------------------------------------------------------
(* What a success without an error is made of.                             *)

(* A sync that does not resume starts from nothing, has the data of the    *)
(* courses it no longer waits for unless it collected an error, and        *)
(* commits when it waits for none.                                         *)
CleanStages(s) ==
  /\ pc[s] = "idle" => data[s] = NoData
  /\ ~options[s].resume =>
       /\ pc[s] # "restored"
       /\ pc[s] \in {"waiting", "fetchingCourses"} => data[s] = NoData
       /\ pc[s] = "fetching" => failures[s] \/ \A c \in Courses \ toFetch[s] : data[s][c] = Kinds
       /\ s \in committed => failures[s] \/ \A c \in Courses : data[s][c] = Kinds
CleanInv == \A s \in Syncs : CleanStages(s)

DataKept(s) ==
  /\ options'[s] = options[s] /\ data'[s] = data[s] /\ failures'[s] = failures[s]
DataSame(s) ==
  /\ pc'[s] = pc[s] /\ DataKept(s) /\ toFetch'[s] = toFetch[s]
  /\ s \in committed' <=> s \in committed
Falls(s) ==
  /\ pc'[s] \in {"processing", "done", "hung"}
  /\ s \in committed' => DataKept(s) /\ (s \in committed \/ FetchEnded(s))

(* A sync that stays as it is, ends, or commits, says nothing new.         *)
LEMMA CleanOtherwise ==
  ASSUME NEW s \in Syncs, CleanStages(s), DataSame(s) \/ Falls(s)
  PROVE  CleanStages(s)'
  BY DEF CleanStages, DataSame, DataKept, Falls, FetchEnded

(* A sync ends uncommitted, the others stay as they are.                   *)
LEMMA EndsFalls ==
  ASSUME TypeOK, CleanInv, NEW s \in Syncs, NEW how, Ends(s, how), UNCHANGED committed,
         s \notin committed,
         \A t \in Syncs \ {s} : DataKept(t) /\ toFetch'[t] = toFetch[t]
  PROVE  CleanInv'
  <1>1. Falls(s)
    BY DEF Ends, Falls, TypeOK
  <1>2. \A t \in Syncs \ {s} : DataSame(t)
    BY DEF Ends, DataSame, TypeOK
  <1>3. \A t \in Syncs : CleanStages(t)'
    BY <1>1, <1>2, CleanOtherwise DEF CleanInv
  <1>. QED BY <1>3 DEF CleanInv

(* The steps of one sync.                                                  *)
LEMMA CallKeepsClean ==
  ASSUME SyncInv, CommittedInv, CleanInv, NEW s \in Syncs, NEW o \in Options, SyncAll(s, o)
  PROVE  CleanInv'
  <1>. TypeOK
    BY DEF SyncInv
  <1>1. /\ pc[s] = "idle" /\ UNCHANGED <<data, failures, toFetch, committed>>
        /\ options' = [options EXCEPT ![s] = o]
    BY DEF SyncAll, SyncAllClosed, SyncAllLocked, SyncAllRefused, Answered, SyncAllAccepted, Called,
           fetchVars, dbVars, contentVars
  <1>2. s \notin committed /\ \A t \in Syncs \ {s} : DataKept(t) /\ toFetch'[t] = toFetch[t]
    BY <1>1 DEF TypeOK, DataKept, CommittedInv, CommittedStages
  <1>3. ASSUME NEW how, Answered(s, o, how)
        PROVE  CleanInv'
    BY <1>1, <1>2, <1>3, EndsFalls DEF Answered
  <1>4. CASE SyncAllAccepted(s, o)
    <2>1. pc' = [pc EXCEPT ![s] = "waiting"]
      BY <1>4 DEF SyncAllAccepted
    <2>2. \A t \in Syncs \ {s} : DataSame(t)
      BY <1>1, <1>2, <2>1 DEF DataSame, TypeOK
    <2>3. CleanStages(s)'
      <3>1. data'[s] = NoData /\ pc'[s] = "waiting" /\ s \notin committed'
        BY <1>1, <1>2, <2>1 DEF CleanInv, CleanStages, TypeOK
      <3>. QED BY <3>1 DEF CleanStages
    <2>4. \A t \in Syncs : CleanStages(t)'
      BY <2>2, <2>3, CleanOtherwise DEF CleanInv
    <2>. QED BY <2>4 DEF CleanInv
  <1>. QED BY <1>3, <1>4 DEF SyncAll, SyncAllClosed, SyncAllLocked, SyncAllRefused

(* The steps after an await.                                               *)
LEMMA ContinueKeepsClean ==
  ASSUME SyncInv, CommittedInv, CleanInv, NEW s \in Syncs, Continue(s)
  PROVE  CleanInv'
  <1>. TypeOK
    BY DEF SyncInv
  <1>1. ASSUME CleanStages(s)', \A t \in Syncs \ {s} : DataSame(t)
        PROVE  CleanInv'
    <2>1. \A t \in Syncs : CleanStages(t)'
      BY <1>1, CleanOtherwise DEF CleanInv
    <2>. QED BY <2>1 DEF CleanInv
  <1>2. pc[s] \in {"waiting"} \cup Fetching => s \notin committed
    BY DEF CommittedInv, CommittedStages
  <1>3. ASSUME NEW how, Ends(s, how), pc[s] \in Fetching, UNCHANGED <<options, data, toFetch, committed>>,
               failures' \in {failures, [failures EXCEPT ![s] = FALSE]}
        PROVE  CleanInv'
    <2>1. \A t \in Syncs \ {s} : DataKept(t) /\ toFetch'[t] = toFetch[t]
      BY <1>3 DEF DataKept, TypeOK
    <2>. QED BY <1>2, <1>3, <2>1, EndsFalls
  <1>4. CASE MutexGranted(s)
    <2>1. /\ pc[s] = "waiting" /\ UNCHANGED <<options, toFetch, failures, committed>>
          /\ \E at \in {"fetchingCourses", "restored"} : pc' = [pc EXCEPT ![s] = at]
          /\ data' = data \/ \E id \in Syncs : data' = [data EXCEPT ![s] = checkpoint[id].saved]
          /\ ~options[s].resume => pc' = [pc EXCEPT ![s] = "fetchingCourses"] /\ data' = data
      BY <1>4 DEF MutexGranted, StartFresh, Resume, Resumable, Incomplete, callVars, contentVars
    <2>2. \A t \in Syncs \ {s} : DataSame(t)
      BY <2>1 DEF DataSame, DataKept, TypeOK
    <2>3. ~options'[s].resume => pc'[s] = "fetchingCourses" /\ data'[s] = NoData
      BY <2>1 DEF TypeOK, CleanInv, CleanStages
    <2>4. pc'[s] \in {"fetchingCourses", "restored"} /\ s \notin committed'
      BY <1>2, <2>1 DEF TypeOK
    <2>5. CleanStages(s)'
      BY <2>3, <2>4 DEF CleanStages
    <2>. QED BY <1>1, <2>2, <2>5
  <1>5. CASE CoursesFail(s)
    <2>1. FetchFailed(s) /\ UNCHANGED <<options, data, failures>> /\ pc[s] \in Fetching
      BY <1>5 DEF CoursesFail, callVars, Fetching
    <2>. QED BY <1>3, <2>1 DEF FetchFailed, contentVars
  <1>6. CASE CoursesKnown(s)
    <2>1. /\ pc[s] \in {"fetchingCourses", "restored"} /\ UNCHANGED <<options, data, failures>>
      BY <1>6 DEF CoursesKnown, callVars
    <2>2. CASE FetchFailed(s)
      BY <1>3, <2>1, <2>2 DEF FetchFailed, contentVars, Fetching
    <2>3. CASE ~FetchFailed(s)
      <3>1. /\ toFetch' = [toFetch EXCEPT ![s] = CoursesToFetch(s)]
            /\ pc' = [pc EXCEPT ![s] = "fetching"] /\ UNCHANGED committed
        BY <1>6, <2>3 DEF CoursesKnown
      <3>2. \A t \in Syncs \ {s} : DataSame(t)
        BY <2>1, <3>1 DEF DataSame, DataKept, TypeOK
      <3>3. ~options[s].resume => CoursesToFetch(s) = Courses
        BY <2>1 DEF CoursesToFetch, CleanInv, CleanStages, NoData
      <3>4. /\ pc'[s] = "fetching" /\ s \notin committed'
            /\ ~options'[s].resume => Courses \ toFetch'[s] = {}
        BY <1>2, <2>1, <3>1, <3>3 DEF TypeOK, Fetching
      <3>5. CleanStages(s)'
        BY <3>4 DEF CleanStages
      <3>. QED BY <1>1, <3>2, <3>5
    <2>. QED BY <2>2, <2>3
  <1>7. CASE CourseArrives(s)
    <2>1. PICK c \in Courses, got \in SUBSET Kinds : CourseFetched(s, c, got)
      BY <1>7 DEF CourseArrives
    <2>2. /\ pc[s] = "fetching" /\ UNCHANGED <<pc, options, committed>>
          /\ toFetch' = [toFetch EXCEPT ![s] = @ \ {c}]
          /\ data' = [data EXCEPT ![s][c] = @ \cup got]
          /\ failures' = [failures EXCEPT ![s] = failures[s] \/ got # Kinds]
      BY <2>1 DEF CourseFetched, CallFailed, callVars, contentVars
    <2>3. \A t \in Syncs \ {s} : DataSame(t)
      BY <2>2 DEF DataSame, DataKept, TypeOK
    <2>4. /\ toFetch'[s] = toFetch[s] \ {c} /\ failures'[s] = (failures[s] \/ got # Kinds)
          /\ \A d \in Courses : data'[s][d] = IF d = c THEN data[s][c] \cup got ELSE data[s][d]
          /\ data[s][c] \subseteq Kinds
      BY <2>2 DEF TypeOK
    <2>5. ASSUME ~options[s].resume, ~failures'[s], NEW d \in Courses \ toFetch'[s]
          PROVE  data'[s][d] = Kinds
      <3>1. CASE d = c
        BY <2>4, <2>5, <3>1
      <3>2. CASE d # c
        BY <2>2, <2>4, <2>5, <3>2 DEF CleanInv, CleanStages
      <3>. QED BY <3>1, <3>2
    <2>6. CleanStages(s)'
      <3>1. pc'[s] = "fetching" /\ s \notin committed' /\ options'[s] = options[s]
        BY <1>2, <2>2 DEF Fetching
      <3>. QED BY <2>5, <3>1 DEF CleanStages
    <2>. QED BY <1>1, <2>3, <2>6
  <1>8. CASE CommitPhase(s)
    <2>1. /\ FetchEnded(s) /\ pc[s] \in Fetching /\ UNCHANGED <<options, data, toFetch>>
          /\ UNCHANGED failures \/ CommitSkipped(s)
      BY <1>8 DEF CommitPhase, FetchEnded, callVars, Fetching
    <2>2. CASE FetchFailed(s) \/ SnapshotThrows(s) \/ CommitSkipped(s) \/ CommitFails(s)
      <3>1. /\ UNCHANGED committed /\ \E how : Ends(s, how)
            /\ failures' \in {failures, [failures EXCEPT ![s] = FALSE]}
        BY <2>1, <2>2 DEF FetchFailed, SnapshotThrows, CommitSkipped, CommitFails, contentVars
      <3>. QED BY <1>3, <2>1, <3>1
    <2>3. CASE CommitSucceeds(s) /\ UNCHANGED failures
      <3>1. /\ pc' = [pc EXCEPT ![s] = "processing"] \/ pc' = [pc EXCEPT ![s] = "done"]
            /\ committed' = committed \cup {s}
        BY <2>3 DEF CommitSucceeds, Committed, HandleDeferred, Ends
      <3>2. \A t \in Syncs \ {s} : DataSame(t)
        BY <2>1, <2>3, <3>1 DEF DataSame, DataKept, TypeOK
      <3>3. Falls(s)
        BY <2>1, <2>3, <3>1 DEF Falls, DataKept, TypeOK
      <3>. QED BY <1>1, <3>2, <3>3, CleanOtherwise DEF CleanInv
    <2>. QED BY <1>8, <2>2, <2>3 DEF CommitPhase
  <1>9. CASE FilesProcessed(s)
    <2>1. /\ pc[s] = "processing" /\ UNCHANGED <<options, data, failures, toFetch, committed>>
          /\ pc' = [pc EXCEPT ![s] = "done"]
      BY <1>9 DEF FilesProcessed, Ends, callVars, fetchVars, contentVars
    <2>2. \A t \in Syncs \ {s} : DataSame(t)
      BY <2>1 DEF DataSame, DataKept, TypeOK
    <2>3. Falls(s)
      BY <2>1 DEF Falls, DataKept, TypeOK
    <2>. QED BY <1>1, <2>2, <2>3, CleanOtherwise DEF CleanInv
  <1>. QED BY <1>4, <1>5, <1>6, <1>7, <1>8, <1>9 DEF Continue

(* Every step.                                                             *)
LEMMA CleanKept ==
  ASSUME SyncInv, CommittedInv, CleanInv, [Next]_vars
  PROVE  CleanInv'
  <1>. TypeOK
    BY DEF SyncInv
  <1>1. ASSUME \A s \in Syncs : DataSame(s) \/ Falls(s)
        PROVE  CleanInv'
    <2>1. \A s \in Syncs : CleanStages(s)'
      BY <1>1, CleanOtherwise DEF CleanInv
    <2>. QED BY <2>1 DEF CleanInv
  <1>2. ASSUME UNCHANGED <<options, data, failures, toFetch, committed>>, UNCHANGED pc \/ StopLimiter
        PROVE  CleanInv'
    BY <1>1, <1>2 DEF DataSame, DataKept, Falls, StopLimiter
  <1>3. ASSUME Restarted, committed \subseteq committed',
               \A s \in committed' : s \in committed \/ FetchEnded(s)
        PROVE  CleanInv'
    <2>1. /\ UNCHANGED <<options, data, failures, toFetch>>
          /\ \A s \in Syncs : pc'[s] = IF pc[s] = "idle" THEN "idle" ELSE "done"
      BY <1>3 DEF Restarted, callVars, fetchVars
    <2>2. ASSUME NEW s \in Syncs
          PROVE  DataSame(s) \/ Falls(s)
      BY <1>3, <2>1 DEF DataSame, DataKept, Falls, FetchEnded
    <2>. QED BY <1>1, <2>2
  <1>4. CASE Event
    <2>1. CASE Restart
      BY <1>3, <2>1 DEF Restart, contentVars
    <2>2. ASSUME NEW s \in Syncs, CutInHalf(s)
          PROVE  CleanInv'
      <3>1. \/ UNCHANGED committed
            \/ committed' = committed \cup {s} /\ FetchEnded(s)
        BY <2>2 DEF CutInHalf, EarlyMetadataOnly, MarkedOnly, MarkedAndCommitted, Committed,
                    CompletedOnly, contentVars
      <3>. QED BY <1>3, <2>2, <3>1 DEF CutInHalf
    <2>3. CASE Abort \/ ResetKeepsToken \/ ResetCancels \/ ConnectUnlocks \/ CloseDatabase \/ CanvasStalls
      BY <1>2, <2>3 DEF Abort, ResetKeepsToken, ResetCancels, ConnectUnlocks, CloseDatabase,
                        CanvasStalls, callVars, fetchVars, dbVars, contentVars
    <2>. QED BY <1>4, <2>1, <2>2, <2>3 DEF Event
  <1>5. ASSUME NEW b \in Backgrounds, Background(b)
        PROVE  CleanInv'
    BY <1>2, <1>5 DEF Background, BackgroundStarts, BackgroundEnds, BackgroundThrows, callVars,
                      fetchVars, dbVars, contentVars
  <1>6. CASE ResetStops \/ ResetLocks \/ LockTimesOut \/ ConnectEnds
    BY <1>2, <1>6 DEF ResetStops, ResetLocks, LockTimesOut, ConnectEnds, callVars, fetchVars,
                      dbVars, contentVars
  <1>7. CASE UNCHANGED vars
    BY <1>2, <1>7 DEF vars, callVars, fetchVars, dbVars, contentVars
  <1>. QED BY <1>4, <1>5, <1>6, <1>7, CallKeepsClean, ContinueKeepsClean DEF Next

(* So it is always.                                                        *)
LEMMA CleanInvariance == Spec => [](CleanInv /\ CommittedInv)
  <1>1. Init => CleanInv
    BY DEF Init, CleanInv, CleanStages
  <1>2. SyncInv /\ CommittedInv /\ CleanInv /\ [Next]_vars => CleanInv'
    BY CleanKept
  <1>. QED BY <1>1, <1>2, CommittedInvariance, PTL DEF Spec

(* A sync that did not ask to resume, and answers success and no error,    *)
(* has committed everything of every course, whatever happened meanwhile,  *)
(* unless it found the database locked and did nothing.                    *)
THEOREM FreshSuccessIsComplete ==
  Spec => [](\A s \in Syncs : ~options[s].resume /\ result[s] = "success" /\ ~failures[s] =>
               \/ s \in committed /\ \A c \in Courses : data[s][c] = Kinds
               \/ s \in lockedOut \ committed)
  <1>1. CleanInv /\ CommittedInv =>
          \A s \in Syncs : ~options[s].resume /\ result[s] = "success" /\ ~failures[s] =>
            \/ s \in committed /\ \A c \in Courses : data[s][c] = Kinds
            \/ s \in lockedOut \ committed
    BY DEF CleanInv, CleanStages, CommittedInv, ResultTruthful
  <1>. QED BY <1>1, CleanInvariance, PTL

(* When no caller asks to resume, that is so of every sync.                *)
THEOREM CleanSuccess ==
  ASSUME \A o \in Options : ~o.resume
  PROVE  Spec => []CleanSuccessIsComplete
  <1> DEFINE NoneResumes == \A s \in Syncs : ~options[s].resume
  <1>1. Init => NoneResumes
    BY DEF Init
  <1>2. TypeOK /\ NoneResumes /\ [Next]_vars => NoneResumes'
    <2> SUFFICES ASSUME TypeOK, NoneResumes, [Next]_vars
                 PROVE  NoneResumes'
      OBVIOUS
    <2>1. options' = options \/ \E s \in Syncs, o \in Options : options' = [options EXCEPT ![s] = o]
      <3>1. CASE Event
        BY <3>1 DEF Event, Abort, ResetKeepsToken, ResetCancels, ConnectUnlocks, CloseDatabase,
                    CanvasStalls, Restart, CutInHalf, Restarted, callVars
      <3>2. ASSUME NEW s \in Syncs, Continue(s)
            PROVE  options' = options
        BY <3>2 DEF Continue, MutexGranted, CoursesFail, CoursesKnown, CourseArrives, CourseFetched,
                    CommitPhase, FilesProcessed, callVars
      <3>3. ASSUME NEW s \in Syncs, NEW o \in Options, SyncAll(s, o)
            PROVE  options' = [options EXCEPT ![s] = o]
        BY <3>3 DEF SyncAll, SyncAllClosed, SyncAllLocked, SyncAllRefused, Answered,
                    SyncAllAccepted, Called
      <3>4. ASSUME NEW b \in Backgrounds, Background(b)
            PROVE  options' = options
        BY <3>4 DEF Background, BackgroundStarts, BackgroundEnds, BackgroundThrows, callVars
      <3>5. CASE ResetStops \/ ResetLocks \/ LockTimesOut \/ ConnectEnds
        BY <3>5 DEF ResetStops, ResetLocks, LockTimesOut, ConnectEnds, callVars
      <3>6. CASE UNCHANGED vars
        BY <3>6 DEF vars, callVars
      <3>. QED BY <3>1, <3>2, <3>3, <3>4, <3>5, <3>6 DEF Next
    <2>. QED BY <2>1 DEF TypeOK
  <1>3. CleanInv /\ CommittedInv /\ NoneResumes => CleanSuccessIsComplete
    BY DEF CleanInv, CleanStages, CommittedInv, ResultTruthful, CleanSuccessIsComplete
  <1> HIDE DEF NoneResumes
  <1>. QED BY <1>1, <1>2, <1>3, TypeCorrect, CleanInvariance, PTL DEF Spec
=============================================================================
