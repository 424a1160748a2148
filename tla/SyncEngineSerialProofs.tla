----------------------- MODULE SyncEngineSerialProofs ------------------------
(***************************************************************************)
(* The engine implements SerialSync.  The session is the sync between the  *)
(* grant of its mutex and its commit, which the chain of mutexes makes     *)
(* unique; that a session is later than what is in the database follows    *)
(* from the order of the calls and of the engines.                         *)
(***************************************************************************)
EXTENDS SyncEngineContentProofs

(* The state of SerialSync that a state of the engine stands for.          *)
Session == IF InSession = {} THEN None ELSE CHOOSE s \in InSession : TRUE

(* The abstract steps, in terms of the sync that is in session.            *)
LEMMA SessionSteps ==
  /\ Sessions!Init <=> Session = 0 /\ metadataBy = 0 /\ contentBy = 0
  /\ \A s : Sessions!Open(s) <=> /\ Session = 0 /\ s > metadataBy /\ s > contentBy /\ Session' = s
                                 /\ metadataBy' = metadataBy /\ contentBy' = contentBy
  /\ Sessions!WriteCourses <=> /\ Session # 0 /\ Session' = Session
                               /\ metadataBy' = Session /\ contentBy' = contentBy
  /\ Sessions!Commit <=> Session # 0 /\ Session' = 0 /\ metadataBy' = Session /\ contentBy' = Session
  /\ Sessions!GiveUp <=> /\ Session # 0 /\ Session' = 0
                         /\ metadataBy' \in {metadataBy, Session} /\ contentBy' = contentBy
  /\ Sessions!Wipe <=> metadataBy' = 0 /\ contentBy' = 0 /\ Session' = Session
  BY DEF Session, Sessions!Init, Sessions!Open, Sessions!WriteCourses, Sessions!Commit,
         Sessions!GiveUp, Sessions!Wipe

(* What holds in a state without aborts, resets and new connections.       *)
CalmInv ==
  /\ SyncInv /\ CommittedInv
  /\ resetStage = "idle" /\ ~connecting
  /\ \A s \in InSession : InSession = {s}

(* It follows from the invariants of the engine.                           *)
LEMMA CalmInvHolds ==
  ASSUME Events \cap {"abort", "reset", "connect"} = {}, SyncInv, CommittedInv
  PROVE  CalmInv
  <1>1. Undisturbed /\ OneEngine /\ Events \cap {"abort", "reset"} = {}
    BY DEF SyncInv
  <1>2. /\ resetStage = "idle" /\ ~connecting
        /\ \A s \in InSession : s \notin released
        /\ \A s \in InSession : engineOf[s] = engine
    BY <1>1 DEF Undisturbed, OneEngine, InSession, Running
  <1>3. ASSUME NEW s \in InSession, NEW t \in InSession, t < s
        PROVE  FALSE
    <2>1. Granted(s) /\ Accepted(s) /\ Accepted(t) /\ s \in Syncs /\ t \in Syncs
      BY DEF SyncInv, MutexInv, CallsInOrder, InSession, Granted, Accepted, Fetching
    <2>2. t \in released
      BY <1>2, <1>3, <2>1 DEF SyncInv, MutexInv, MutexChain, EarlierReleased, SameEngine
    <2>. QED BY <1>2, <2>2
  <1>4. \A s, t \in InSession : s = t
    BY <1>3 DEF InSession, Syncs
  <1>. QED BY <1>2, <1>4 DEF CalmInv

(* The session of a state in which there is one, or none.                  *)
LEMMA SessionOf ==
  ASSUME NEW s, InSession = {s}
  PROVE  Session = s
  BY DEF Session

(* And of a state in which there is none.                                  *)
LEMMA NoSession ==
  ASSUME InSession = {}
  PROVE  Session = 0
  BY DEF Session, None

(* A sync that is granted the mutex is later than the ones that wrote to   *)
(* the database.                                                           *)
LEMMA GrantedIsLater ==
  ASSUME CalmInv, OneEngine, Events \cap {"abort", "reset", "connect"} = {},
         NEW s \in Syncs, pc[s] = "waiting"
  PROVE  s > contentBy /\ s > metadataBy
  <1>1. TypeOK /\ MutexInv /\ CommittedInv
    BY DEF CalmInv, SyncInv
  <1>2. ASSUME NEW c \in Syncs, Granted(c), Accepted(c)
        PROVE  s > c
    <2>1. c # s /\ Accepted(s) /\ engineOf[c] # None /\ engineOf[s] # None
      BY <1>1, <1>2 DEF Granted, Accepted, MutexInv, CallsInOrder
    <2>2. engineOf[s] = engine /\ engine = created /\ engine # None /\ created \in Nat
      BY <1>1, <2>1 DEF OneEngine, Running, MutexInv, CallsInOrder, TypeOK, Engines
    <2>3. CASE s < c
      <3>1. engineOf[s] <= engineOf[c] /\ engineOf[c] <= created /\ engineOf[c] \in Nat
        BY <1>1, <1>2, <2>1, <2>3 DEF MutexInv, CallsInOrder, TypeOK, Engines, None
      <3>2. engineOf[s] = engineOf[c]
        BY <2>2, <3>1
      <3>3. s \in released
        BY <1>1, <1>2, <2>1, <2>3, <3>2 DEF MutexInv, MutexChain, EarlierReleased, SameEngine
      <3>. QED BY <1>1, <3>3 DEF MutexInv, FieldsOwn, Granted
    <2>. QED BY <2>1, <2>3 DEF Syncs
  <1>3. ASSUME NEW c \in {contentBy, metadataBy}, c # None
        PROVE  c \in Syncs /\ Granted(c) /\ Accepted(c)
    BY <1>1, <1>3 DEF CommittedInv, CommittedStages, TypeOK
  <1>4. s > None
    BY DEF Syncs, None
  <1>. QED BY <1>2, <1>3, <1>4

(* The end of the process ends the session, if there is one.               *)
LEMMA RestartedEnds ==
  ASSUME CalmInv, Restarted
  PROVE  /\ Session' = 0
         /\ \/ Session = 0
            \/ Session # 0 /\ Session \in InSession
  <1>1. InSession' = {}
    BY DEF Restarted, InSession, Fetching
  <1>2. Session' = 0
    BY <1>1 DEF Session, None
  <1>3. CASE InSession = {}
    BY <1>2, <1>3, NoSession
  <1>4. CASE InSession # {}
    BY <1>2, <1>4 DEF Session, InSession, Syncs
  <1>. QED BY <1>3, <1>4

(* The steps of the engine are steps of SerialSync, or none.               *)
LEMMA StepsImplement ==
  ASSUME Events \cap {"abort", "reset", "connect"} = {},
         CalmInv, CalmInv', [Next]_vars
  PROVE  Sessions!Next \/ UNCHANGED <<Session, metadataBy, contentBy>>
  <1>1. TypeOK /\ TypeOK'
    BY DEF CalmInv, SyncInv
  <1>2. ~Abort /\ ~ResetCancels /\ ~ResetStops /\ ~ConnectUnlocks
    BY DEF CalmInv, Abort, ResetCancels, ResetStops, ConnectUnlocks, Happens
  <1>3. ASSUME UNCHANGED <<pc, metadataBy, contentBy>>
        PROVE  UNCHANGED <<Session, metadataBy, contentBy>>
    BY <1>3 DEF Session, InSession
  <1>4. ASSUME NEW s \in Syncs, pc' = [pc EXCEPT ![s] = pc'[s]],
               pc[s] \in Fetching <=> pc'[s] \in Fetching
        PROVE  Session' = Session
    <2>1. \A t \in Syncs : pc[t] \in Fetching <=> pc'[t] \in Fetching
      BY <1>1, <1>4 DEF TypeOK
    <2>2. InSession' = InSession
      BY <2>1 DEF InSession
    <2>. QED BY <2>2 DEF Session
  <1>5. ASSUME NEW s \in Syncs, pc[s] \in Fetching
        PROVE  Session = s /\ s # 0
    <2>1. InSession = {s}
      BY <1>5 DEF CalmInv, InSession
    <2>. QED BY <2>1, SessionOf DEF Syncs
  <1>6. ASSUME NEW s \in Syncs, pc[s] \in Fetching, pc'[s] \notin Fetching,
               pc' = [pc EXCEPT ![s] = pc'[s]]
        PROVE  Session' = 0
    <2>1. InSession = {s}
      BY <1>6 DEF CalmInv, InSession
    <2>2. InSession' = {}
      <3>1. \A t \in Syncs \ {s} : pc'[t] = pc[t]
        BY <1>1, <1>6 DEF TypeOK
      <3>. QED BY <1>6, <2>1, <3>1 DEF InSession
    <2>. QED BY <2>2 DEF Session, None
  <1>7. ASSUME NEW s \in Syncs, pc[s] \in Fetching, UNCHANGED <<metadataBy, contentBy>>,
               NEW how, Ends(s, how)
        PROVE  Sessions!GiveUp
    <2>1. pc'[s] = "done" /\ pc' = [pc EXCEPT ![s] = "done"]
      BY <1>1, <1>7 DEF Ends, TypeOK
    <2>2. Session = s /\ Session' = 0 /\ s # 0
      BY <1>5, <1>6, <1>7, <2>1 DEF Fetching
    <2>. QED BY <1>7, <2>2, SessionSteps
  <1>8. ASSUME NEW s \in Syncs, MutexGranted(s)
        PROVE  Sessions!Next
    <2>1. /\ pc[s] = "waiting" /\ UNCHANGED <<metadataBy, contentBy>>
          /\ \E at \in {"fetchingCourses", "restored"} : pc' = [pc EXCEPT ![s] = at]
      BY <1>8 DEF MutexGranted, StartFresh, Resume, contentVars
    <2>2. pc'[s] \in Fetching /\ pc[s] \notin Fetching /\ \A t \in Syncs \ {s} : pc'[t] = pc[t]
      BY <1>1, <2>1 DEF Fetching, TypeOK
    <2>3. InSession' = {s}
      BY <2>2 DEF CalmInv, InSession
    <2>4. InSession = {}
      BY <2>2, <2>3 DEF InSession
    <2>5. Session = 0 /\ Session' = s
      BY <2>3, <2>4 DEF Session, None
    <2>6. s > contentBy /\ s > metadataBy
      BY <2>1, GrantedIsLater DEF CalmInv, SyncInv
    <2>7. Sessions!Open(s) /\ s \in Sessions!Sessions
      BY <2>1, <2>5, <2>6, SessionSteps DEF Syncs, Sessions!Sessions
    <2>. QED BY <2>7 DEF Sessions!Next
  <1>9. ASSUME NEW s \in Syncs, Continue(s), ~MutexGranted(s)
        PROVE  Sessions!Next \/ UNCHANGED <<Session, metadataBy, contentBy>>
    <2>1. ASSUME FetchFailed(s), pc[s] \in Fetching
          PROVE  Sessions!Next
      BY <1>7, <2>1 DEF FetchFailed, contentVars, Sessions!Next
    <2>2. CASE CoursesFail(s)
      BY <2>1, <2>2 DEF CoursesFail, Fetching
    <2>3. CASE CoursesKnown(s)
      <3>1. pc[s] \in Fetching
        BY <2>3 DEF CoursesKnown, Fetching
      <3>2. CASE FetchFailed(s)
        BY <2>1, <3>1, <3>2
      <3>3. CASE ~FetchFailed(s)
        <4>1. pc' = [pc EXCEPT ![s] = "fetching"] /\ metadataBy' = s /\ UNCHANGED contentBy
          BY <2>3, <3>3 DEF CoursesKnown
        <4>2. pc'[s] = "fetching"
          BY <1>1, <4>1 DEF TypeOK
        <4>3. Session = s /\ s # 0 /\ Session' = Session
          BY <1>4, <1>5, <3>1, <4>1, <4>2 DEF Fetching
        <4>4. Sessions!WriteCourses
          BY <4>1, <4>3, SessionSteps
        <4>. QED BY <4>4 DEF Sessions!Next
      <3>. QED BY <3>2, <3>3
    <2>4. CASE CourseArrives(s)
      BY <1>3, <2>4 DEF CourseArrives, CourseFetched, contentVars
    <2>5. CASE CommitPhase(s)
      <3>1. pc[s] \in Fetching
        BY <2>5 DEF CommitPhase, FetchEnded, Fetching
      <3>2. CASE FetchFailed(s)
        BY <2>1, <3>1, <3>2
      <3>3. CASE SnapshotThrows(s) \/ CommitSkipped(s) \/ CommitFails(s)
        BY <1>7, <3>1, <3>3 DEF SnapshotThrows, CommitSkipped, CommitFails, contentVars, Sessions!Next
      <3>4. CASE CommitSucceeds(s)
        <4>1. /\ contentBy' = s /\ metadataBy' = s
              /\ pc' = [pc EXCEPT ![s] = "processing"] \/ pc' = [pc EXCEPT ![s] = "done"]
          BY <3>4 DEF CommitSucceeds, Committed, HandleDeferred, Ends
        <4>2. pc'[s] \notin Fetching /\ pc' = [pc EXCEPT ![s] = pc'[s]]
          BY <1>1, <4>1 DEF TypeOK, Fetching
        <4>3. Session = s /\ Session' = 0 /\ s # 0
          BY <1>5, <1>6, <3>1, <4>2
        <4>4. Sessions!Commit
          BY <4>1, <4>3, SessionSteps
        <4>. QED BY <4>4 DEF Sessions!Next
      <3>. QED BY <2>5, <3>2, <3>3, <3>4 DEF CommitPhase
    <2>6. CASE FilesProcessed(s)
      <3>1. /\ pc[s] = "processing" /\ pc' = [pc EXCEPT ![s] = "done"]
            /\ UNCHANGED <<metadataBy, contentBy>>
        BY <2>6 DEF FilesProcessed, Ends, contentVars
      <3>2. pc'[s] = "done"
        BY <1>1, <3>1 DEF TypeOK
      <3>. QED BY <1>4, <3>1, <3>2 DEF Fetching
    <2>. QED BY <1>9, <2>2, <2>3, <2>4, <2>5, <2>6 DEF Continue
  <1>10. ASSUME NEW s \in Syncs, NEW o \in Options, SyncAll(s, o)
         PROVE  UNCHANGED <<Session, metadataBy, contentBy>>
    <2>1. /\ pc[s] = "idle" /\ UNCHANGED <<metadataBy, contentBy>>
          /\ pc' = [pc EXCEPT ![s] = "done"] \/ pc' = [pc EXCEPT ![s] = "waiting"]
      BY <1>10 DEF SyncAll, SyncAllClosed, SyncAllLocked, SyncAllRefused, Answered, SyncAllAccepted,
                   Called, Ends, dbVars, contentVars
    <2>2. pc'[s] \notin Fetching /\ pc' = [pc EXCEPT ![s] = pc'[s]]
      BY <1>1, <2>1 DEF TypeOK, Fetching
    <2>. QED BY <1>4, <2>1, <2>2 DEF Fetching
  <1>11. ASSUME Restarted, UNCHANGED contentBy, metadataBy' \in {metadataBy} \cup InSession
         PROVE  Sessions!Next \/ UNCHANGED <<Session, metadataBy, contentBy>>
    <2>1. CASE Session = 0
      <3>1. InSession = {}
        BY <1>5, <2>1 DEF InSession
      <3>. QED BY <1>11, <2>1, <3>1, RestartedEnds
    <2>2. CASE Session # 0
      <3>1. Session' = 0 /\ metadataBy' \in {metadataBy, Session}
        BY <1>5, <1>11, RestartedEnds DEF InSession
      <3>2. Sessions!GiveUp
        BY <1>11, <2>2, <3>1, SessionSteps
      <3>. QED BY <3>2 DEF Sessions!Next
    <2>. QED BY <2>1, <2>2
  <1>12. CASE Restart
    BY <1>11, <1>12 DEF Restart, contentVars
  <1>13. ASSUME NEW s \in Syncs, CutInHalf(s)
         PROVE  Sessions!Next \/ UNCHANGED <<Session, metadataBy, contentBy>>
    <2>1. CASE EarlyMetadataOnly(s) \/ MarkedOnly(s) \/ CompletedOnly(s)
      BY <1>11, <1>13, <2>1 DEF CutInHalf, EarlyMetadataOnly, MarkedOnly, CompletedOnly, contentVars,
                                InSession, Fetching
    <2>2. CASE MarkedAndCommitted(s)
      <3>1. metadataBy' = s /\ contentBy' = s /\ pc[s] \in Fetching
        BY <2>2 DEF MarkedAndCommitted, FetchEnded, Committed, Fetching
      <3>2. Session = s /\ s # 0 /\ Session' = 0
        BY <1>5, <1>13, <3>1, RestartedEnds DEF CutInHalf
      <3>3. Sessions!Commit
        BY <3>1, <3>2, SessionSteps
      <3>. QED BY <3>3 DEF Sessions!Next
    <2>. QED BY <1>13, <2>1, <2>2 DEF CutInHalf
  <1>14. CASE ResetKeepsToken
    <2>1. UNCHANGED pc /\ metadataBy' = 0 /\ contentBy' = 0
      BY <1>14 DEF ResetKeepsToken, WipeContent, None
    <2>2. Session' = Session
      BY <2>1 DEF Session, InSession
    <2>3. Sessions!Wipe
      BY <2>1, <2>2, SessionSteps
    <2>. QED BY <2>3 DEF Sessions!Next
  <1>15. CASE CloseDatabase \/ CanvasStalls \/ ResetLocks \/ LockTimesOut \/ ConnectEnds
    BY <1>3, <1>15 DEF CloseDatabase, CanvasStalls, ResetLocks, LockTimesOut, ConnectEnds, dbVars,
                       contentVars
  <1>16. ASSUME NEW b \in Backgrounds, Background(b)
         PROVE  UNCHANGED <<Session, metadataBy, contentBy>>
    BY <1>3, <1>16 DEF Background, BackgroundStarts, BackgroundEnds, BackgroundThrows, dbVars,
                       contentVars
  <1>17. CASE UNCHANGED vars
    BY <1>3, <1>17 DEF vars, dbVars, contentVars
  <1>. QED BY <1>2, <1>8, <1>9, <1>10, <1>12, <1>13, <1>14, <1>15, <1>16, <1>17 DEF Next, Event

(* Left alone but for crashes, also in the middle of its writes, a wipe of *)
(* the content and the end of the database, the engine implements serial   *)
(* sessions: one at a time, what each writes early is its own, and neither *)
(* the courses nor the content go back to those of an earlier session.     *)
THEOREM EngineIsSerialSync ==
  ASSUME Events \cap {"abort", "reset", "connect"} = {}
  PROVE  Spec => ImplementsSerialSync
  <1>1. Init => Sessions!Init
    <2> SUFFICES ASSUME Init
                 PROVE  Sessions!Init
      OBVIOUS
    <2>1. InSession = {} /\ metadataBy = 0 /\ contentBy = 0
      BY DEF Init, InSession, Fetching, None
    <2>. QED BY <2>1, NoSession, SessionSteps
  <1>2. SyncInv /\ CommittedInv => CalmInv
    BY CalmInvHolds
  <1>3. CalmInv /\ CalmInv' /\ [Next]_vars => [Sessions!Next]_<<Session, metadataBy, contentBy>>
    BY StepsImplement
  <1>4. CalmInv /\ CalmInv' /\ [Next]_vars =>
          [Sessions!Next]_<<IF InSession = {} THEN None ELSE CHOOSE s \in InSession : TRUE,
                            metadataBy, contentBy>>
    BY <1>3 DEF Session
  <1>. QED BY <1>1, <1>2, <1>4, CommittedInvariance, PTL DEF Spec, ImplementsSerialSync, Sessions!Spec
=============================================================================
