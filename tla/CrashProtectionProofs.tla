------------------------ MODULE CrashProtectionProofs ------------------------
(***************************************************************************)
(* Theorems about CrashProtection, for every threshold, window and bound   *)
(* on the reports.  The inductive invariant adds to the properties that    *)
(* the history has the recent reports and no others, unless a write        *)
(* failed; then a check at the start of a session counts what was          *)
(* reported.                                                               *)
(***************************************************************************)
EXTENDS CrashProtection, TLAPS

HistoryComplete ==
  ~damaged => history # Torn /\ Recent(history.crashes) = reported

IInv == TypeOK /\ SafeModeAgrees /\ NothingScheduled /\ HistoryComplete

-----------------------------------------------------------------------------
(* The files.                                                              *)

(* A torn history is no history.                                           *)
LEMMA TornIsNoHistory == Torn \notin Histories
  BY DEF Torn, Histories

(* What is loaded is a history, the one on disk unless that is torn.       *)
LEMMA LoadedType ==
  ASSUME TypeOK
  PROVE  /\ LoadCrashHistory \in Histories
         /\ history # Torn => LoadCrashHistory = history
  BY DEF TypeOK, LoadCrashHistory, NoHistory, Histories

(* A save leaves a history or a torn file, and without damage what was     *)
(* saved.                                                                  *)
LEMMA SaveType ==
  ASSUME TypeOK, NEW h \in Histories, SaveCrashHistory(h)
  PROVE  /\ history' \in Histories \cup {Torn}
         /\ damaged' \in BOOLEAN
         /\ ~damaged' => ~damaged /\ history' = h
  BY DEF TypeOK, SaveCrashHistory

(* A new report is a recent report.                                        *)
LEMMA NewReportType ==
  ASSUME NEW kind \in Kinds, Reporting(kind)
  PROVE  NewReport(kind) \in Reports /\ NewReport(kind).age = 0
  <1>1. \E n \in 1..MaxReports : n \notin Used
    BY DEF Reporting
  <1>2. (CHOOSE n \in 1..MaxReports : n \notin Used) \in 1..MaxReports
    BY <1>1
  <1>3. 0 \in Ages
    BY ConstantsAssumption DEF Ages
  <1>. QED BY <1>2, <1>3 DEF NewReport, Reports

(* Recording a report puts it among the recent ones and keeps those.       *)
LEMMA RecordKeeps ==
  ASSUME TypeOK, HistoryComplete, NEW kind \in Kinds, Reporting(kind), Record(kind)
  PROVE  /\ history' \in Histories \cup {Torn}
         /\ damaged' \in BOOLEAN
         /\ HistoryComplete'
         /\ ~damaged' => LoadCrashHistory'.safeMode = LoadCrashHistory.safeMode
  <1> DEFINE h == LoadCrashHistory
             new == NewReport(kind)
             saved == [h EXCEPT !.crashes = Kept(@ \cup {new})]
  <1>1. h \in Histories /\ (history # Torn => h = history)
    BY LoadedType
  <1>2. new \in Reports /\ new.age = 0
    BY NewReportType
  <1>3. Kept(h.crashes \cup {new}) \subseteq Reports
    BY <1>1, <1>2 DEF Kept, Histories
  <1>4. /\ saved \in Histories /\ saved.safeMode = h.safeMode
        /\ saved.crashes = Kept(h.crashes \cup {new})
    BY <1>1, <1>3 DEF Histories
  <1>5. SaveCrashHistory(saved)
    BY DEF Record
  <1>6. /\ history' \in Histories \cup {Torn} /\ damaged' \in BOOLEAN
        /\ ~damaged' => ~damaged /\ history' = saved
    <2> HIDE DEF saved
    <2>. QED BY <1>4, <1>5, SaveType
  <1>7. reported' = reported \cup {new}
    BY DEF Reporting
  <1>8. ASSUME ~damaged'
        PROVE  history' # Torn /\ Recent(history'.crashes) = reported'
    <2>1. history' = saved /\ ~damaged
      BY <1>6, <1>8
    <2>2. h = history /\ Recent(h.crashes) = reported
      BY <2>1, <1>1 DEF HistoryComplete
    <2>3. \A r \in h.crashes \cup {new} : r.age \in Nat
      BY <1>1, <1>2, ConstantsAssumption DEF Histories, Reports, Ages
    <2>4. Recent(Kept(h.crashes \cup {new})) = Recent(h.crashes) \cup {new}
      BY <1>2, <2>3, ConstantsAssumption DEF Recent, Kept
    <2>. QED BY <1>4, <1>7, <2>1, <2>2, <2>4, TornIsNoHistory
  <1>9. ASSUME ~damaged'
        PROVE  LoadCrashHistory'.safeMode = LoadCrashHistory.safeMode
    <2>1. history' = saved
      BY <1>6, <1>9
    <2>2. LoadCrashHistory' = saved
      BY <2>1, <1>4, TornIsNoHistory DEF LoadCrashHistory
    <2>. QED BY <2>2, <1>4
  <1>. QED BY <1>6, <1>8, <1>9 DEF HistoryComplete

(* What writeCrashFlag leaves behind.                                      *)
LEMMA WriteCrashFlagKeeps ==
  ASSUME TypeOK, HistoryComplete, WriteCrashFlag
  PROVE  /\ flag' \in {"none", "session_start", "crash", "torn"}
         /\ history' \in Histories \cup {Torn}
         /\ reported' \subseteq Reports
         /\ damaged' \in BOOLEAN
         /\ HistoryComplete'
         /\ ~damaged' => LoadCrashHistory'.safeMode = LoadCrashHistory.safeMode
                         /\ ~damaged
  <1>0. Reporting("crash") /\ "crash" \in Kinds
    BY DEF WriteCrashFlag, Kinds
  <1>1. reported' \subseteq Reports
    BY <1>0, NewReportType DEF Reporting, TypeOK
  <1>2. CASE WriteFlag("crash") /\ Record("crash")
    <2>1. ~damaged' => ~damaged
      BY <1>2 DEF Record, SaveCrashHistory, TypeOK
    <2>. QED BY <1>0, <1>1, <1>2, <2>1, RecordKeeps DEF WriteFlag
  <1>3. CASE FlagFails /\ damaged' = TRUE /\ UNCHANGED history
    BY <1>1, <1>3 DEF FlagFails, TypeOK, HistoryComplete
  <1>. QED BY <1>2, <1>3 DEF WriteCrashFlag

(* Clearing the flag writes the history again as it was.                   *)
LEMMA ClearCrashFlagKeeps ==
  ASSUME TypeOK, HistoryComplete, ClearCrashFlag, UNCHANGED reported
  PROVE  /\ flag' \in {"none", "session_start", "crash", "torn"}
         /\ history' \in Histories \cup {Torn}
         /\ damaged' \in BOOLEAN
         /\ HistoryComplete'
  <1>1. CASE UNCHANGED <<flag, history, damaged>>
    BY <1>1 DEF TypeOK, HistoryComplete
  <1>2. CASE WriteFlag("none") /\ SaveCrashHistory(LoadCrashHistory)
    <2>1. LoadCrashHistory \in Histories
      BY LoadedType
    <2>2. /\ history' \in Histories \cup {Torn} /\ damaged' \in BOOLEAN
          /\ ~damaged' => ~damaged /\ history' = LoadCrashHistory
      BY <1>2, <2>1, SaveType
    <2>3. ASSUME ~damaged'
          PROVE  history' # Torn /\ Recent(history'.crashes) = reported'
      BY <2>2, <2>3, LoadedType DEF HistoryComplete
    <2>. QED BY <1>2, <2>2, <2>3 DEF WriteFlag, HistoryComplete
  <1>. QED BY <1>1, <1>2 DEF ClearCrashFlag

(* What the end of the safe mode leaves behind.                            *)
LEMMA ClearSafeModeKeeps ==
  ASSUME TypeOK, HistoryComplete, SafeModeAgrees, session = "up", UNCHANGED session,
         ClearSafeMode
  PROVE  /\ safe' \in BOOLEAN /\ (safe' => safe)
         /\ history' \in Histories \cup {Torn}
         /\ reported' \subseteq Reports
         /\ damaged' \in BOOLEAN
         /\ HistoryComplete' /\ SafeModeAgrees'
  <1>1. CASE ~LoadCrashHistory.safeMode /\ UNCHANGED <<safe, history, ghostVars>>
    BY <1>1 DEF TypeOK, HistoryComplete, SafeModeAgrees, ghostVars, LoadCrashHistory
  <1>2. CASE /\ safe' = FALSE
             /\ history' \in {NoHistory, history, Torn}
             /\ reported' = {}
             /\ damaged' = (history' # NoHistory)
    <2>1. NoHistory \in Histories /\ NoHistory.crashes = {} /\ NoHistory.safeMode = FALSE
      BY DEF NoHistory, Histories
    <2>2. Recent({}) = {}
      BY DEF Recent
    <2>3. ASSUME ~damaged'
          PROVE  /\ history' # Torn /\ Recent(history'.crashes) = reported'
                 /\ LoadCrashHistory' = NoHistory
      BY <1>2, <2>1, <2>2, <2>3, TornIsNoHistory DEF LoadCrashHistory
    <2>. QED BY <1>2, <2>1, <2>3 DEF TypeOK, HistoryComplete, SafeModeAgrees
  <1>. QED BY <1>1, <1>2 DEF ClearSafeMode

(* Making the reports older loses none of the window.                      *)
LEMMA TickKeeps ==
  ASSUME TypeOK, HistoryComplete, Tick
  PROVE  /\ history' \in Histories \cup {Torn}
         /\ reported' \subseteq Reports
         /\ HistoryComplete'
         /\ history' # Torn => history # Torn /\ history'.safeMode = history.safeMode
         /\ history # Torn => history' # Torn
  <1>1. ASSUME NEW R \in SUBSET Reports
        PROVE  /\ Older(R) \subseteq Reports
               /\ Recent(Older(R)) = Recent(Older(Recent(R)))
    <2>1. ASSUME NEW r \in R
          PROVE  /\ [r EXCEPT !.age = IF @ < 2 * Window THEN @ + 1 ELSE @] \in Reports
                 /\ r.age \in Nat
                 /\ [r EXCEPT !.age = IF @ < 2 * Window THEN @ + 1 ELSE @].age
                      = IF r.age < 2 * Window THEN r.age + 1 ELSE r.age
      BY ConstantsAssumption DEF Reports, Ages
    <2>2. Older(R) \subseteq Reports
      BY <2>1 DEF Older
    <2>3. Recent(Older(Recent(R))) \subseteq Recent(Older(R))
      BY DEF Recent, Older
    <2>4. ASSUME NEW q \in Recent(Older(R))
          PROVE  q \in Recent(Older(Recent(R)))
      <3>1. PICK r \in R : q = [r EXCEPT !.age = IF @ < 2 * Window THEN @ + 1 ELSE @]
        BY DEF Recent, Older
      <3>2. q.age < Window
        BY DEF Recent
      <3>3. r.age < Window
        BY <2>1, <3>1, <3>2, ConstantsAssumption
      <3>. QED BY <3>1, <3>2, <3>3 DEF Recent, Older
    <2>. QED BY <2>2, <2>3, <2>4
  <1>2. reported' \subseteq Reports
    BY <1>1 DEF Tick, TypeOK, Recent
  <1>3. CASE history = Torn /\ UNCHANGED history
    BY <1>2, <1>3 DEF Tick, TypeOK, HistoryComplete
  <1>4. CASE history # Torn /\ history' = [history EXCEPT !.crashes = Older(@)]
    <2>1. history \in Histories
      BY <1>4 DEF TypeOK
    <2>2. history.crashes \in SUBSET Reports
      BY <2>1 DEF Histories
    <2>3. /\ history' \in Histories
          /\ history'.crashes = Older(history.crashes)
          /\ history'.safeMode = history.safeMode
      BY <1>1, <1>4, <2>1, <2>2 DEF Histories
    <2>4. ASSUME ~damaged'
          PROVE  Recent(history'.crashes) = reported'
      BY <1>1, <1>4, <2>2, <2>3, <2>4 DEF Tick, HistoryComplete
    <2>. QED BY <1>2, <1>4, <2>3, <2>4, TornIsNoHistory DEF HistoryComplete
  <1>. QED BY <1>3, <1>4 DEF Tick

-----------------------------------------------------------------------------
(* The invariant.                                                          *)

(* The initial states.                                                     *)
LEMMA InitIInv == Init => IInv
  <1>1. NoHistory \in Histories /\ NoHistory.crashes = {}
    BY DEF NoHistory, Histories
  <1>. QED BY <1>1, TornIsNoHistory
       DEF Init, IInv, TypeOK, SafeModeAgrees, NothingScheduled, HistoryComplete, Recent

(* Every step.                                                             *)
LEMMA NextIInv == IInv /\ [Next]_vars => IInv'
  <1> SUFFICES ASSUME IInv, [Next]_vars PROVE IInv'
    OBVIOUS
  <1>0. TypeOK /\ SafeModeAgrees /\ NothingScheduled /\ HistoryComplete
    BY DEF IInv
  <1> USE <1>0
  <1>1. CASE LaunchChecksFlag
    <2>1. UNCHANGED <<safe, timer, scheduled, enabled, reported>>
          /\ session = "off" /\ session' = "checking"
      BY <1>1 DEF LaunchChecksFlag
    <2>2. /\ flag' \in {"none", "session_start", "crash", "torn"}
          /\ history' \in Histories \cup {Torn} /\ damaged' \in BOOLEAN
          /\ HistoryComplete'
      <3>1. CASE ClearCrashFlag
        BY <2>1, <3>1, ClearCrashFlagKeeps
      <3>2. CASE UNCHANGED <<flag, history, damaged>>
        BY <2>1, <3>2 DEF TypeOK, HistoryComplete
      <3>. QED BY <1>1, <3>1, <3>2 DEF LaunchChecksFlag
    <2>. QED BY <2>1, <2>2 DEF IInv, TypeOK, SafeModeAgrees, NothingScheduled
  <1>2. CASE LaunchChecksLoop
    <2> DEFINE h == LoadCrashHistory
    <2>1. h \in Histories /\ (history # Torn => h = history)
      BY LoadedType
    <2>2. UNCHANGED <<flag, scheduled, enabled, reported>>
          /\ session = "checking" /\ session' = "marking"
      BY <1>2 DEF LaunchChecksLoop
    <2>3. ~scheduled /\ ~timer
      BY <2>2 DEF TypeOK
    <2>4. CASE LoopDetected(h)
      <3>1. safe' = TRUE /\ timer' = timer
        BY <2>4 DEF LoopDetected
      <3>2. CASE ~h.safeMode /\ SaveCrashHistory([h EXCEPT !.safeMode = TRUE])
        <4> DEFINE saved == [h EXCEPT !.safeMode = TRUE]
        <4>1. saved \in Histories /\ saved.safeMode = TRUE /\ saved.crashes = h.crashes
          BY <2>1 DEF Histories
        <4>2. /\ history' \in Histories \cup {Torn} /\ damaged' \in BOOLEAN
              /\ ~damaged' => ~damaged /\ history' = saved
          <5> HIDE DEF saved
          <5>. QED BY <3>2, <4>1, SaveType DEF saved
        <4>3. ASSUME ~damaged'
              PROVE  /\ history' # Torn /\ Recent(history'.crashes) = reported'
                     /\ LoadCrashHistory'.safeMode = TRUE
          BY <2>1, <2>2, <4>1, <4>2, <4>3, TornIsNoHistory
             DEF HistoryComplete, LoadCrashHistory
        <4>. QED BY <2>2, <2>3, <3>1, <4>2, <4>3
             DEF IInv, TypeOK, SafeModeAgrees, NothingScheduled, HistoryComplete
      <3>3. CASE h.safeMode /\ UNCHANGED <<history, damaged>>
        <4>1. LoadCrashHistory'.safeMode = TRUE
          BY <2>1, <3>3 DEF LoadCrashHistory, Histories
        <4>. QED BY <2>2, <2>3, <3>1, <3>3, <4>1
             DEF IInv, TypeOK, SafeModeAgrees, NothingScheduled, HistoryComplete
      <3>. QED BY <2>4, <3>2, <3>3 DEF LoopDetected
    <2>5. CASE SafeModeResumed(h)
      <3>1. h.safeMode \in BOOLEAN
        BY <2>1 DEF Histories
      <3>2. LoadCrashHistory'.safeMode = h.safeMode
        BY <2>5 DEF SafeModeResumed, LoadCrashHistory
      <3>. QED BY <2>2, <2>3, <2>5, <3>1, <3>2
           DEF SafeModeResumed, IInv, TypeOK, SafeModeAgrees, NothingScheduled,
               HistoryComplete
    <2>. QED BY <1>2, <2>4, <2>5 DEF LaunchChecksLoop
  <1>3. CASE LaunchMarksSession
    BY <1>3 DEF LaunchMarksSession, WriteFlag, FlagFails, ghostVars, LoadCrashHistory,
                IInv, TypeOK, SafeModeAgrees, NothingScheduled, HistoryComplete
  <1>4. CASE UncaughtException
    BY <1>4, WriteCrashFlagKeeps
       DEF UncaughtException, SessionEnds, IInv, TypeOK, SafeModeAgrees, NothingScheduled
  <1>5. CASE CrashSurvived
    BY <1>5, WriteCrashFlagKeeps
       DEF CrashSurvived, sessionVars, IInv, TypeOK, SafeModeAgrees, NothingScheduled
  <1>6. CASE RecordSoftError
    <2>1. "soft" \in Kinds
      BY DEF Kinds
    <2>2. /\ Reporting("soft") /\ Record("soft")
          /\ UNCHANGED <<flag, sessionVars, enabled>>
      BY <1>6 DEF RecordSoftError
    <2>3. reported' \subseteq Reports
      BY <2>1, <2>2, NewReportType DEF Reporting, TypeOK
    <2>4. ~damaged' => ~damaged
      BY <2>2 DEF Record, SaveCrashHistory, TypeOK
    <2>. QED BY <2>1, <2>2, <2>3, <2>4, RecordKeeps
         DEF sessionVars, IInv, TypeOK, SafeModeAgrees, NothingScheduled
  <1>7. CASE Kill
    BY <1>7 DEF Kill, SessionEnds, diskVars, ghostVars,
                IInv, TypeOK, SafeModeAgrees, NothingScheduled, HistoryComplete
  <1>8. CASE Quit
    BY <1>8, ClearCrashFlagKeeps
       DEF Quit, SessionEnds, IInv, TypeOK, SafeModeAgrees, NothingScheduled
  <1>9. CASE SystemStartsAutoSync
    BY <1>9 DEF SystemStartsAutoSync, StartAutoSync, diskVars, ghostVars, LoadCrashHistory,
                IInv, TypeOK, SafeModeAgrees, NothingScheduled, HistoryComplete
  <1>10. CASE Suspend
    BY <1>10 DEF Suspend, StopAutoSync, diskVars, ghostVars, LoadCrashHistory,
                 IInv, TypeOK, SafeModeAgrees, NothingScheduled, HistoryComplete
  <1>11. CASE SetAutoSyncPreferences
    BY <1>11 DEF SetAutoSyncPreferences, StartAutoSync, StopAutoSync, diskVars, ghostVars,
                 LoadCrashHistory,
                 IInv, TypeOK, SafeModeAgrees, NothingScheduled, HistoryComplete
  <1>12. CASE TimerFires
    BY <1>12, ClearSafeModeKeeps DEF TimerFires, IInv, TypeOK, NothingScheduled
  <1>13. CASE ExitSafeMode
    BY <1>13, ClearSafeModeKeeps
       DEF ExitSafeMode, StartAutoSync, IInv, TypeOK, NothingScheduled
  <1>14. CASE Tick
    <2>1. UNCHANGED <<flag, sessionVars, enabled, damaged>>
      BY <1>14 DEF Tick
    <2>2. LoadCrashHistory'.safeMode = LoadCrashHistory.safeMode
      BY <1>14, TickKeeps DEF Tick, LoadCrashHistory
    <2>. QED BY <1>14, <2>1, <2>2, TickKeeps
         DEF sessionVars, IInv, TypeOK, SafeModeAgrees, NothingScheduled
  <1>15. CASE UNCHANGED vars
    BY <1>15 DEF vars, diskVars, sessionVars, ghostVars, LoadCrashHistory,
                 IInv, TypeOK, SafeModeAgrees, NothingScheduled, HistoryComplete
  <1>. QED BY <1>1, <1>2, <1>3, <1>4, <1>5, <1>6, <1>7, <1>8, <1>9, <1>10, <1>11, <1>12,
              <1>13, <1>14, <1>15 DEF Next

(* The invariant holds in every reachable state.                           *)
LEMMA Invariance == Spec => []IInv
  BY InitIInv, NextIInv, PTL DEF Spec

-----------------------------------------------------------------------------

(* The types of the files and of the session; safe mode, timer and         *)
(* scheduler live no longer than the session.                              *)
THEOREM TypeCorrect == Spec => []TypeOK
  <1>1. IInv => TypeOK
    BY DEF IInv
  <1>. QED BY <1>1, Invariance, PTL

(* Memory and disk agree about the safe mode of a running session, unless  *)
(* a write of the history failed.                                          *)
THEOREM SafeModeExact == Spec => []SafeModeAgrees
  <1>1. IInv => SafeModeAgrees
    BY DEF IInv
  <1>. QED BY <1>1, Invariance, PTL

(* The scheduler is off in safe mode.                                      *)
THEOREM SchedulerOff == Spec => []NothingScheduled
  <1>1. IInv => NothingScheduled
    BY DEF IInv
  <1>. QED BY <1>1, Invariance, PTL

(* No crash loop is missed, unless a write of the history failed: what the *)
(* check counts is what was reported.                                      *)
THEOREM LoopsDetected == Spec => LoopNeverMissed
  <1>1. IInv /\ [Next]_vars =>
          [LaunchChecksLoop /\ Cardinality(reported) >= Threshold => safe' \/ damaged]_vars
    <2> SUFFICES ASSUME IInv, LaunchChecksLoop, Cardinality(reported) >= Threshold, ~damaged
                 PROVE  safe'
      OBVIOUS
    <2>1. LoadCrashHistory = history /\ Recent(history.crashes) = reported
      BY LoadedType DEF IInv, HistoryComplete
    <2>2. InLoop(LoadCrashHistory)
      BY <2>1 DEF InLoop
    <2>. QED BY <2>2 DEF LaunchChecksLoop, LoopDetected, SafeModeResumed
  <1>. QED BY <1>1, Invariance, PTL DEF Spec, LoopNeverMissed
=============================================================================
