--------------------------- MODULE CrashProtection ---------------------------
(***************************************************************************)
(* Safe mode over the sessions of the application                          *)
(* (lifecycle/CrashProtectionManager.ts), and the scheduler of automatic   *)
(* synchronisations that it switches off (lifecycle/AutoSyncManager.ts).   *)
(*                                                                         *)
(* Two files outlive a session: crash-flag.json, which is there unless the *)
(* last session quit, and crash-history.json, with the reports of crashes  *)
(* and errors and the safe mode.  Their writes may fail, and an error is   *)
(* ignored; a file that was being written then cannot be read.  A process  *)
(* killed in a write is a write that fails and then a kill.                *)
(*                                                                         *)
(* The checks at the start of a session (onReady) run without an await; a  *)
(* kill may come between two of them, anything else only after them.       *)
(* Other actions are one callback each.                                    *)
(*                                                                         *)
(* Time is ticks: only the age of a report is compared with thresholds,    *)
(* the timer of the safe mode may fire at any moment.                      *)
(*                                                                         *)
(* A definition that directly precedes another and is used nowhere is a    *)
(* mutant of it (PROJECT.json names them).                                 *)
(***************************************************************************)
EXTENDS Integers, FiniteSets

CONSTANTS
  Threshold,   (* crashLoopThreshold                                        *)
  Window,      (* crashLoopWindowMs, in ticks                               *)
  MaxReports   (* bound: reports that are remembered at one time            *)

ASSUME ConstantsAssumption ==
  Threshold \in Nat \ {0} /\ Window \in Nat \ {0} /\ MaxReports \in Nat

VARIABLES
  flag,        (* crash-flag.json                                           *)
  history,     (* crash-history.json: [crashes, safeMode], or Torn          *)
  session,     (* "off", at its start "checking" and "marking", then "up"   *)
  safe,        (* safeModeEnabled                                           *)
  timer,       (* safeModeTimer is set                                      *)
  enabled,     (* the preference autoSyncEnabled, with an interval          *)
  scheduled,   (* autoSyncInterval is set                                   *)
  reported,    (* ghost: reports within the window, since a recovery        *)
  damaged      (* ghost: a report or a state did not get into the history   *)

diskVars    == <<flag, history>>
sessionVars == <<session, safe, timer, scheduled>>
ghostVars   == <<reported, damaged>>
vars == <<diskVars, sessionVars, enabled, ghostVars>>

Kinds   == {"crash", "soft"}
Ages    == 0..(2 * Window)
Reports == [no : 1..MaxReports, kind : Kinds, age : Ages]

Torn      == [torn |-> TRUE]
Histories == [crashes : SUBSET Reports, safeMode : BOOLEAN]
NoHistory == [crashes |-> {}, safeMode |-> FALSE]

Init ==
  /\ flag = "none" /\ history = NoHistory
  /\ session = "off" /\ safe = FALSE /\ timer = FALSE /\ scheduled = FALSE
  /\ enabled \in BOOLEAN
  /\ reported = {} /\ damaged = FALSE

-----------------------------------------------------------------------------
(* The files.                                                              *)

LoadCrashHistory == IF history = Torn THEN NoHistory ELSE history

SaveCrashHistory(h) ==
  /\ history' \in {h, history, Torn}
  /\ damaged' = (damaged \/ history' # h)

WriteFlag(reason) == flag' = reason
FlagFails == flag' \in {flag, "torn"}

Recent(reports) == {r \in reports : r.age < Window}
Kept(reports)   == {r \in reports : r.age < 2 * Window}

(* checkCrashLoop counts what is recent, of either kind.                   *)
InLoop(h) == Cardinality(Recent(h.crashes)) >= Threshold

(* Both the ghost and the file get the report, under a number that is free. *)
Used == {r.no : r \in reported \cup Kept(LoadCrashHistory.crashes)}
NewReport(kind) ==
  [no |-> CHOOSE n \in 1..MaxReports : n \notin Used, kind |-> kind, age |-> 0]

Record(kind) ==
  LET h == LoadCrashHistory IN
  SaveCrashHistory([h EXCEPT !.crashes = Kept(@ \cup {NewReport(kind)})])

Reporting(kind) ==
  /\ 1..MaxReports \ Used # {}
  /\ reported' = reported \cup {NewReport(kind)}

(* writeCrashFlag of a crash: without the flag there is no record either.  *)
WriteCrashFlag ==
  /\ Reporting("crash")
  /\ \/ WriteFlag("crash") /\ Record("crash")
     \/ FlagFails /\ damaged' = TRUE /\ UNCHANGED history

(* clearCrashFlag: when the flag cannot be removed, nothing is written; the *)
(* history is written again, with the time of the exit.                    *)
ClearFlagAndHistory ==
  \/ UNCHANGED <<flag, history, damaged>>
  \/ WriteFlag("none") /\ SaveCrashHistory([LoadCrashHistory EXCEPT !.crashes = {}])
ClearCrashFlag ==
  \/ UNCHANGED <<flag, history, damaged>>
  \/ WriteFlag("none") /\ SaveCrashHistory(LoadCrashHistory)

-----------------------------------------------------------------------------
(* The start of a session.                                                 *)

LaunchChecksFlag ==
  /\ session = "off"
  /\ session' = "checking"
  /\ \/ flag \in {"session_start", "crash"} /\ ClearCrashFlag
     \/ flag \in {"none", "torn"} /\ UNCHANGED <<flag, history, damaged>>
  /\ UNCHANGED <<safe, timer, scheduled, enabled, reported>>

LoopDetected(h) ==
  /\ InLoop(h)
  /\ safe' = TRUE
  /\ \/ ~h.safeMode /\ SaveCrashHistory([h EXCEPT !.safeMode = TRUE])
     \/ h.safeMode /\ UNCHANGED <<history, damaged>>
  /\ UNCHANGED timer

(* Of a session that resumes a safe mode the timer is started, of one that *)
(* detects a crash loop it is not.                                         *)
SafeModeResumed(h) ==
  /\ ~InLoop(h)
  /\ safe' = h.safeMode
  /\ timer' = h.safeMode
  /\ UNCHANGED <<history, damaged>>

LaunchChecksLoop ==
  /\ session = "checking"
  /\ session' = "marking"
  /\ LoopDetected(LoadCrashHistory) \/ SafeModeResumed(LoadCrashHistory)
  /\ UNCHANGED <<flag, scheduled, enabled, reported>>

LaunchMarksSession ==
  /\ session = "marking"
  /\ session' = "up"
  /\ WriteFlag("session_start") \/ FlagFails
  /\ UNCHANGED <<history, safe, timer, scheduled, enabled, ghostVars>>

-----------------------------------------------------------------------------
(* Crashes, errors and the ends of a session.                              *)

SessionEnds ==
  session' = "off" /\ safe' = FALSE /\ timer' = FALSE /\ scheduled' = FALSE

UncaughtException ==
  /\ session = "up"
  /\ WriteCrashFlag
  /\ SessionEnds
  /\ UNCHANGED enabled

(* An unhandled rejection, and the end of the renderer's process.          *)
CrashSurvived ==
  /\ session = "up"
  /\ WriteCrashFlag
  /\ UNCHANGED <<sessionVars, enabled>>

(* app:reportError.                                                        *)
RecordSoftError ==
  /\ session = "up"
  /\ Reporting("soft")
  /\ Record("soft")
  /\ UNCHANGED <<flag, sessionVars, enabled>>

Kill ==
  /\ session # "off"
  /\ SessionEnds
  /\ UNCHANGED <<diskVars, enabled, ghostVars>>

QuitKeepsTimer ==
  /\ session = "up"
  /\ ClearCrashFlag
  /\ session' = "off" /\ safe' = FALSE /\ scheduled' = FALSE
  /\ UNCHANGED <<timer, enabled, reported>>
Quit ==
  /\ session = "up"
  /\ ClearCrashFlag
  /\ SessionEnds
  /\ UNCHANGED <<enabled, reported>>

-----------------------------------------------------------------------------
(* The scheduler.                                                          *)

(* start(): it stops first; in safe mode that is all.                      *)
StartAlways(inSafeMode) ==
  /\ scheduled' = enabled'
  /\ timer' = (timer \/ enabled')
StartAutoSync(inSafeMode) ==
  /\ scheduled' = (enabled' /\ ~inSafeMode)
  /\ timer' = (timer \/ scheduled')

StopWithTimer ==
  scheduled' = FALSE /\ timer' = FALSE
StopAutoSync ==
  scheduled' = FALSE /\ UNCHANGED timer

(* At the start, once Canvas is connected, and on resume when the system   *)
(* allows syncs.                                                           *)
SystemStartsAutoSync ==
  /\ session = "up"
  /\ UNCHANGED enabled
  /\ StartAutoSync(safe)
  /\ UNCHANGED <<diskVars, session, safe, ghostVars>>

Suspend ==
  /\ session = "up"
  /\ StopAutoSync
  /\ UNCHANGED <<diskVars, session, safe, enabled, ghostVars>>

(* sync:setAutoSyncPreferences.                                            *)
SetAutoSyncPreferences ==
  /\ session = "up"
  /\ \/ enabled' = TRUE /\ StartAutoSync(safe)
     \/ enabled' = FALSE /\ StopAutoSync
  /\ UNCHANGED <<diskVars, session, safe, ghostVars>>

-----------------------------------------------------------------------------
(* The end of the safe mode.                                               *)

ClearMemoryOnly ==
  /\ safe' = FALSE
  /\ UNCHANGED <<history, ghostVars>>
ClearSafeMode ==
  \/ /\ LoadCrashHistory.safeMode
     /\ safe' = FALSE
     /\ history' \in {NoHistory, history, Torn}
     /\ reported' = {}
     /\ damaged' = (history' # NoHistory)
  \/ /\ ~LoadCrashHistory.safeMode
     /\ UNCHANGED <<safe, history, ghostVars>>

(* The scheduler is not started.                                           *)
TimerFires ==
  /\ session = "up" /\ timer
  /\ timer' = FALSE
  /\ ClearSafeMode
  /\ UNCHANGED <<flag, session, enabled, scheduled>>

(* app:exitSafeMode.                                                       *)
ExitSafeMode ==
  /\ session = "up"
  /\ ClearSafeMode
  /\ UNCHANGED enabled
  /\ StartAutoSync(safe')
  /\ UNCHANGED <<flag, session>>

-----------------------------------------------------------------------------

Older(reports) ==
  {[r EXCEPT !.age = IF @ < 2 * Window THEN @ + 1 ELSE @] : r \in reports}

Tick ==
  /\ session \in {"off", "up"}
  /\ reported' = Recent(Older(reported))
  /\ \/ history = Torn /\ UNCHANGED history
     \/ history # Torn /\ history' = [history EXCEPT !.crashes = Older(@)]
  /\ UNCHANGED <<flag, sessionVars, enabled, damaged>>

Next ==
  \/ LaunchChecksFlag \/ LaunchChecksLoop \/ LaunchMarksSession
  \/ UncaughtException \/ CrashSurvived \/ RecordSoftError \/ Kill \/ Quit
  \/ SystemStartsAutoSync \/ Suspend \/ SetAutoSyncPreferences
  \/ TimerFires \/ ExitSafeMode \/ Tick

Spec == Init /\ [][Next]_vars

(* The timer that is set fires, unless the session ends before; the        *)
(* scheduler does not restart it in safe mode.                             *)
FairSpec == Spec /\ WF_vars(TimerFires)

-----------------------------------------------------------------------------
(* Properties.                                                             *)

(* Types, and what lives in memory ends with the session.                  *)
TypeOK ==
  /\ flag \in {"none", "session_start", "crash", "torn"}
  /\ history \in Histories \cup {Torn}
  /\ session \in {"off", "checking", "marking", "up"}
  /\ safe \in BOOLEAN /\ timer \in BOOLEAN
  /\ enabled \in BOOLEAN /\ scheduled \in BOOLEAN
  /\ session \in {"off", "checking"} => ~safe /\ ~timer /\ ~scheduled
  /\ reported \subseteq Reports
  /\ damaged \in BOOLEAN

(* A session that starts after enough reports within the window, whichever *)
(* sessions they are from and however those ended, starts in safe mode,    *)
(* unless a write of the history failed.                                   *)
LoopNeverMissed ==
  [][LaunchChecksLoop /\ Cardinality(reported) >= Threshold => safe' \/ damaged]_vars

(* The mode of a running session is the one on disk, unless a write failed: *)
(* so leaving it works, and a restart neither ends nor begins it.          *)
SafeModeAgrees ==
  session \in {"marking", "up"} /\ ~damaged => safe = LoadCrashHistory.safeMode

(* No automatic synchronisation is scheduled in safe mode, whoever asks    *)
(* for the scheduler: the start, a resume, a preference, the end of the    *)
(* mode.                                                                   *)
NothingScheduled == scheduled => ~safe

(* A session that resumed the safe mode of an earlier one and stays up     *)
(* leaves it, unless a write failed.                                       *)
ResumedModeEnds == (safe /\ timer) ~> (~safe \/ session # "up" \/ damaged)

-----------------------------------------------------------------------------
(* What the comments say and the code does not do.                         *)

(* "Record a soft error in crash history (doesn't write crash flag or      *)
(* trigger safe mode)": a session that enters safe mode has seen enough    *)
(* crashes, not counting soft errors.                                      *)
SoftErrorsHarmless ==
  [][LaunchChecksLoop /\ safe' =>
       \/ LoadCrashHistory.safeMode
       \/ Cardinality({r \in reported : r.kind = "crash"}) >= Threshold]_vars
=============================================================================
