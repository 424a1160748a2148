---------------------------- MODULE FileDownloads ----------------------------
(***************************************************************************)
(* The downloads of files (l0-utilities/FileDownloadManager.ts), the IPC   *)
(* handlers that ask for them and record the result in the database        *)
(* (lifecycle/ipc-handlers/fileHandlers.ts and resourceHandlers.ts), and   *)
(* what a quit keeps of the queue (lifecycle/downloadPersistence.ts).      *)
(*                                                                         *)
(* One action is one callback: an IPC call up to its await, its            *)
(* continuation, an event of a response or of its file, a timer.  The      *)
(* events download-complete and download-error are emitted synchronously,  *)
(* so the listeners of all waiting calls belong to the event's action.     *)
(*                                                                         *)
(* Of the manager's methods, cancelDownload and queueDownloads are called  *)
(* by tests only and are left out; stop() is part of Quit.  No response    *)
(* has a timeout, so nothing here says that a download ends.               *)
(*                                                                         *)
(* Left out: attachment:download's look, after its await, for a course     *)
(* file with the same bytes, which answers without a download (as          *)
(* OpenRecorded does); listeners that a failed queueDownload leaves        *)
(* attached though their call is answered; a write that throws when a      *)
(* download fails to start for lack of a directory; and a database already *)
(* closed at a quit, where nothing is saved (as in Crash).                 *)
(*                                                                         *)
(* A definition that directly precedes another and is used nowhere is a    *)
(* mutant of it (PROJECT.json names them).                                 *)
(***************************************************************************)
EXTENDS Naturals, Sequences, FiniteSets

CONSTANTS
  Downloads,      (* download ids, one per Canvas file or attachment        *)
  Calls,          (* IPC calls that want one of them                        *)
  CallOf,         (* the download each call wants                           *)
  Names,
  NameOf,         (* directory and filename of each download                *)
  MaxConcurrent,
  MaxExits,       (* bound: how often the process ends                      *)
  None            (* no path, no file                                       *)

ASSUME ConfigAssumption ==
  /\ CallOf \in [Calls -> Downloads]
  /\ NameOf \in [Downloads -> Names]
  /\ MaxConcurrent \in Nat \ {0}

ASSUME BoundAssumption ==
  /\ IsFiniteSet(Calls) /\ IsFiniteSet(Downloads)
  /\ MaxExits \in Nat

VARIABLES
  running,        (* the app is up                                          *)
  exits,
  processing,     (* processingPromise is still set when another call is    *)
                  (* continued: both awaited the credentials and are        *)
                  (* continued by one callback                              *)
  queue,          (* the manager's queue of requests                        *)
  stage,          (* of each download, see Stages                           *)
  path,           (* localPath, chosen when the download starts             *)
  disk,           (* the files: whose bytes, and whether the end was written *)
  recorded,       (* local_path in the database                             *)
  call,           (* of each call, see CallStates                           *)
  saved,          (* pending_downloads                                      *)
  shared,         (* ghost: paths that two running downloads had chosen     *)
  unusable        (* ghost: a directory could not be made in this session   *)

managerVars == <<processing, queue, stage, path>>
appVars     == <<running, exits, saved>>
vars == <<appVars, managerVars, disk, recorded, call, shared, unusable>>

Stages     == {"idle", "queued", "connecting", "writing"}
CallStates == {"idle", "credentials", "listening", "done", "failed", "timedOut", "lost", "gone"}

(* The suffix 0 is the plain name, k the suffix _k.  A call leads to at    *)
(* most one file, so the suffixes never run out.                           *)
Suffixes == 0..Cardinality(Calls)
Paths    == Names \X Suffixes
Files    == [by : SUBSET Downloads, whole : BOOLEAN]

ASSUME NoneAssumption == None \notin Paths /\ None \notin Files

Active == {d \in Downloads : stage[d] \in {"connecting", "writing"}}
Members(q) == {q[i] : i \in DOMAIN q}

Init ==
  /\ running = TRUE /\ exits = 0
  /\ processing = FALSE
  /\ queue = <<>> /\ saved = <<>>
  /\ stage = [d \in Downloads |-> "idle"]
  /\ path = [d \in Downloads |-> None]
  /\ disk = [p \in Paths |-> None]
  /\ recorded = [d \in Downloads |-> None]
  /\ call = [c \in Calls |-> "idle"]
  /\ shared = {}
  /\ unusable = FALSE

-----------------------------------------------------------------------------
(* processQueue and startDownload, up to the request.                      *)

AtMost(n, bound) == IF n < bound THEN n ELSE bound

(* getUniqueFilePath looks for files, not for downloads on their way.      *)
PlainPath(d) == <<NameOf[d], 0>>
UniquePath(d) ==
  CHOOSE p \in Paths :
    /\ p[1] = NameOf[d] /\ disk[p] = None
    /\ \A k \in Suffixes : k < p[2] => disk[<<NameOf[d], k>>] # None

FreeSlots(active) == MaxConcurrent - Cardinality(active)

Waiting(d) == {c \in Calls : CallOf[c] = d /\ call[c] = "listening"}

(* The loop, run with queue q while active are the running downloads and   *)
(* listening the calls that wait.  ok says whether the directories can be  *)
(* made: if not, all of q is started and fails at once, provided that      *)
(* there is a slot.                                                        *)
ProcessQueue(q, active, calls, ok) ==
  LET k       == IF ok THEN AtMost(Len(q), FreeSlots(active))
                 ELSE IF FreeSlots(active) > 0 THEN Len(q) ELSE 0
      started == Members(SubSeq(q, 1, k))
      begun   == IF ok THEN started ELSE {}
      paths   == [d \in Downloads |-> IF d \in begun THEN UniquePath(d)
                                      ELSE IF d \in active THEN path[d] ELSE None]
  IN
  /\ queue' = SubSeq(q, k + 1, Len(q))
  /\ stage' = [d \in Downloads |->
                 IF d \in begun THEN "connecting"
                 ELSE IF d \in active THEN stage[d]
                 ELSE IF d \in Members(q) \ started THEN "queued" ELSE "idle"]
  /\ path' = paths
  /\ shared' = shared \cup {paths[d] : d \in {e \in begun :
                 \E o \in (active \cup begun) \ {e} : paths[o] = paths[e]}}
  /\ unusable' = (unusable \/ (~ok /\ k > 0))
  /\ call' = [c \in Calls |->
                IF calls[c] = "listening" /\ CallOf[c] \in started \ begun
                THEN "failed" ELSE calls[c]]

-----------------------------------------------------------------------------
(* The handlers.                                                           *)

(* canvas-file:open opens the recorded file if it is there.                *)
OpenRecorded(c) ==
  /\ running /\ ~processing /\ call[c] = "idle"
  /\ recorded[CallOf[c]] # None /\ disk[recorded[CallOf[c]]] # None
  /\ call' = [call EXCEPT ![c] = "done"]
  /\ UNCHANGED <<appVars, managerVars, disk, recorded, shared, unusable>>

(* Otherwise, and in the handlers that do not look, the token is awaited.  *)
Ask(c) ==
  /\ running /\ ~processing /\ call[c] = "idle"
  /\ call' = [call EXCEPT ![c] = "credentials"]
  /\ UNCHANGED <<appVars, managerVars, disk, recorded, shared, unusable>>

NoCredentials(c) ==
  /\ call[c] = "credentials"
  /\ call' = [call EXCEPT ![c] = "failed"]
  /\ UNCHANGED <<appVars, managerVars, disk, recorded, shared, unusable>>

(* The listeners and the timer are set, and queueDownload is called.  Calls *)
(* that awaited the same promise are continued by microtasks of the same   *)
(* callback: while processing is set, the manager only queues.  If the     *)
(* base directory cannot be made, the exception answers the call before    *)
(* anything is queued.                                                     *)
KnownByQueue(d) == stage[d] = "queued"
Known(d) == stage[d] # "idle"

Listen(c, ok) ==
  LET d == CallOf[c]
      calls == [call EXCEPT ![c] = "listening"]
  IN
  /\ call[c] = "credentials"
  /\ \/ /\ Known(d)
        /\ call' = calls
        /\ UNCHANGED <<managerVars, shared, unusable>>
     \/ /\ ~Known(d) /\ processing
        /\ queue' = Append(queue, d)
        /\ stage' = [stage EXCEPT ![d] = "queued"]
        /\ call' = calls
        /\ UNCHANGED <<processing, path, shared, unusable>>
     \/ /\ ~Known(d) /\ ~ok
        /\ call' = [call EXCEPT ![c] = "failed"]
        /\ UNCHANGED <<managerVars, shared, unusable>>
     \/ /\ ~Known(d) /\ ~processing
        /\ processing' = TRUE
        /\ ProcessQueue(Append(queue, d), Active, calls, ok)
  /\ UNCHANGED <<appVars, disk, recorded>>

MicrotasksDone ==
  /\ processing
  /\ processing' = FALSE
  /\ UNCHANGED <<appVars, queue, stage, path, disk, recorded, call, shared, unusable>>

(* The handler gives up; the download goes on, and nobody records it.      *)
SafetyTimeoutWhileQueued(c) ==
  /\ ~processing /\ call[c] = "listening" /\ stage[CallOf[c]] = "queued"
  /\ call' = [call EXCEPT ![c] = "timedOut"]
  /\ UNCHANGED <<appVars, managerVars, disk, recorded, shared, unusable>>
SafetyTimeout(c) ==
  /\ ~processing /\ call[c] = "listening"
  /\ call' = [call EXCEPT ![c] = "timedOut"]
  /\ UNCHANGED <<appVars, managerVars, disk, recorded, shared, unusable>>

-----------------------------------------------------------------------------
(* Events of a download's request, response and file.                      *)

Writers(p) == {d \in Downloads : stage[d] = "writing" /\ path[d] = p}

(* A 200 answer: the file is opened, and truncated if it is there.         *)
Respond(d) ==
  /\ ~processing /\ stage[d] = "connecting"
  /\ stage' = [stage EXCEPT ![d] = "writing"]
  /\ disk' = [disk EXCEPT ![path[d]] = [by |-> Writers(path[d]) \cup {d}, whole |-> FALSE]]
  /\ UNCHANGED <<appVars, processing, queue, path, recorded, call, shared, unusable>>

(* The finally block: the slot is free, and the queue is processed, in a   *)
(* callback of its own.                                                    *)
EndsQuietly(d, calls, ok) ==
  /\ stage' = [stage EXCEPT ![d] = "idle"]
  /\ call' = calls
  /\ UNCHANGED <<processing, queue, path, shared, unusable>>
Ends(d, calls, ok) ==
  /\ UNCHANGED processing
  /\ ProcessQueue(queue, Active \ {d}, calls, ok)

(* What the listeners of an end make of the calls that wait for it.  A     *)
(* listener cleans up, its timer included, before it writes to the         *)
(* database: if the write throws, nobody answers its call, and the         *)
(* exception ends the emit: those not yet called go on listening.          *)
Outcomes(d)        == [Waiting(d) -> {"done", "failed", "lost", "listening"}]
How(answers, x)    == {c \in DOMAIN answers : answers[c] = x}
OneEmit(answers)   == \/ How(answers, "lost") = {} /\ How(answers, "listening") = {}
                      \/ Cardinality(How(answers, "lost")) = 1
Answered(answers)  == [c \in Calls |-> IF c \in DOMAIN answers THEN answers[c] ELSE call[c]]

(* The file is complete, and the listeners record it and answer.           *)
IsComplete(d) == stage[d] = "writing"

Whole(p) == [disk EXCEPT ![p].whole = TRUE]

Complete(d, answers, ok) ==
  /\ ~processing /\ IsComplete(d)
  /\ disk' = IF disk[path[d]] = None THEN disk ELSE Whole(path[d])
  /\ recorded' = IF How(answers, "done") # {} THEN [recorded EXCEPT ![d] = path[d]] ELSE recorded
  /\ Ends(d, Answered(answers), ok)
  /\ UNCHANGED appVars

Completes(d, answers, ok) ==
  /\ How(answers, "done") = Waiting(d)
  /\ Complete(d, answers, ok)

(* One listener's write throws.  The exception turns the download into a   *)
(* failed one for those after it, one of whom may throw in its turn.       *)
CompletesUnrecorded(d, answers, ok) ==
  /\ Cardinality(How(answers, "lost")) \in {1, 2}
  /\ How(answers, "listening") # {} => Cardinality(How(answers, "lost")) = 2
  /\ Complete(d, answers, ok)

(* A failed request or another status than 200; or a failed write, after   *)
(* which the file is removed, whoever else writes it.  An error of the     *)
(* request after the answer leaves what was written.                       *)
FileRemoved(d) == IF stage[d] = "writing" THEN [disk EXCEPT ![path[d]] = None] ELSE disk

Fails(d, answers, ok) ==
  /\ ~processing /\ d \in Active
  /\ How(answers, "done") = {} /\ OneEmit(answers)
  /\ disk' \in {FileRemoved(d), disk}
  /\ Ends(d, Answered(answers), ok)
  /\ UNCHANGED <<appVars, recorded>>

-----------------------------------------------------------------------------
(* The end of the process and the next start.                              *)

ProcessEnds ==
  /\ running /\ exits < MaxExits
  /\ running' = FALSE /\ exits' = exits + 1
  /\ processing' = FALSE
  /\ queue' = <<>>
  /\ stage' = [d \in Downloads |-> "idle"]
  /\ path' = [d \in Downloads |-> None]
  /\ call' = [c \in Calls |-> IF call[c] \in {"credentials", "listening"} THEN "gone" ELSE call[c]]
  /\ unusable' = FALSE
  /\ UNCHANGED <<recorded, shared>>

(* savePendingDownloads writes the queue, then stop() aborts what runs:    *)
(* the unlink of a partial file may or may not come before the exit.       *)
Quit(removed) ==
  /\ ProcessEnds
  /\ removed \subseteq {path[d] : d \in {e \in Downloads : stage[e] = "writing"}}
  /\ disk' = [p \in Paths |-> IF p \in removed THEN None ELSE disk[p]]
  /\ saved' = queue

Crash ==
  /\ ProcessEnds
  /\ UNCHANGED <<disk, saved>>

(* restorePendingDownloads empties the table and fills the queue, before   *)
(* there is a window that could call.                                      *)
Start(ok) ==
  /\ ~running
  /\ running' = TRUE
  /\ saved' = <<>>
  /\ ProcessQueue(saved, {}, call, ok)
  /\ UNCHANGED <<exits, processing, disk, recorded>>

-----------------------------------------------------------------------------

Handler(c) ==
  \/ OpenRecorded(c) \/ Ask(c) \/ NoCredentials(c) \/ SafetyTimeout(c)
  \/ \E ok \in BOOLEAN : Listen(c, ok)

Download(d) ==
  \/ Respond(d)
  \/ \E ok \in BOOLEAN, answers \in Outcomes(d) :
       \/ Completes(d, answers, ok) \/ CompletesUnrecorded(d, answers, ok)
       \/ Fails(d, answers, ok)

Lifecycle ==
  \/ \E removed \in SUBSET {path[d] : d \in Active} : Quit(removed)
  \/ Crash
  \/ \E ok \in BOOLEAN : Start(ok)

Next ==
  \/ \E c \in Calls : Handler(c)
  \/ \E d \in Downloads : Download(d)
  \/ MicrotasksDone
  \/ Lifecycle

Spec == Init /\ [][Next]_vars

(* Timers fire, microtasks run, and the credential store answers.  No      *)
(* fairness for downloads: a server may hold a response for ever.          *)
Fairness ==
  /\ WF_vars(MicrotasksDone)
  /\ \A c \in Calls :
       /\ WF_vars(SafetyTimeout(c))
       /\ WF_vars(NoCredentials(c) \/ \E ok \in BOOLEAN : Listen(c, ok))

FairSpec == Spec /\ Fairness

-----------------------------------------------------------------------------
(* Properties.                                                             *)

TypeOK ==
  /\ running \in BOOLEAN /\ processing \in BOOLEAN /\ unusable \in BOOLEAN
  /\ exits \in 0..MaxExits
  /\ queue \in Seq(Downloads) /\ saved \in Seq(Downloads)
  /\ stage \in [Downloads -> Stages]
  /\ path \in [Downloads -> Paths \cup {None}]
  /\ \A d \in Downloads : path[d] # None <=> d \in Active
  /\ disk \in [Paths -> Files \cup {None}]
  /\ recorded \in [Downloads -> Paths \cup {None}]
  /\ call \in [Calls -> CallStates]
  /\ shared \subseteq Paths

(* Every download is in one place: in the queue once, or running in one of *)
(* maxConcurrent slots, or nowhere; also when calls for one file meet, and *)
(* after a restart that restored a part of the queue.                      *)
OnePlace ==
  /\ \A i, j \in DOMAIN queue : queue[i] = queue[j] => i = j
  /\ Members(queue) = {d \in Downloads : stage[d] = "queued"}
  /\ Cardinality(Active) <= MaxConcurrent

(* A queued download is served without a further call from outside: the    *)
(* manager is saturated or the end of a running download, or the rest of   *)
(* this tick, will look at the queue.  A start that failed for lack of a   *)
(* directory is the exception: the queue then may wait for the next call.  *)
QueueServed ==
  queue # <<>> /\ ~unusable => Active # {}

(* The file that the database names for a download is there, complete, and *)
(* has this download's bytes: through second downloads, failures and       *)
(* restarts.  The exception are paths that two running downloads had both  *)
(* chosen, before either of them had created the file.                     *)
RecordedFileIntact ==
  \A d \in Downloads :
    recorded[d] # None /\ recorded[d] \notin shared =>
      disk[recorded[d]] = [by |-> {d}, whole |-> TRUE]

(* Every call for a download is answered, by the download or by the safety *)
(* timeout, though no download need end; only a write that throws in the   *)
(* listener leaves its call without an answer.                             *)
CallsAnswered ==
  \A c \in Calls : call[c] \in {"credentials", "listening"} ~>
                     call[c] \in {"done", "failed", "timedOut", "lost", "gone"}
=============================================================================
