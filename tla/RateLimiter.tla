---------------------------- MODULE RateLimiter ----------------------------
(***************************************************************************)
(* The request limiter of the sync daemon (resilience/RateLimiter.ts): a   *)
(* priority queue in front of a fixed number of request slots, with        *)
(* retries after a backoff, a pause switch shared by everything that wants *)
(* the queue to stand still, and a periodic cleanup that rejects requests  *)
(* that waited too long and doubles as the watchdog of the pause.          *)
(*                                                                         *)
(* JavaScript runs one callback at a time, so one action is one callback:  *)
(* a call of a public method, the settling of an executing request, or the *)
(* expiry of a timer.  Time is a number of ticks; the delays of backoffs,  *)
(* of the spacing between requests and of the automatic resume are not     *)
(* measured, only the two that the cleanup compares with a threshold are.  *)
(*                                                                         *)
(* A definition that directly precedes another and is used nowhere is a    *)
(* mutant of it (PROJECT.json names them): a plausible bug, which some     *)
(* property must catch.                                                    *)
(***************************************************************************)
EXTENDS Integers, Sequences, FiniteSets

CONSTANTS
  Requests,        (* identities of the calls of enqueue                    *)
  Priorities,      (* the priorities callers pass                           *)
  MaxConcurrent,   (* maxConcurrent                                         *)
  MaxQueueSize,    (* maxQueueSize                                          *)
  MaxRetries,      (* maxRetries                                            *)
  RequestTimeout,  (* requestTimeoutMs, in ticks                            *)
  MaxPause,        (* maxPauseDurationMs, in ticks                          *)
  MaxAge,          (* bound: ages of MaxAge ticks and more are equal        *)
  RetryCap         (* bound: retry counts of RetryCap and more are equal    *)

ASSUME ConfigAssumption ==
  /\ Priorities \subseteq Int
  /\ MaxConcurrent \in Nat \ {0}
  /\ MaxQueueSize \in Nat
  /\ MaxRetries \in Nat
  /\ RequestTimeout \in Nat
  /\ MaxPause \in Nat

ASSUME BoundAssumption ==
  /\ IsFiniteSet(Requests)
  /\ MaxAge \in Nat /\ MaxAge > RequestTimeout
  /\ RetryCap \in Nat /\ RetryCap > MaxRetries

VARIABLES
  queue,           (* requests waiting for a slot, first to start first     *)
  stage,           (* where each request is, see Stages                     *)
  priority,        (* the priority a request was enqueued with              *)
  retries,         (* its retry count                                       *)
  age,             (* ticks since its createdAt, which a retry does not renew *)
  activeRequests,  (* the counter of used slots                             *)
  isPaused,
  pausedFor,       (* ticks since pausedAt, 0 when not paused               *)
  autoResume,      (* autoResumeTimeout is set                              *)
  cleanupRunning,  (* staleCleanupInterval is set                           *)
  wakeup           (* some setTimeout(processQueue) is outstanding; two     *)
                   (* outstanding ones do what one does                     *)

requestVars == <<stage, priority, retries, age>>
timerVars   == <<autoResume, cleanupRunning, wakeup>>
pauseVars   == <<isPaused, pausedFor>>
vars == <<queue, requestVars, activeRequests, pauseVars, timerVars>>

Settled == {"resolved", "rejected"}
InFlight == {"queued", "active", "backoff", "rateLimitBackoff"}
Stages  == {"idle", "lost"} \cup Settled \cup InFlight

AtMost(n, bound) == IF n < bound THEN n ELSE bound

Members(q) == {q[i] : i \in DOMAIN q}

Init ==
  /\ queue = <<>>
  /\ stage = [r \in Requests |-> "idle"]
  /\ priority = [r \in Requests |-> 0]
  /\ retries = [r \in Requests |-> 0]
  /\ age = [r \in Requests |-> 0]
  /\ activeRequests = 0
  /\ isPaused = FALSE /\ pausedFor = 0
  /\ autoResume = FALSE
  /\ cleanupRunning = TRUE
  /\ wakeup = FALSE

-----------------------------------------------------------------------------
(* Helpers of the handlers.                                                *)

(* How many requests at the head of q the loop of processQueue starts.     *)
StartableIgnoringPause(q, active, paused) == AtMost(Len(q), MaxConcurrent - active)

Startable(q, active, paused) ==
  IF paused THEN 0 ELSE AtMost(Len(q), MaxConcurrent - active)

Launched(st, q, k) ==
  [r \in Requests |-> IF \E i \in 1..k : q[i] = r THEN "active" ELSE st[r]]

(* processQueue, run when the queue is q, the stages st, the used slots    *)
(* active and the pause switch paused.                                     *)
ProcessQueue(q, st, active, paused) ==
  LET k == Startable(q, active, paused) IN
  /\ queue' = SubSeq(q, k + 1, Len(q))
  /\ stage' = Launched(st, q, k)
  /\ activeRequests' = active + k

(* pause(), and what resume() does to the switch.                          *)
PauseSwitch  == isPaused' = TRUE /\ pausedFor' = 0
ResumeSwitch == isPaused' = FALSE /\ pausedFor' = 0

(* s is q without the requests in gone.  A request occurs at most once in  *)
(* q.  (Stated by its result: SelectSeq is recursive.)                     *)
IsFiltered(s, q, gone) ==
  /\ Members(s) = Members(q) \ gone
  /\ \A i, j \in DOMAIN s : i < j =>
       \E m, n \in DOMAIN q : m < n /\ s[i] = q[m] /\ s[j] = q[n]

SequencesUpTo(n) == UNION {[1..m -> Requests] : m \in 0..n}

-----------------------------------------------------------------------------
(* enqueue.                                                                *)

(* i is where the new request of priority p goes: before the first queued  *)
(* request of a lower priority.                                            *)
IsSlotBeforeEquals(q, i, p) ==
  /\ \A j \in 1..(i - 1) : priority[q[j]] > p
  /\ i <= Len(q) => priority[q[i]] <= p
IsSlot(q, i, p) ==
  /\ \A j \in 1..(i - 1) : priority[q[j]] >= p
  /\ i <= Len(q) => priority[q[i]] < p

(* Position i of the queue is the one tryEvictLowerPriority picks: lowest  *)
(* priority, then oldest, then first.                                      *)
IsOldest(i) == \A j \in DOMAIN queue : age[queue[i]] >= age[queue[j]]
IsVictim(i) ==
  \A j \in DOMAIN queue :
    LET v == queue[i]  w == queue[j] IN
    \/ priority[v] < priority[w]
    \/ priority[v] = priority[w] /\ age[v] > age[w]
    \/ priority[v] = priority[w] /\ age[v] = age[w] /\ i <= j

Admit(r, p, q, st) ==
  \E i \in 1..(Len(q) + 1) :
    /\ IsSlot(q, i, p)
    /\ ProcessQueue(SubSeq(q, 1, i - 1) \o <<r>> \o SubSeq(q, i, Len(q)),
                    [st EXCEPT ![r] = "queued"], activeRequests, isPaused)

FullOffByOne == Len(queue) > MaxQueueSize
Full == Len(queue) >= MaxQueueSize

EnqueueAdmitted(r, p) ==
  /\ ~Full
  /\ Admit(r, p, queue, stage)

EnqueueEvicting(r, p) ==
  /\ Full
  /\ \E i \in DOMAIN queue :
       /\ IsVictim(i)
       /\ p > priority[queue[i]]
       /\ Admit(r, p, SubSeq(queue, 1, i - 1) \o SubSeq(queue, i + 1, Len(queue)),
                [stage EXCEPT ![queue[i]] = "rejected"])

EnqueueRefused(r, p) ==
  /\ Full
  /\ \A i \in DOMAIN queue : p <= priority[queue[i]]
  /\ stage' = [stage EXCEPT ![r] = "rejected"]
  /\ UNCHANGED <<queue, activeRequests>>

Enqueue(r, p) ==
  /\ stage[r] = "idle"
  /\ priority' = [priority EXCEPT ![r] = p]
  /\ EnqueueAdmitted(r, p) \/ EnqueueEvicting(r, p) \/ EnqueueRefused(r, p)
  /\ UNCHANGED <<retries, age, pauseVars, timerVars>>

-----------------------------------------------------------------------------
(* The end of an executing request, and its return from a backoff.         *)

ExecuteSucceedsAndThrows(r) ==
  /\ stage[r] = "active"
  /\ activeRequests' = activeRequests - 2
  /\ stage' = [stage EXCEPT ![r] = "resolved"]
  /\ wakeup' = TRUE
  /\ UNCHANGED <<queue, priority, retries, age, pauseVars, autoResume, cleanupRunning>>
ExecuteSucceeds(r) ==
  /\ stage[r] = "active"
  /\ activeRequests' = activeRequests - 1
  /\ stage' = [stage EXCEPT ![r] = "resolved"]
  /\ wakeup' = TRUE
  /\ UNCHANGED <<queue, priority, retries, age, pauseVars, autoResume, cleanupRunning>>

(* A 429: everything pauses; the retry count is not compared.              *)
ExecuteRateLimited(r) ==
  /\ stage[r] = "active"
  /\ activeRequests' = activeRequests - 1
  /\ stage' = [stage EXCEPT ![r] = "rateLimitBackoff"]
  /\ PauseSwitch
  /\ UNCHANGED <<queue, priority, retries, age, timerVars>>

(* A network error or a 5xx answer, with retries left.                     *)
ExecuteKeepsSlot(r) ==
  /\ stage[r] = "active"
  /\ retries[r] < MaxRetries
  /\ stage' = [stage EXCEPT ![r] = "backoff"]
  /\ UNCHANGED <<queue, priority, retries, age, activeRequests, pauseVars, timerVars>>
ExecuteFailsRetryably(r) ==
  /\ stage[r] = "active"
  /\ retries[r] < MaxRetries
  /\ activeRequests' = activeRequests - 1
  /\ stage' = [stage EXCEPT ![r] = "backoff"]
  /\ UNCHANGED <<queue, priority, retries, age, pauseVars, timerVars>>

(* An error that is not retried, or a retryable one without retries left:  *)
(* from outside the same, so it has no guard.                              *)
ExecuteFails(r) ==
  /\ stage[r] = "active"
  /\ activeRequests' = activeRequests - 1
  /\ stage' = [stage EXCEPT ![r] = "rejected"]
  /\ wakeup' = TRUE
  /\ UNCHANGED <<queue, priority, retries, age, pauseVars, autoResume, cleanupRunning>>

RetriedUncounted(r) == UNCHANGED retries
Retried(r) == retries' = [retries EXCEPT ![r] = AtMost(@ + 1, RetryCap)]

BackoffElapsed(r) ==
  /\ stage[r] = "backoff"
  /\ Retried(r)
  /\ ProcessQueue(<<r>> \o queue, [stage EXCEPT ![r] = "queued"], activeRequests, isPaused)
  /\ wakeup' = TRUE
  /\ UNCHANGED <<priority, age, pauseVars, autoResume, cleanupRunning>>

(* The queue is resumed first, without the request that waited.            *)
RateLimitBackoffElapsed(r) ==
  LET k == Startable(queue, activeRequests, FALSE) IN
  /\ stage[r] = "rateLimitBackoff"
  /\ ResumeSwitch
  /\ Retried(r)
  /\ ProcessQueue(<<r>> \o SubSeq(queue, k + 1, Len(queue)),
                  [Launched(stage, queue, k) EXCEPT ![r] = "queued"],
                  activeRequests + k, FALSE)
  /\ wakeup' = TRUE
  /\ UNCHANGED <<priority, age, autoResume, cleanupRunning>>

-----------------------------------------------------------------------------
(* Pausing and resuming, the timers, and the end.                          *)

Pause ==
  /\ PauseSwitch
  /\ UNCHANGED <<queue, requestVars, activeRequests, timerVars>>

ResumeWithoutProcessing ==
  /\ ResumeSwitch
  /\ UNCHANGED <<queue, stage, activeRequests>>
ResumeQueue ==
  /\ ResumeSwitch
  /\ ProcessQueue(queue, stage, activeRequests, FALSE)

Resume ==
  /\ ResumeQueue
  /\ UNCHANGED <<priority, retries, age, timerVars>>

(* Any response of the Canvas client may report a quota below the warning  *)
(* threshold.  The timeout is cleared and set anew.                        *)
QuotaLow ==
  /\ PauseSwitch
  /\ autoResume' = TRUE
  /\ UNCHANGED <<queue, requestVars, activeRequests, cleanupRunning, wakeup>>

AutoResumeFires ==
  /\ autoResume
  /\ autoResume' = FALSE
  /\ ResumeQueue
  /\ UNCHANGED <<priority, retries, age, cleanupRunning, wakeup>>

WakeupFires ==
  /\ wakeup
  /\ wakeup' = FALSE
  /\ ProcessQueue(queue, stage, activeRequests, isPaused)
  /\ UNCHANGED <<priority, retries, age, pauseVars, autoResume, cleanupRunning>>

(* cleanupStaleRequests: the watchdog may resume, which starts requests;   *)
(* what is still queued and too old is rejected.                           *)
StaleNeverRetried == {r \in Requests : age[r] > RequestTimeout /\ retries[r] = 0}
Stale == {r \in Requests : age[r] > RequestTimeout}

WatchdogOfTimedPauses == isPaused /\ pausedFor > MaxPause /\ autoResume
WatchdogDue == isPaused /\ pausedFor > MaxPause

QueueBeforeResume(k) == queue
StillWaiting(k) == SubSeq(queue, k + 1, Len(queue))

CleanupStaleRequests ==
  LET k       == IF WatchdogDue THEN Startable(queue, activeRequests, FALSE) ELSE 0
      waiting == StillWaiting(k)
      started == Launched(stage, queue, k)
  IN
  /\ cleanupRunning
  /\ IF WatchdogDue THEN ResumeSwitch ELSE UNCHANGED pauseVars
  /\ activeRequests' = activeRequests + k
  /\ \E s \in SequencesUpTo(Len(waiting)) : IsFiltered(s, waiting, Stale) /\ queue' = s
  /\ stage' = [r \in Requests |->
                 IF r \in Members(waiting) \cap Stale THEN "rejected" ELSE started[r]]
  /\ UNCHANGED <<priority, retries, age, timerVars>>

Tick ==
  /\ age' = [r \in Requests |->
               IF stage[r] \in InFlight THEN AtMost(age[r] + 1, MaxAge) ELSE age[r]]
  /\ pausedFor' = IF isPaused THEN AtMost(pausedFor + 1, MaxPause + 1) ELSE 0
  /\ UNCHANGED <<queue, stage, priority, retries, activeRequests, isPaused, timerVars>>

(* clear(silent): a silent clear leaves the promises unsettled.            *)
ClearQueue(outcome) ==
  /\ queue' = <<>>
  /\ stage' = [r \in Requests |-> IF r \in Members(queue) THEN outcome ELSE stage[r]]

Clear ==
  /\ ClearQueue("rejected")
  /\ UNCHANGED <<priority, retries, age, activeRequests, pauseVars, timerVars>>

(* stop(): the automatic resume and the cleanup end; the pause switch and  *)
(* the executing requests stay as they are.                                *)
Stop ==
  /\ ClearQueue("lost")
  /\ autoResume' = FALSE
  /\ cleanupRunning' = FALSE
  /\ UNCHANGED <<priority, retries, age, activeRequests, pauseVars, wakeup>>

-----------------------------------------------------------------------------

Execution(r) ==
  \/ ExecuteSucceeds(r) \/ ExecuteRateLimited(r)
  \/ ExecuteFailsRetryably(r) \/ ExecuteFails(r)

Next ==
  \/ \E r \in Requests, p \in Priorities : Enqueue(r, p)
  \/ \E r \in Requests : Execution(r) \/ BackoffElapsed(r) \/ RateLimitBackoffElapsed(r)
  \/ Pause \/ Resume \/ QuotaLow \/ AutoResumeFires \/ WakeupFires
  \/ CleanupStaleRequests \/ Tick \/ Clear \/ Stop

Spec == Init /\ [][Next]_vars

(* Timers fire, time passes, and every request ends: the HTTP client gives *)
(* up on a request after its timeout.                                      *)
Fairness ==
  /\ WF_vars(Tick) /\ WF_vars(CleanupStaleRequests)
  /\ WF_vars(AutoResumeFires) /\ WF_vars(WakeupFires)
  /\ \A r \in Requests :
       /\ WF_vars(Execution(r))
       /\ WF_vars(BackoffElapsed(r)) /\ WF_vars(RateLimitBackoffElapsed(r))

FairSpec == Spec /\ Fairness
-----------------------------------------------------------------------------
(* Properties.                                                             *)

TypeOK ==
  /\ queue \in Seq(Requests)
  /\ stage \in [Requests -> Stages]
  /\ priority \in [Requests -> Priorities \cup {0}]
  /\ retries \in [Requests -> 0..RetryCap]
  /\ age \in [Requests -> 0..MaxAge]
  /\ activeRequests \in 0..MaxConcurrent
  /\ isPaused \in BOOLEAN
  /\ pausedFor \in 0..(MaxPause + 1)
  /\ autoResume \in BOOLEAN /\ cleanupRunning \in BOOLEAN /\ wakeup \in BOOLEAN

(* The counter that every start increments and every settling decrements   *)
(* is the number of executing requests: no path forgets or repeats one, so *)
(* slots neither leak nor exceed maxConcurrent (TypeOK has the bound).     *)
Active == {r \in Requests : stage[r] = "active"}
ActiveCount == activeRequests = Cardinality(Active)

(* The array holds each waiting request once and nothing else: a request   *)
(* is never both executing or settled and still in the queue, through      *)
(* retries, evictions, cleanups and clears.                                *)
QueueConsistent ==
  /\ \A i, j \in DOMAIN queue : queue[i] = queue[j] => i = j
  /\ Members(queue) = {r \in Requests : stage[r] = "queued"}

(* A free slot and a waiting request do not meet without something that    *)
(* will call processQueue: a scheduled call, or a request whose backoff    *)
(* ends in one.                                                            *)
SlotsServed ==
  queue # <<>> /\ ~isPaused /\ activeRequests < MaxConcurrent =>
    wakeup \/ \E r \in Requests : stage[r] \in {"backoff", "rateLimitBackoff"}

(* Nothing but a retry, which skips the size check, makes the queue grow   *)
(* beyond maxQueueSize.  (An eviction keeps it at the length it has, which *)
(* may be more than maxQueueSize after retries.)                           *)
OnlyRetriesExceedLimit ==
  [][Len(queue') > Len(queue) /\ Len(queue') > MaxQueueSize =>
       \E r \in Requests : stage[r] \in {"backoff", "rateLimitBackoff"} /\ stage'[r] = "queued"]_vars

(* As long as no retry was ever put at the front, the queue is sorted by   *)
(* priority, which enqueue's insertion relies on, and requests of the same *)
(* priority leave it in the order they came.                               *)
SortedUntilRetry ==
  (\A r \in Requests : retries[r] = 0) =>
    \A i, j \in DOMAIN queue : i < j =>
      \/ priority[queue[i]] > priority[queue[j]]
      \/ /\ priority[queue[i]] = priority[queue[j]]
         /\ age[queue[i]] >= age[queue[j]]

(* A request that waits is rejected only by a cleanup after its timeout,   *)
(* by a clear, or to admit a request of a strictly higher priority when no *)
(* request of a priority lower than its own is waiting.                    *)
DropsJustified ==
  [][\A r \in Requests :
       stage[r] = "queued" /\ stage'[r] = "rejected" =>
         \/ age[r] > RequestTimeout
         \/ \A o \in Members(queue) : stage'[o] = "rejected"
         \/ /\ \A o \in Members(queue) : priority[o] >= priority[r]
            /\ \E n \in Requests : /\ stage[n] = "idle"
                                   /\ stage'[n] \in {"queued", "active"}
                                   /\ priority'[n] > priority[r]]_vars

(* No step that leaves the limiter paused has started a request.           *)
NoStartWhilePaused ==
  [][\A r \in Requests : stage[r] # "active" /\ stage'[r] = "active" => ~isPaused']_vars

(* No request waits in the queue for ever while the cleanup runs, however  *)
(* often the limiter is paused.                                            *)
LeavesQueue ==
  \A r \in Requests : stage[r] = "queued" ~> (stage[r] # "queued" \/ ~cleanupRunning)

(* Every pause ends while the cleanup runs, unless pause() or a low quota  *)
(* renews it for ever.                                                     *)
PauseEnds ==
  \/ []<><<Pause \/ QuotaLow>>_vars
  \/ isPaused ~> (~isPaused \/ ~cleanupRunning)

(* Every promise settles while the cleanup runs, unless the server answers *)
(* 429 for ever.                                                           *)
PromisesSettle ==
  \/ []<><<\E r \in Requests : ExecuteRateLimited(r)>>_vars
  \/ \A r \in Requests : stage[r] \in InFlight ~> (stage[r] \in Settled \/ ~cleanupRunning)
=============================================================================
