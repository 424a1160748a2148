---------------------- MODULE RateLimiterQueueProofs ----------------------
(***************************************************************************)
(* What the queue of the limiter promises to the requests in it, for every *)
(* value of the constants: no request starts while the limiter is paused,  *)
(* a free slot and a waiting request do not meet without something that    *)
(* will call processQueue, only a retry exceeds the limit of the queue,    *)
(* the queue is sorted until the first retry, and no request is dropped    *)
(* without a reason.                                                       *)
(*                                                                         *)
(* All five rest on the bookkeeping of RateLimiterProofs and on one lemma, *)
(* Processed, about what processQueue leaves of the queue.                 *)
(***************************************************************************)
EXTENDS RateLimiterProofs

(* The first k requests of q have been started: what is left of q, and     *)
(* what the stages are then.                                               *)
Served(q, st, k, q2, st2) ==
  /\ q2 \in Seq(Requests)
  /\ Len(q2) = Len(q) - k
  /\ DOMAIN q2 = 1..(Len(q) - k)
  /\ \A i \in DOMAIN q2 : k + i \in DOMAIN q /\ q2[i] = q[k + i]
  /\ st2 \in [Requests -> Stages]
  /\ \A r \in Requests : \/ st2[r] = st[r]
                         \/ k # 0 /\ st[r] = "queued" /\ st2[r] = "active"

(* Starting the first k requests of a queue does that.                     *)
LEMMA LaunchServes ==
  ASSUME NEW q, NEW st, NEW n, Consistent(q, st, n), NEW k \in 0..Len(q)
  PROVE  Served(q, st, k, SubSeq(q, k + 1, Len(q)), Launched(st, q, k))
<1> DEFINE rest == SubSeq(q, k + 1, Len(q))
<1>1. /\ Len(q) \in Nat /\ DOMAIN q = 1..Len(q) /\ q \in Seq(Requests) /\ k \in Nat
      /\ \A i \in DOMAIN q : q[i] \in Requests /\ st[q[i]] = "queued"
  BY MembersOfQueue DEF Consistent
<1>2. /\ rest \in Seq(Requests)
      /\ DOMAIN rest = 1..(Len(q) - k)
      /\ \A i \in 1..(Len(q) - k) : rest[i] = q[k + i] /\ k + i \in DOMAIN q
  BY <1>1
<1>3. Len(rest) = Len(q) - k
  <2>1. k + 1 \in Int /\ Len(q) \in Int /\ \A i \in (k + 1)..Len(q) : q[i] \in Requests
    BY <1>1
  <2>2. Len(rest) = IF k + 1 <= Len(q) THEN Len(q) - (k + 1) + 1 ELSE 0
    BY <2>1, SubSeqProperties
  <2>3. \A l, m \in Nat : m <= l => (IF m + 1 <= l THEN l - (m + 1) + 1 ELSE 0) = l - m
    OBVIOUS
  <2>4. k \in Nat /\ Len(q) \in Nat /\ k <= Len(q)
    BY <1>1
  <2> HIDE DEF rest
  <2> QED BY <2>2, <2>3, <2>4
<1>4. \A r \in Requests : \/ Launched(st, q, k)[r] = st[r]
                          \/ /\ k # 0 /\ st[r] = "queued"
                             /\ Launched(st, q, k)[r] = "active"
  <2> SUFFICES ASSUME NEW r \in Requests, NEW i \in 1..k, q[i] = r
               PROVE  k # 0 /\ st[r] = "queued"
    BY DEF Launched
  <2>1. i \in DOMAIN q /\ k # 0
    BY <1>1
  <2> QED BY <1>1, <2>1
<1>5. Launched(st, q, k) \in [Requests -> Stages]
  BY DEF Launched, Consistent, Stages, InFlight
<1> QED BY <1>2, <1>3, <1>4, <1>5 DEF Served

(* What a call of processQueue does to the queue q of requests with stages *)
(* st: it starts the first k requests, none when paused, else as many as   *)
(* there are or as there are free slots for.                               *)
Processing(q, st, paused) ==
  \E k \in 0..Len(q) :
    /\ Served(q, st, k, queue', stage')
    /\ paused => k = 0
    /\ ~paused => k = Len(q) \/ activeRequests' = MaxConcurrent

(* It does so on any consistent queue.                                     *)
LEMMA Processed ==
  ASSUME NEW q, NEW st, NEW n, Consistent(q, st, n), NEW paused,
         ProcessQueue(q, st, n, paused)
  PROVE  Processing(q, st, paused)
<1> DEFINE k == Startable(q, n, paused)
<1>1. k \in 0..Len(q) /\ n \in 0..MaxConcurrent /\ Len(q) \in Nat
  BY StartableRange, LenProperties DEF Consistent
<1>2. Served(q, st, k, queue', stage')
  <2>1. queue' = SubSeq(q, k + 1, Len(q)) /\ stage' = Launched(st, q, k)
    BY DEF ProcessQueue
  <2>2. Served(q, st, k, SubSeq(q, k + 1, Len(q)), Launched(st, q, k))
    BY <1>1, LaunchServes
  <2> QED BY <2>1, <2>2
<1>3. paused => k = 0
  BY DEF Startable
<1>4. ~paused => k = Len(q) \/ n + k = MaxConcurrent
  BY <1>1, ConfigAssumption DEF Startable, AtMost, ConfigAssumption
<1>5. activeRequests' = n + k
  BY DEF ProcessQueue
<1> QED BY <1>1, <1>2, <1>3, <1>4, <1>5 DEF Processing

-----------------------------------------------------------------------------
(* What every handler does to the queue.                                   *)

(* A new request r of priority p enters the queue q of requests with       *)
(* stages st.                                                              *)
Entering(r, p, q, st) ==
  \E i \in 1..(Len(q) + 1) :
    /\ IsSlot(q, i, p)
    /\ Processing(InsertedAt(q, i, r), [st EXCEPT ![r] = "queued"], isPaused)

(* admit() into a consistent queue is that.                                *)
LEMMA AdmitEnters ==
  ASSUME NEW q, NEW st, Consistent(q, st, activeRequests),
         NEW r \in Requests, st[r] \notin {"queued", "active"}, NEW p, Admit(r, p, q, st)
  PROVE  Entering(r, p, q, st)
<1>1. PICK i \in 1..(Len(q) + 1) :
        /\ IsSlot(q, i, p)
        /\ ProcessQueue(InsertedAt(q, i, r), [st EXCEPT ![r] = "queued"],
                        activeRequests, isPaused)
  BY DEF Admit, InsertedAt
<1>2. Consistent(InsertedAt(q, i, r), [st EXCEPT ![r] = "queued"], activeRequests)
  BY InsertKeeps DEF InsertedAt
<1> QED BY <1>1, <1>2, Processed DEF Entering

(* The queue without the request at place v, and the stages once it is     *)
(* rejected.                                                               *)
Evicted(v) == [stage EXCEPT ![queue[v]] = "rejected"]

(* What enqueue does with a request: it enters, in place of a victim when  *)
(* the queue is full, or is refused.                                       *)
LEMMA EnqueueSteps ==
  ASSUME IInv, NEW r \in Requests, NEW p \in Priorities, Enqueue(r, p)
  PROVE  \/ ~Full /\ Entering(r, p, queue, stage)
         \/ \E v \in DOMAIN queue :
              /\ IsVictim(v) /\ p > priority[queue[v]]
              /\ Entering(r, p, RemovedAt(queue, v), Evicted(v))
         \/ /\ stage' = [stage EXCEPT ![r] = "rejected"]
            /\ UNCHANGED <<queue, activeRequests>>
<1>1. Consistent(queue, stage, activeRequests) /\ stage[r] = "idle"
  BY DEF IInv, Bookkeeping, Enqueue
<1>2. CASE EnqueueAdmitted(r, p)
  BY <1>1, <1>2, AdmitEnters DEF EnqueueAdmitted
<1>3. CASE EnqueueEvicting(r, p)
  <2>1. PICK v \in DOMAIN queue :
          /\ IsVictim(v) /\ p > priority[queue[v]]
          /\ Admit(r, p, RemovedAt(queue, v), Evicted(v))
    BY <1>3 DEF EnqueueEvicting, RemovedAt, Evicted
  <2>2. Consistent(RemovedAt(queue, v), Evicted(v), activeRequests)
    BY <1>1, RemoveKeeps DEF RemovedAt, Evicted
  <2>3. Evicted(v)[r] \in {"idle", "rejected"}
    BY <1>1 DEF Evicted, Consistent
  <2>4. Entering(r, p, RemovedAt(queue, v), Evicted(v))
    BY <2>1, <2>2, <2>3, AdmitEnters
  <2> QED BY <2>1, <2>4
<1>4. CASE EnqueueRefused(r, p)
  BY <1>4 DEF EnqueueRefused
<1> QED BY <1>2, <1>3, <1>4 DEF Enqueue

(* What a retry does: the request goes to the front, whatever the size of  *)
(* the queue.                                                              *)
LEMMA BackoffSteps ==
  ASSUME IInv, NEW r \in Requests, BackoffElapsed(r)
  PROVE  Processing(<<r>> \o queue, [stage EXCEPT ![r] = "queued"], isPaused)
<1>1. Consistent(queue, stage, activeRequests) /\ stage[r] = "backoff"
  BY DEF IInv, Bookkeeping, BackoffElapsed
<1>2. Consistent(<<r>> \o queue, [stage EXCEPT ![r] = "queued"], activeRequests)
  BY <1>1, UnshiftKeeps
<1> QED BY <1>2, Processed DEF BackoffElapsed

(* After a 429 the queue is served twice, the second time with the request *)
(* that waited in front of what was left.                                  *)
LEMMA RateLimitBackoffSteps ==
  ASSUME IInv, NEW r \in Requests, RateLimitBackoffElapsed(r)
  PROVE  \E k, q, st :
           /\ k \in 0..Len(queue)
           /\ Served(queue, stage, k, q, st)
           /\ Processing(<<r>> \o q, [st EXCEPT ![r] = "queued"], FALSE)
<1> DEFINE k == Startable(queue, activeRequests, FALSE)
           q == SubSeq(queue, k + 1, Len(queue))
           st == Launched(stage, queue, k)
<1>1. Consistent(queue, stage, activeRequests) /\ stage[r] = "rateLimitBackoff"
  BY DEF IInv, Bookkeeping, RateLimitBackoffElapsed
<1>2. k \in 0..Len(queue) /\ activeRequests + k \in 0..MaxConcurrent
  BY <1>1, StartableRange DEF Consistent
<1>3. ProcessQueue(<<r>> \o q, [st EXCEPT ![r] = "queued"], activeRequests + k, FALSE)
  BY DEF RateLimitBackoffElapsed
<1> HIDE DEF k
<1>4. Served(queue, stage, k, q, st) /\ Consistent(q, st, activeRequests + k)
  BY <1>1, <1>2, LaunchServes, LaunchKeeps
<1> HIDE DEF q, st
<1>5. st[r] = "rateLimitBackoff"
  BY <1>1, <1>4 DEF Served
<1>6. Consistent(<<r>> \o q, [st EXCEPT ![r] = "queued"], activeRequests + k)
  BY <1>4, <1>5, UnshiftKeeps
<1>7. Processing(<<r>> \o q, [st EXCEPT ![r] = "queued"], FALSE)
  BY <1>3, <1>6, Processed
<1> QED BY <1>2, <1>4, <1>7

(* What a resume or a scheduled call of processQueue does.                 *)
LEMMA ResumeSteps ==
  ASSUME IInv, Resume \/ AutoResumeFires \/ WakeupFires
  PROVE  Processing(queue, stage, isPaused')
<1>1. Consistent(queue, stage, activeRequests)
  BY DEF IInv, Bookkeeping
<1>2. CASE Resume \/ AutoResumeFires
  <2>1. ProcessQueue(queue, stage, activeRequests, FALSE) /\ isPaused' = FALSE
    BY <1>2 DEF Resume, AutoResumeFires, ResumeQueue, ResumeSwitch
  <2> QED BY <1>1, <2>1, Processed
<1>3. CASE WakeupFires
  <2>1. ProcessQueue(queue, stage, activeRequests, isPaused) /\ isPaused' = isPaused
    BY <1>3 DEF WakeupFires, pauseVars
  <2> QED BY <1>1, <2>1, Processed
<1> QED BY <1>2, <1>3

(* What a cleanup does: a resume when the watchdog is due, then a filter   *)
(* on what still waits.                                                    *)
LEMMA CleanupSteps ==
  ASSUME IInv, CleanupStaleRequests
  PROVE  \E k, q, st :
           /\ k \in 0..Len(queue)
           /\ Served(queue, stage, k, q, st)
           /\ WatchdogDue => /\ isPaused' = FALSE
                             /\ k = Len(queue) \/ activeRequests' = MaxConcurrent
           /\ ~WatchdogDue => /\ k = 0 /\ isPaused' = isPaused
                              /\ activeRequests' = activeRequests
           /\ queue' \in Seq(Requests) /\ Len(queue') <= Len(q)
           /\ IsFiltered(queue', q, Stale)
           /\ \A r \in Requests :
                stage'[r] = IF r \in Members(q) \cap Stale THEN "rejected" ELSE st[r]
<1> DEFINE k == IF WatchdogDue THEN Startable(queue, activeRequests, FALSE) ELSE 0
           q == SubSeq(queue, k + 1, Len(queue))
           st == Launched(stage, queue, k)
<1>1. /\ Consistent(queue, stage, activeRequests)
      /\ Len(queue) \in Nat /\ activeRequests \in 0..MaxConcurrent
      /\ MaxConcurrent \in Nat
  BY LenProperties, ConfigAssumption DEF IInv, Bookkeeping, Consistent, ConfigAssumption
<1>a. /\ WatchdogDue => k = AtMost(Len(queue), MaxConcurrent - activeRequests)
      /\ ~WatchdogDue => k = 0
  BY DEF Startable
<1>2. k \in 0..Len(queue)
  <2> HIDE DEF k
  <2> QED BY <1>1, <1>a DEF AtMost
<1>3. /\ activeRequests' = activeRequests + k
      /\ \E s \in SequencesUpTo(Len(q)) : IsFiltered(s, q, Stale) /\ queue' = s
      /\ stage' = [r \in Requests |->
                     IF r \in Members(q) \cap Stale THEN "rejected" ELSE st[r]]
  BY DEF CleanupStaleRequests, StillWaiting
<1>4. ASSUME WatchdogDue
      PROVE  isPaused' = FALSE /\ (k = Len(queue) \/ activeRequests' = MaxConcurrent)
  <2>1. isPaused' = FALSE
    BY <1>4 DEF CleanupStaleRequests, ResumeSwitch
  <2>2. activeRequests' = activeRequests + k
    BY <1>3
  <2> HIDE DEF k
  <2> QED BY <1>1, <1>4, <1>a, <2>1, <2>2 DEF AtMost
<1>5. ASSUME ~WatchdogDue
      PROVE  k = 0 /\ isPaused' = isPaused /\ activeRequests' = activeRequests
  <2>1. isPaused' = isPaused
    BY <1>5 DEF CleanupStaleRequests, pauseVars
  <2>2. activeRequests' = activeRequests + k
    BY <1>3
  <2> HIDE DEF k
  <2> QED BY <1>1, <1>5, <1>a, <2>1, <2>2
<1> HIDE DEF k
<1>6. Served(queue, stage, k, q, st)
  BY <1>1, <1>2, LaunchServes
<1> HIDE DEF q, st
<1>7. queue' \in Seq(Requests) /\ Len(queue') <= Len(q)
  <2>1. Len(q) \in Nat
    BY <1>6, LenProperties DEF Served
  <2>2. PICK m \in 0..Len(q) : queue' \in [1..m -> Requests]
    BY <1>3 DEF SequencesUpTo
  <2>3. m \in Nat /\ queue' \in Seq(Requests) /\ Len(queue') = m
    BY <2>1, <2>2
  <2> QED BY <2>1, <2>2, <2>3
<1>8. IsFiltered(queue', q, Stale)
  BY <1>3
<1> QED BY <1>2, <1>3, <1>4, <1>5, <1>6, <1>7, <1>8

-----------------------------------------------------------------------------
(* No start while paused.                                                  *)

StartsUnpaused == \A r \in Requests : stage[r] # "active" /\ stage'[r] = "active" => ~isPaused'

(* processQueue starts nothing when the limiter is paused.                 *)
LEMMA ProcessingStartsUnpaused ==
  ASSUME NEW q, NEW st, NEW paused, Processing(q, st, paused),
         isPaused' => paused,
         \A r \in Requests : st[r] = "active" => stage[r] = "active" \/ ~isPaused'
  PROVE  StartsUnpaused
<1>1. PICK k \in 0..Len(q) : Served(q, st, k, queue', stage') /\ (paused => k = 0)
  BY DEF Processing
<1> QED BY <1>1 DEF StartsUnpaused, Served

(* A new request does not start while the limiter is paused.               *)
LEMMA EnqueueStartsUnpaused ==
  ASSUME IInv, NEW r \in Requests, NEW p \in Priorities, Enqueue(r, p)
  PROVE  StartsUnpaused
<1>1. isPaused' = isPaused /\ stage[r] = "idle" /\ stage \in [Requests -> Stages]
  BY DEF IInv, Bookkeeping, Consistent, Enqueue, pauseVars
<1>2. ASSUME NEW q, NEW st, Entering(r, p, q, st), st \in [Requests -> Stages],
             \A x \in Requests : st[x] = "active" => stage[x] = "active"
      PROVE  StartsUnpaused
  <2>1. PICK i : Processing(InsertedAt(q, i, r), [st EXCEPT ![r] = "queued"], isPaused)
    BY <1>2 DEF Entering
  <2>2. \A x \in Requests : [st EXCEPT ![r] = "queued"][x] = "active" => stage[x] = "active"
    BY <1>2
  <2> QED BY <1>1, <2>1, <2>2, ProcessingStartsUnpaused
<1>3. CASE Entering(r, p, queue, stage)
  BY <1>1, <1>2, <1>3
<1>4. ASSUME NEW v, Entering(r, p, RemovedAt(queue, v), Evicted(v))
      PROVE  StartsUnpaused
  <2>1. Evicted(v) \in [Requests -> Stages]
    BY <1>1 DEF Evicted, Stages, Settled
  <2>2. \A x \in Requests : Evicted(v)[x] = "active" => stage[x] = "active"
    BY <1>1 DEF Evicted
  <2> QED BY <1>2, <1>4, <2>1, <2>2
<1>5. CASE stage' = [stage EXCEPT ![r] = "rejected"]
  BY <1>1, <1>5 DEF StartsUnpaused
<1> QED BY <1>3, <1>4, <1>5, EnqueueSteps

(* No step starts a request and leaves the limiter paused.                 *)
LEMMA NextStartsUnpaused ==
  ASSUME IInv, Next
  PROVE  StartsUnpaused
<1>0. stage \in [Requests -> Stages]
  BY DEF IInv, Bookkeeping, Consistent
<1>1. CASE \E r \in Requests, p \in Priorities : Enqueue(r, p)
  BY <1>1, EnqueueStartsUnpaused
<1>2. CASE \E r \in Requests : Execution(r)
  BY <1>0, <1>2 DEF Execution, ExecuteSucceeds, ExecuteRateLimited, ExecuteFailsRetryably,
                    ExecuteFails, StartsUnpaused
<1>3. ASSUME NEW r \in Requests, BackoffElapsed(r)
      PROVE  StartsUnpaused
  <2>1. Processing(<<r>> \o queue, [stage EXCEPT ![r] = "queued"], isPaused)
    BY <1>3, BackoffSteps
  <2>2. /\ isPaused' = isPaused
        /\ \A x \in Requests : [stage EXCEPT ![r] = "queued"][x] = "active" => stage[x] = "active"
    BY <1>0, <1>3 DEF BackoffElapsed, pauseVars
  <2> QED BY <2>1, <2>2, ProcessingStartsUnpaused
<1>4. CASE \/ \E r \in Requests : RateLimitBackoffElapsed(r)
           \/ Resume \/ AutoResumeFires
  BY <1>4 DEF RateLimitBackoffElapsed, Resume, AutoResumeFires, ResumeQueue, ResumeSwitch,
              StartsUnpaused
<1>5. CASE WakeupFires
  <2>1. Processing(queue, stage, isPaused')
    BY <1>5, ResumeSteps
  <2> QED BY <2>1, ProcessingStartsUnpaused
<1>6. CASE CleanupStaleRequests
  <2>1. PICK k, q, st :
          /\ k \in 0..Len(queue)
          /\ Served(queue, stage, k, q, st)
          /\ WatchdogDue => isPaused' = FALSE
          /\ ~WatchdogDue => k = 0
          /\ \A r \in Requests :
               stage'[r] = IF r \in Members(q) \cap Stale THEN "rejected" ELSE st[r]
    BY <1>6, CleanupSteps
  <2> QED BY <2>1 DEF Served, StartsUnpaused
<1>7. CASE Pause \/ QuotaLow \/ Tick
  BY <1>7 DEF Pause, QuotaLow, Tick, requestVars, StartsUnpaused
<1>8. CASE Clear \/ Stop
  BY <1>8 DEF Clear, Stop, ClearQueue, StartsUnpaused
<1> QED BY <1>1, <1>2, <1>3, <1>4, <1>5, <1>6, <1>7, <1>8 DEF Next

(* No step that leaves the limiter paused has started a request: the 429   *)
(* that pauses, a low quota and the calls of processQueue in between never *)
(* let one through.                                                        *)
THEOREM PausedStartsNothing == Spec => NoStartWhilePaused
<1>1. IInv /\ [Next]_vars => [StartsUnpaused]_vars
  BY NextStartsUnpaused
<1>2. [StartsUnpaused]_vars =>
        [\A r \in Requests : stage[r] # "active" /\ stage'[r] = "active" => ~isPaused']_vars
  BY DEF StartsUnpaused
<1> QED BY <1>1, <1>2, SpecIInv, PTL DEF Spec, NoStartWhilePaused

-----------------------------------------------------------------------------
(* Free slots are served.                                                  *)

Waits(r) == stage[r] \in {"backoff", "rateLimitBackoff"}

(* processQueue leaves no free slot beside a waiting request.              *)
LEMMA ProcessingServes ==
  ASSUME NEW q, NEW st, NEW paused, Processing(q, st, paused), paused => isPaused',
         Len(q) \in Nat
  PROVE  SlotsServed'
<1>1. PICK k \in 0..Len(q) :
        /\ Served(q, st, k, queue', stage')
        /\ paused => k = 0
        /\ ~paused => k = Len(q) \/ activeRequests' = MaxConcurrent
  BY DEF Processing
<1>2. CASE paused
  BY <1>2 DEF SlotsServed
<1>3. CASE activeRequests' = MaxConcurrent
  BY <1>3, ConfigAssumption DEF SlotsServed, ConfigAssumption
<1>4. CASE k = Len(q)
  <2>1. queue' \in Seq(Requests) /\ Len(queue') = 0
    BY <1>1, <1>4 DEF Served
  <2>2. queue' = <<>>
    BY <2>1, EmptySeq
  <2> QED BY <2>2 DEF SlotsServed
<1> QED BY <1>1, <1>2, <1>3, <1>4

(* A step that leaves the queue, the switch, the counter and those who are *)
(* in a backoff as they are, or schedules a call.                          *)
LEMMA StillServed ==
  ASSUME SlotsServed,
         \/ wakeup'
         \/ /\ queue' # <<>> => queue # <<>>
            /\ isPaused => isPaused'
            /\ activeRequests' = activeRequests
            /\ wakeup => wakeup'
            /\ \A r \in Requests : Waits(r) => Waits(r)'
  PROVE  SlotsServed'
  BY DEF SlotsServed, Waits

(* A request that begins to wait for its retry will call processQueue.     *)
LEMMA WaiterServes ==
  ASSUME NEW r \in Requests, stage'[r] \in {"backoff", "rateLimitBackoff"}
  PROVE  SlotsServed'
  BY DEF SlotsServed

(* A new request finds its slot or waits behind a used one.                *)
LEMMA EnqueueServes ==
  ASSUME IInv, SlotsServed, NEW r \in Requests, NEW p \in Priorities, Enqueue(r, p)
  PROVE  SlotsServed'
<1>1. isPaused' = isPaused /\ wakeup' = wakeup /\ stage[r] = "idle"
      /\ stage \in [Requests -> Stages]
  BY DEF IInv, Bookkeeping, Consistent, Enqueue, pauseVars, timerVars
<1>2. Consistent(queue, stage, activeRequests)
  BY DEF IInv, Bookkeeping
<1>3. ASSUME NEW q \in Seq(Requests), NEW st, Entering(r, p, q, st)
      PROVE  SlotsServed'
  <2>1. PICK i \in 1..(Len(q) + 1) :
          Processing(InsertedAt(q, i, r), [st EXCEPT ![r] = "queued"], isPaused)
    BY <1>3 DEF Entering
  <2>2. Len(q) \in Nat /\ Len(InsertedAt(q, i, r)) = Len(q) + 1
    BY Inserted, LenProperties
  <2>3. Len(InsertedAt(q, i, r)) \in Nat
    BY <2>2
  <2> QED BY <1>1, <2>1, <2>3, ProcessingServes
<1>4. CASE Entering(r, p, queue, stage)
  BY <1>2, <1>3, <1>4 DEF Consistent
<1>5. ASSUME NEW v \in DOMAIN queue, Entering(r, p, RemovedAt(queue, v), Evicted(v))
      PROVE  SlotsServed'
  <2>1. RemovedAt(queue, v) \in Seq(Requests)
    BY <1>2, Removed DEF Consistent
  <2> QED BY <1>3, <1>5, <2>1
<1>6. CASE stage' = [stage EXCEPT ![r] = "rejected"] /\ UNCHANGED <<queue, activeRequests>>
  BY <1>1, <1>6, StillServed DEF Waits
<1> QED BY <1>4, <1>5, <1>6, EnqueueSteps

(* The cleanup resumes and starts what it can, or leaves the slots as they *)
(* are and at most shortens the queue.                                     *)
LEMMA CleanupServes ==
  ASSUME IInv, SlotsServed, CleanupStaleRequests
  PROVE  SlotsServed'
<1>1. PICK k, q, st :
        /\ k \in 0..Len(queue)
        /\ Served(queue, stage, k, q, st)
        /\ WatchdogDue => /\ isPaused' = FALSE
                          /\ k = Len(queue) \/ activeRequests' = MaxConcurrent
        /\ ~WatchdogDue => /\ k = 0 /\ isPaused' = isPaused
                           /\ activeRequests' = activeRequests
        /\ queue' \in Seq(Requests) /\ Len(queue') <= Len(q)
        /\ IsFiltered(queue', q, Stale)
        /\ \A r \in Requests :
             stage'[r] = IF r \in Members(q) \cap Stale THEN "rejected" ELSE st[r]
  BY CleanupSteps
<1>2. /\ Consistent(queue, stage, activeRequests)
      /\ Len(queue) \in Nat /\ DOMAIN queue = 1..Len(queue)
      /\ \A i \in DOMAIN queue : stage[queue[i]] = "queued"
  BY MembersOfQueue DEF IInv, Bookkeeping
<1>3. Len(q) = Len(queue) - k /\ q \in Seq(Requests)
  BY <1>1 DEF Served
<1>4. Len(q) = 0 => queue' = <<>>
  <2>1. Len(queue') \in Nat
    BY <1>1, LenProperties
  <2>2. Len(q) = 0 => Len(queue') = 0
    BY <1>1, <2>1
  <2> QED BY <1>1, <2>2, EmptySeq
<1>5. CASE WatchdogDue
  <2>1. CASE activeRequests' = MaxConcurrent
    BY <2>1, ConfigAssumption DEF SlotsServed, ConfigAssumption
  <2>2. CASE k = Len(queue)
    <3>1. queue' = <<>>
      BY <1>2, <1>3, <1>4, <2>2
    <3> QED BY <3>1 DEF SlotsServed
  <2> QED BY <1>1, <1>5, <2>1, <2>2
<1>6. CASE ~WatchdogDue
  <2>1. queue' # <<>> => queue # <<>>
    <3>1. queue = <<>> => Len(queue) = 0
      BY EmptySeq
    <3> QED BY <1>1, <1>2, <1>3, <1>4, <1>6, <3>1
  <2>2. \A r \in Members(q) : stage[r] = "queued"
    <3>1. ASSUME NEW i \in DOMAIN q
          PROVE  stage[q[i]] = "queued"
      BY <1>1, <1>2, <3>1 DEF Served
    <3> QED BY <3>1 DEF Members
  <2>3. ASSUME NEW r \in Requests, Waits(r)
        PROVE  Waits(r)'
    <3>1. r \notin Members(q) /\ st[r] = stage[r]
      BY <1>1, <2>2, <2>3 DEF Waits, Served
    <3>2. stage'[r] = stage[r]
      BY <1>1, <3>1
    <3> QED BY <2>3, <3>2 DEF Waits
  <2>4. wakeup' = wakeup
    BY DEF CleanupStaleRequests, timerVars
  <2> QED BY <1>1, <1>6, <2>1, <2>3, <2>4, StillServed
<1> QED BY <1>5, <1>6

(* No step leaves a free slot beside a waiting request.                    *)
LEMMA NextServes ==
  ASSUME IInv, SlotsServed, [Next]_vars
  PROVE  SlotsServed'
<1>0. stage \in [Requests -> Stages] /\ Len(queue) \in Nat
  BY LenProperties DEF IInv, Bookkeeping, Consistent
<1>1. CASE \E r \in Requests, p \in Priorities : Enqueue(r, p)
  BY <1>1, EnqueueServes
<1>2. ASSUME NEW r \in Requests, Execution(r)
      PROVE  SlotsServed'
  <2>1. CASE ExecuteSucceeds(r) \/ ExecuteFails(r)
    BY <2>1, StillServed DEF ExecuteSucceeds, ExecuteFails
  <2>2. CASE ExecuteRateLimited(r) \/ ExecuteFailsRetryably(r)
    <3>1. stage'[r] \in {"backoff", "rateLimitBackoff"}
      BY <1>0, <2>2 DEF ExecuteRateLimited, ExecuteFailsRetryably
    <3> QED BY <3>1, WaiterServes
  <2> QED BY <1>2, <2>1, <2>2 DEF Execution
<1>3. CASE \E r \in Requests : BackoffElapsed(r) \/ RateLimitBackoffElapsed(r)
  BY <1>3, StillServed DEF BackoffElapsed, RateLimitBackoffElapsed
<1>4. CASE Resume \/ AutoResumeFires \/ WakeupFires
  BY <1>0, <1>4, ResumeSteps, ProcessingServes
<1>5. CASE CleanupStaleRequests
  BY <1>5, CleanupServes
<1>6. CASE Pause \/ QuotaLow
  BY <1>6 DEF Pause, QuotaLow, PauseSwitch, SlotsServed
<1>7. CASE Clear \/ Stop
  BY <1>7 DEF Clear, Stop, ClearQueue, SlotsServed
<1>8. CASE Tick \/ UNCHANGED vars
  <2>1. UNCHANGED <<queue, stage, isPaused, activeRequests, wakeup>>
    BY <1>8 DEF Tick, vars, requestVars, pauseVars, timerVars
  <2> QED BY <2>1 DEF SlotsServed
<1> QED BY <1>1, <1>2, <1>3, <1>4, <1>5, <1>6, <1>7, <1>8 DEF Next

(* A free slot and a waiting request never meet without a scheduled call   *)
(* of processQueue or a retry that will make one.                          *)
THEOREM SlotsAreServed == Spec => []SlotsServed
<1>1. Init => SlotsServed
  BY DEF Init, SlotsServed
<1>2. IInv /\ SlotsServed /\ [Next]_vars => SlotsServed'
  BY NextServes
<1> QED BY <1>1, <1>2, SpecIInv, PTL DEF Spec

-----------------------------------------------------------------------------
(* The limit of the queue.                                                 *)

GrowsByRetry ==
  Len(queue') > Len(queue) /\ Len(queue') > MaxQueueSize =>
    \E r \in Requests : Waits(r) /\ stage'[r] = "queued"

(* A queue that gets no longer breaks no limit.                            *)
LEMMA NotLonger ==
  ASSUME IInv, Len(queue') \in Nat, Len(queue') <= Len(queue)
  PROVE  GrowsByRetry
<1>1. Len(queue) \in Nat
  BY LenProperties DEF IInv, Bookkeeping, Consistent
<1> QED BY <1>1 DEF GrowsByRetry

(* processQueue only shortens the queue it is given, and keeps its length  *)
(* only when it starts nothing.                                            *)
LEMMA ProcessingShortens ==
  ASSUME NEW q, NEW st, NEW paused, Processing(q, st, paused), Len(q) \in Nat
  PROVE  /\ Len(queue') \in Nat /\ Len(queue') <= Len(q)
         /\ Len(queue') = Len(q) => \A r \in Requests : stage'[r] = st[r]
<1>1. PICK k \in 0..Len(q) : Served(q, st, k, queue', stage')
  BY DEF Processing
<1>2. queue' \in Seq(Requests) /\ Len(queue') = Len(q) - k
  BY <1>1 DEF Served
<1> HIDE DEF Served
<1>3. Len(queue') = Len(q) => k = 0
  BY <1>2
<1> QED BY <1>1, <1>2, <1>3 DEF Served

(* A new request enters below the limit, or in the place of another.       *)
LEMMA EnqueueGrows ==
  ASSUME IInv, NEW r \in Requests, NEW p \in Priorities, Enqueue(r, p)
  PROVE  GrowsByRetry
<1>1. queue \in Seq(Requests) /\ Len(queue) \in Nat
  BY LenProperties DEF IInv, Bookkeeping, Consistent
<1>2. ASSUME NEW q \in Seq(Requests), NEW st, Entering(r, p, q, st)
      PROVE  Len(queue') \in Nat /\ Len(queue') <= Len(q) + 1
  <2>1. PICK i \in 1..(Len(q) + 1) :
          Processing(InsertedAt(q, i, r), [st EXCEPT ![r] = "queued"], isPaused)
    BY <1>2 DEF Entering
  <2>2. Len(q) \in Nat /\ Len(InsertedAt(q, i, r)) = Len(q) + 1
    BY Inserted, LenProperties
  <2>3. Len(InsertedAt(q, i, r)) \in Nat
    BY <2>2
  <2>4. Len(queue') \in Nat /\ Len(queue') <= Len(InsertedAt(q, i, r))
    BY <2>1, <2>3, ProcessingShortens
  <2> QED BY <2>2, <2>4
<1>3. CASE ~Full /\ Entering(r, p, queue, stage)
  <2>1. Len(queue') \in Nat /\ Len(queue') <= Len(queue) + 1
    BY <1>1, <1>2, <1>3
  <2> QED BY <1>1, <1>3, <2>1, ConfigAssumption DEF Full, GrowsByRetry, ConfigAssumption
<1>4. ASSUME NEW v \in DOMAIN queue, Entering(r, p, RemovedAt(queue, v), Evicted(v))
      PROVE  GrowsByRetry
  <2>1. RemovedAt(queue, v) \in Seq(Requests) /\ Len(RemovedAt(queue, v)) = Len(queue) - 1
    BY <1>1, Removed
  <2>2. Len(queue') \in Nat /\ Len(queue') <= Len(RemovedAt(queue, v)) + 1
    BY <1>2, <1>4, <2>1
  <2>3. Len(queue') <= Len(queue)
    BY <1>1, <2>1, <2>2
  <2> QED BY <2>2, <2>3, NotLonger
<1>5. CASE UNCHANGED queue
  BY <1>1, <1>5, NotLonger
<1> QED BY <1>3, <1>4, <1>5, EnqueueSteps

(* A retry may exceed the limit.                                           *)
LEMMA BackoffGrows ==
  ASSUME IInv, NEW r \in Requests, BackoffElapsed(r) \/ RateLimitBackoffElapsed(r)
  PROVE  GrowsByRetry
<1>1. /\ queue \in Seq(Requests) /\ Len(queue) \in Nat
      /\ stage \in [Requests -> Stages] /\ Waits(r)
  BY LenProperties DEF IInv, Bookkeeping, Consistent, BackoffElapsed,
                       RateLimitBackoffElapsed, Waits
<1>2. ASSUME NEW q \in Seq(Requests), NEW st, st[r] = stage[r],
             st \in [Requests -> Stages], Len(q) <= Len(queue), NEW paused,
             Processing(<<r>> \o q, [st EXCEPT ![r] = "queued"], paused)
      PROVE  GrowsByRetry
  <2>1. Len(q) \in Nat /\ Len(<<r>> \o q) = Len(q) + 1
    BY LenProperties
  <2>2. Len(<<r>> \o q) \in Nat
    BY <2>1
  <2>3. /\ Len(queue') \in Nat /\ Len(queue') <= Len(<<r>> \o q)
        /\ Len(queue') = Len(<<r>> \o q) =>
             \A x \in Requests : stage'[x] = [st EXCEPT ![r] = "queued"][x]
    BY <1>2, <2>2, ProcessingShortens
  <2>4. [st EXCEPT ![r] = "queued"][r] = "queued"
    BY <1>2
  <2>5. CASE Len(queue') = Len(q) + 1
    BY <1>1, <2>1, <2>3, <2>4, <2>5 DEF GrowsByRetry
  <2>6. CASE Len(queue') <= Len(q)
    <3>1. Len(queue') <= Len(queue)
      BY <1>1, <1>2, <2>1, <2>3, <2>6
    <3> QED BY <2>3, <3>1, NotLonger
  <2> QED BY <2>1, <2>3, <2>5, <2>6
<1>3. CASE BackoffElapsed(r)
  <2>1. Processing(<<r>> \o queue, [stage EXCEPT ![r] = "queued"], isPaused)
    BY <1>3, BackoffSteps
  <2>2. Len(queue) <= Len(queue)
    BY <1>1
  <2> QED BY <1>1, <1>2, <2>1, <2>2
<1>4. CASE RateLimitBackoffElapsed(r)
  <2>1. PICK k, q, st :
          /\ k \in 0..Len(queue)
          /\ Served(queue, stage, k, q, st)
          /\ Processing(<<r>> \o q, [st EXCEPT ![r] = "queued"], FALSE)
    BY <1>4, RateLimitBackoffSteps
  <2>2. /\ q \in Seq(Requests) /\ Len(q) = Len(queue) - k /\ st \in [Requests -> Stages]
        /\ k \in 0..Len(queue)
    BY <2>1 DEF Served
  <2>3. Len(q) <= Len(queue)
    BY <1>1, <2>2
  <2>4. st[r] = stage[r]
    BY <1>1, <2>1 DEF Served, Waits
  <2> QED BY <1>2, <2>1, <2>2, <2>3, <2>4
<1> QED BY <1>3, <1>4

(* No step but a retry makes the queue exceed its limit.                   *)
LEMMA NextGrows ==
  ASSUME IInv, Next
  PROVE  GrowsByRetry
<1>0. queue \in Seq(Requests) /\ Len(queue) \in Nat
  BY LenProperties DEF IInv, Bookkeeping, Consistent
<1>1. CASE \E r \in Requests, p \in Priorities : Enqueue(r, p)
  BY <1>1, EnqueueGrows
<1>2. CASE \E r \in Requests : BackoffElapsed(r) \/ RateLimitBackoffElapsed(r)
  BY <1>2, BackoffGrows
<1>3. CASE Resume \/ AutoResumeFires \/ WakeupFires
  <2>1. Len(queue') \in Nat /\ Len(queue') <= Len(queue)
    BY <1>0, <1>3, ResumeSteps, ProcessingShortens
  <2> QED BY <2>1, NotLonger
<1>4. CASE CleanupStaleRequests
  <2>1. PICK k, q, st :
          /\ k \in 0..Len(queue)
          /\ Served(queue, stage, k, q, st)
          /\ queue' \in Seq(Requests)
          /\ Len(queue') <= Len(q)
    BY <1>4, CleanupSteps
  <2>2. Len(queue') \in Nat /\ Len(q) = Len(queue) - k
    BY <2>1, LenProperties DEF Served
  <2>3. Len(queue') <= Len(queue)
    BY <1>0, <2>1, <2>2
  <2> QED BY <2>2, <2>3, NotLonger
<1>5. CASE Clear \/ Stop
  BY <1>0, <1>5, NotLonger DEF Clear, Stop, ClearQueue
<1>6. CASE \/ \E r \in Requests : Execution(r)
           \/ Pause \/ QuotaLow \/ Tick
  <2>1. queue' = queue
    BY <1>6 DEF Execution, ExecuteSucceeds, ExecuteRateLimited, ExecuteFailsRetryably,
                ExecuteFails, Pause, QuotaLow, Tick
  <2> QED BY <1>0, <2>1, NotLonger
<1> QED BY <1>1, <1>2, <1>3, <1>4, <1>5, <1>6 DEF Next

(* Only a retry, which skips the size check, makes the queue grow beyond   *)
(* maxQueueSize.                                                           *)
THEOREM LimitHolds == Spec => OnlyRetriesExceedLimit
<1>1. IInv /\ [Next]_vars => [GrowsByRetry]_vars
  BY NextGrows
<1>2. [GrowsByRetry]_vars =>
        [Len(queue') > Len(queue) /\ Len(queue') > MaxQueueSize =>
           \E r \in Requests : stage[r] \in {"backoff", "rateLimitBackoff"}
                               /\ stage'[r] = "queued"]_vars
  BY DEF GrowsByRetry, Waits
<1> QED BY <1>1, <1>2, SpecIInv, PTL DEF Spec, OnlyRetriesExceedLimit

-----------------------------------------------------------------------------
(* The order of the queue.                                                 *)

Ordered(q, pr, ag) ==
  \A i, j \in DOMAIN q : i < j =>
    \/ pr[q[i]] > pr[q[j]]
    \/ pr[q[i]] = pr[q[j]] /\ ag[q[i]] >= ag[q[j]]

Embeds(s, q) ==
  \A i, j \in DOMAIN s : i < j =>
    \E m, n \in DOMAIN q : m < n /\ s[i] = q[m] /\ s[j] = q[n]

NeverRetried == \A r \in Requests : retries[r] = 0

(* What a retry never renews and an enqueue relies on: a request that was  *)
(* not enqueued yet has no age.                                            *)
FreshAge == \A r \in Requests : stage[r] = "idle" => age[r] = 0

OrderInv == FreshAge /\ (NeverRetried => Ordered(queue, priority, age))

(* A part of an ordered queue is ordered.                                  *)
LEMMA OrderedPart ==
  ASSUME NEW q, NEW s, NEW pr, NEW ag, Ordered(q, pr, ag), Embeds(s, q)
  PROVE  Ordered(s, pr, ag)
<1> SUFFICES ASSUME NEW i \in DOMAIN s, NEW j \in DOMAIN s, i < j
             PROVE  \/ pr[s[i]] > pr[s[j]]
                    \/ pr[s[i]] = pr[s[j]] /\ ag[s[i]] >= ag[s[j]]
  BY DEF Ordered
<1>1. PICK m \in DOMAIN q, n \in DOMAIN q : m < n /\ s[i] = q[m] /\ s[j] = q[n]
  BY DEF Embeds
<1> QED BY <1>1 DEF Ordered

(* What is left after the first have started is such a part.               *)
LEMMA ServedEmbeds ==
  ASSUME NEW q \in Seq(Requests), NEW st, NEW k \in 0..Len(q), NEW q2, NEW st2,
         Served(q, st, k, q2, st2)
  PROVE  Embeds(q2, q)
<1>1. Len(q) \in Nat
  BY LenProperties
<1>2. ASSUME NEW i \in DOMAIN q2, NEW j \in DOMAIN q2, i < j
      PROVE  \E m, n \in DOMAIN q : m < n /\ q2[i] = q[m] /\ q2[j] = q[n]
  <2>1. /\ k + i \in DOMAIN q /\ q2[i] = q[k + i]
        /\ k + j \in DOMAIN q /\ q2[j] = q[k + j]
    BY DEF Served
  <2>2. k + i < k + j
    <3>1. i \in 1..(Len(q) - k) /\ j \in 1..(Len(q) - k)
      BY DEF Served
    <3> QED BY <1>1, <1>2, <3>1
  <2> QED BY <2>1, <2>2
<1> QED BY <1>2 DEF Embeds

(* So is the queue without one request.                                    *)
LEMMA RemovedEmbeds ==
  ASSUME NEW q \in Seq(Requests), NEW v \in DOMAIN q
  PROVE  Embeds(RemovedAt(q, v), q)
<1> DEFINE q2 == RemovedAt(q, v)
<1>1. /\ DOMAIN q2 = 1..(Len(q) - 1)
      /\ \A j \in 1..(Len(q) - 1) : q2[j] = IF j < v THEN q[j] ELSE q[j + 1]
  BY Removed
<1>2. Len(q) \in Nat /\ DOMAIN q = 1..Len(q)
  BY LenProperties
<1> HIDE DEF q2
<1>3. ASSUME NEW i \in DOMAIN q2, NEW j \in DOMAIN q2, i < j
      PROVE  \E m, n \in DOMAIN q : m < n /\ q2[i] = q[m] /\ q2[j] = q[n]
  <2> DEFINE at(l) == IF l < v THEN l ELSE l + 1
  <2>1. /\ at(i) \in DOMAIN q /\ at(j) \in DOMAIN q /\ at(i) < at(j)
        /\ q2[i] = q[at(i)] /\ q2[j] = q[at(j)]
    BY <1>1, <1>2, <1>3
  <2> HIDE DEF at
  <2> QED BY <2>1
<1> QED BY <1>3 DEF Embeds, q2

(* Inserting a new request of priority p at its slot keeps the order.      *)
LEMMA InsertOrders ==
  ASSUME NEW q \in Seq(Requests), NEW r \in Requests, NEW p \in Int,
         NEW i \in 1..(Len(q) + 1), IsSlot(q, i, p),
         \A j \in DOMAIN q : q[j] # r,
         priority \in [Requests -> Int], age \in [Requests -> Nat], age[r] = 0,
         Ordered(q, priority, age)
  PROVE  Ordered(InsertedAt(q, i, r), [priority EXCEPT ![r] = p], age)
<1> DEFINE q2 == InsertedAt(q, i, r)
           pr == [priority EXCEPT ![r] = p]
<1>1. /\ DOMAIN q2 = 1..(Len(q) + 1)
      /\ \A j \in 1..(Len(q) + 1) :
           q2[j] = IF j < i THEN q[j] ELSE IF j = i THEN r ELSE q[j - 1]
  BY Inserted
<1>2. Len(q) \in Nat /\ DOMAIN q = 1..Len(q)
      /\ \A j \in DOMAIN q : q[j] \in Requests /\ q[j] # r
  BY LenProperties, ElementOfSeq
<1>3. /\ pr[r] = p
      /\ \A j \in DOMAIN q : /\ pr[q[j]] = priority[q[j]] /\ priority[q[j]] \in Int
                             /\ age[q[j]] \in Nat
  BY <1>2
<1> HIDE DEF q2, pr
<1>4. ASSUME NEW j \in DOMAIN q2, NEW m \in DOMAIN q2, j < m
      PROVE  \/ pr[q2[j]] > pr[q2[m]]
             \/ pr[q2[j]] = pr[q2[m]] /\ age[q2[j]] >= age[q2[m]]
  <2>0. j \in 1..(Len(q) + 1) /\ m \in 1..(Len(q) + 1) /\ i \in 1..(Len(q) + 1)
    BY <1>1
  <2>1. CASE m < i
    <3>1. j \in DOMAIN q /\ m \in DOMAIN q /\ q2[j] = q[j] /\ q2[m] = q[m]
      BY <1>1, <1>2, <1>4, <2>0, <2>1
    <3> QED BY <1>3, <1>4, <3>1 DEF Ordered
  <2>2. CASE m = i
    <3>1. j \in DOMAIN q /\ j \in 1..(i - 1) /\ q2[j] = q[j] /\ q2[m] = r
      BY <1>1, <1>2, <1>4, <2>0, <2>2
    <3>2. priority[q[j]] >= p
      BY <3>1 DEF IsSlot
    <3> QED BY <1>3, <3>1, <3>2
  <2>3. CASE j < i /\ m > i
    <3>1. /\ j \in DOMAIN q /\ m - 1 \in DOMAIN q /\ j < m - 1
          /\ q2[j] = q[j] /\ q2[m] = q[m - 1]
      BY <1>1, <1>2, <1>4, <2>0, <2>3
    <3> QED BY <1>3, <3>1 DEF Ordered
  <2>4. CASE j = i
    <3>1. /\ i \in DOMAIN q /\ m - 1 \in DOMAIN q /\ i <= m - 1 /\ i <= Len(q)
          /\ q2[j] = r /\ q2[m] = q[m - 1]
      BY <1>1, <1>2, <1>4, <2>0, <2>4
    <3>2. priority[q[i]] < p
      BY <3>1 DEF IsSlot
    <3>3. priority[q[m - 1]] <= priority[q[i]]
      <4>1. CASE i = m - 1
        BY <1>3, <3>1, <4>1
      <4>2. CASE i < m - 1
        BY <1>3, <3>1, <4>2 DEF Ordered
      <4> QED BY <2>0, <3>1, <4>1, <4>2
    <3> QED BY <1>3, <3>1, <3>2, <3>3
  <2>5. CASE j > i
    <3>1. /\ j - 1 \in DOMAIN q /\ m - 1 \in DOMAIN q /\ j - 1 < m - 1
          /\ q2[j] = q[j - 1] /\ q2[m] = q[m - 1]
      <4>a. Len(q) \in Nat /\ i \in Nat /\ j \in Nat /\ m \in Nat
            /\ 1 <= i /\ m <= Len(q) + 1
        BY <1>2, <2>0
      <4>b. \A a, b, c, l \in Nat : 1 <= a /\ a < b /\ b < c /\ c <= l + 1 =>
              /\ b - 1 \in 1..l /\ c - 1 \in 1..l /\ b - 1 < c - 1
              /\ ~(b < a) /\ b # a /\ ~(c < a) /\ c # a
        OBVIOUS
      <4>c. j < m /\ i < j
        BY <1>4, <2>5
      <4>1. /\ j - 1 \in 1..Len(q) /\ m - 1 \in 1..Len(q) /\ j - 1 < m - 1
            /\ ~(j < i) /\ j # i /\ ~(m < i) /\ m # i
        BY <4>a, <4>b, <4>c
      <4>2. q2[j] = q[j - 1] /\ q2[m] = q[m - 1]
        BY <1>1, <2>0, <4>1
      <4> QED BY <1>2, <4>1, <4>2
    <3> QED BY <1>3, <3>1 DEF Ordered
  <2> QED BY <1>4, <2>0, <2>1, <2>2, <2>3, <2>4, <2>5
<1> QED BY <1>4 DEF Ordered, q2, pr

(* A step that drops or starts some requests and writes none of what the   *)
(* order is about.                                                         *)
LEMMA PartKeepsOrder ==
  ASSUME OrderInv, Embeds(queue', queue), UNCHANGED <<priority, retries, age>>,
         \A r \in Requests : stage'[r] = "idle" => stage[r] = "idle"
  PROVE  OrderInv'
<1>1. FreshAge'
  BY DEF OrderInv, FreshAge
<1>2. NeverRetried' => Ordered(queue', priority', age')
  BY OrderedPart DEF OrderInv, NeverRetried
<1> QED BY <1>1, <1>2 DEF OrderInv

(* A queue that stays as it is, or is emptied, is a part of itself.        *)
LEMMA SameEmbeds ==
  ASSUME UNCHANGED queue \/ queue' = <<>>
  PROVE  Embeds(queue', queue)
  BY DEF Embeds

(* A new request takes its place in the order.                             *)
LEMMA EnqueueOrders ==
  ASSUME IInv, OrderInv, NEW r \in Requests, NEW p \in Priorities, Enqueue(r, p)
  PROVE  OrderInv'
<1>1. /\ priority' = [priority EXCEPT ![r] = p] /\ retries' = retries /\ age' = age
      /\ stage[r] = "idle" /\ stage \in [Requests -> Stages]
      /\ Consistent(queue, stage, activeRequests) /\ queue \in Seq(Requests)
  BY DEF Enqueue, IInv, Bookkeeping, Consistent
<1>2. /\ p \in Int /\ priority \in [Requests -> Int] /\ age \in [Requests -> Nat]
      /\ age[r] = 0
  <2>1. Priorities \cup {0} \subseteq Int /\ 0..MaxAge \subseteq Nat
    BY ConfigAssumption, BoundAssumption DEF ConfigAssumption, BoundAssumption
  <2>2. /\ priority \in [Requests -> Priorities \cup {0}]
        /\ age \in [Requests -> 0..MaxAge]
    BY DEF IInv, RestOK, DataOK
  <2>3. age[r] = 0
    BY <1>1 DEF OrderInv, FreshAge
  <2>4. priority \in [Requests -> Int] /\ age \in [Requests -> Nat]
    BY <2>1, <2>2
  <2>5. p \in Int
    BY <2>1
  <2> QED BY <2>3, <2>4, <2>5
<1>3. \A j \in DOMAIN queue : queue[j] # r
  BY <1>1, MembersOfQueue
<1>4. ASSUME NEW q \in Seq(Requests), NEW st \in [Requests -> Stages], Entering(r, p, q, st),
             Embeds(q, queue), \A j \in DOMAIN q : q[j] # r,
             \A x \in Requests : st[x] = "idle" => stage[x] = "idle"
      PROVE  OrderInv'
  <2>1. PICK i \in 1..(Len(q) + 1) :
          /\ IsSlot(q, i, p)
          /\ Processing(InsertedAt(q, i, r), [st EXCEPT ![r] = "queued"], isPaused)
    BY <1>4 DEF Entering
  <2>2. PICK k \in 0..Len(InsertedAt(q, i, r)) :
          Served(InsertedAt(q, i, r), [st EXCEPT ![r] = "queued"], k, queue', stage')
    BY <2>1 DEF Processing
  <2>3. InsertedAt(q, i, r) \in Seq(Requests)
    BY Inserted
  <2>4. Embeds(queue', InsertedAt(q, i, r))
    BY <2>2, <2>3, ServedEmbeds
  <2>5. ASSUME NeverRetried'
        PROVE  Ordered(queue', priority', age')
    <3>1. Ordered(q, priority, age)
      BY <1>1, <1>4, <2>5, OrderedPart DEF OrderInv, NeverRetried
    <3>2. Ordered(InsertedAt(q, i, r), priority', age')
      BY <1>1, <1>2, <1>4, <2>1, <3>1, InsertOrders
    <3> QED BY <2>4, <3>2, OrderedPart
  <2>6. FreshAge'
    <3>1. \A x \in Requests : stage'[x] = "idle" => stage[x] = "idle"
      BY <1>4, <2>2 DEF Served
    <3> QED BY <1>1, <3>1 DEF OrderInv, FreshAge
  <2> QED BY <2>5, <2>6 DEF OrderInv
<1>5. CASE Entering(r, p, queue, stage)
  <2>1. Embeds(queue, queue)
    BY DEF Embeds
  <2> QED BY <1>1, <1>3, <1>4, <1>5, <2>1
<1>6. ASSUME NEW v \in DOMAIN queue, Entering(r, p, RemovedAt(queue, v), Evicted(v))
      PROVE  OrderInv'
  <2>1. Embeds(RemovedAt(queue, v), queue) /\ RemovedAt(queue, v) \in Seq(Requests)
    BY <1>1, RemovedEmbeds, Removed
  <2>2. \A j \in DOMAIN RemovedAt(queue, v) : RemovedAt(queue, v)[j] # r
    <3> DEFINE q2 == RemovedAt(queue, v)
    <3>1. /\ DOMAIN q2 = 1..(Len(queue) - 1)
          /\ \A j \in 1..(Len(queue) - 1) : q2[j] = IF j < v THEN queue[j] ELSE queue[j + 1]
      BY <1>1, Removed
    <3>2. Len(queue) \in Nat /\ DOMAIN queue = 1..Len(queue)
      BY <1>1, LenProperties
    <3> HIDE DEF q2
    <3>3. \A j \in DOMAIN q2 : q2[j] # r
      BY <1>3, <3>1, <3>2
    <3> QED BY <3>3 DEF q2
  <2>3. /\ Evicted(v) \in [Requests -> Stages]
        /\ \A x \in Requests : Evicted(v)[x] = "idle" => stage[x] = "idle"
    BY <1>1 DEF Evicted, Stages, Settled
  <2> QED BY <1>4, <1>6, <2>1, <2>2, <2>3
<1>7. CASE stage' = [stage EXCEPT ![r] = "rejected"] /\ UNCHANGED queue
  <2>1. FreshAge'
    BY <1>1, <1>7 DEF OrderInv, FreshAge
  <2>2. ASSUME NeverRetried'
        PROVE  Ordered(queue', priority', age')
    <3>1. Ordered(queue, priority, age)
      BY <1>1, <2>2 DEF OrderInv, NeverRetried
    <3>2. \A j \in DOMAIN queue : priority'[queue[j]] = priority[queue[j]]
      <4>1. \A j \in DOMAIN queue : queue[j] \in Requests
        BY <1>1, MembersOfQueue
      <4> QED BY <1>1, <1>2, <1>3, <4>1
    <3> QED BY <1>1, <1>7, <3>1, <3>2 DEF Ordered
  <2> QED BY <2>1, <2>2 DEF OrderInv
<1> QED BY <1>5, <1>6, <1>7, EnqueueSteps

(* A retry ends the time in which the order is promised.                   *)
LEMMA RetryOrders ==
  ASSUME IInv, OrderInv, NEW r \in Requests, BackoffElapsed(r) \/ RateLimitBackoffElapsed(r)
  PROVE  OrderInv'
<1>1. retries' = [retries EXCEPT ![r] = AtMost(@ + 1, RetryCap)] /\ age' = age
  BY DEF BackoffElapsed, RateLimitBackoffElapsed, Retried
<1>2. ~NeverRetried'
  <2>1. retries \in [Requests -> 0..RetryCap] /\ RetryCap \in Nat \ {0}
    BY BoundAssumption, ConfigAssumption
    DEF IInv, RestOK, DataOK, BoundAssumption, ConfigAssumption
  <2>2. retries'[r] # 0
    BY <1>1, <2>1 DEF AtMost
  <2> QED BY <2>2 DEF NeverRetried
<1>3. stage \in [Requests -> Stages]
  BY DEF IInv, Bookkeeping, Consistent
<1>4. \A x \in Requests : stage'[x] = "idle" => stage[x] = "idle"
  <2>1. CASE BackoffElapsed(r)
    <3>1. stage' = Launched([stage EXCEPT ![r] = "queued"], <<r>> \o queue,
                            Startable(<<r>> \o queue, activeRequests, isPaused))
      BY <2>1 DEF BackoffElapsed, ProcessQueue
    <3> QED BY <1>3, <3>1 DEF Launched
  <2>2. CASE RateLimitBackoffElapsed(r)
    <3>1. PICK k, q, st :
            /\ k \in 0..Len(queue)
            /\ Served(queue, stage, k, q, st)
            /\ Processing(<<r>> \o q, [st EXCEPT ![r] = "queued"], FALSE)
      BY <2>2, RateLimitBackoffSteps
    <3>2. PICK l : Served(<<r>> \o q, [st EXCEPT ![r] = "queued"], l, queue', stage')
      BY <3>1 DEF Processing
    <3>3. \A x \in Requests : st[x] = "idle" => stage[x] = "idle"
      BY <3>1 DEF Served
    <3>4. \A x \in Requests : [st EXCEPT ![r] = "queued"][x] = "idle" => st[x] = "idle"
      BY <3>1 DEF Served
    <3>5. \A x \in Requests : stage'[x] = "idle" => [st EXCEPT ![r] = "queued"][x] = "idle"
      BY <3>2 DEF Served
    <3> QED BY <3>3, <3>4, <3>5
  <2> QED BY <2>1, <2>2
<1> QED BY <1>1, <1>2, <1>4 DEF OrderInv, FreshAge

(* Time passes for all that wait.                                          *)
LEMMA TickOrders ==
  ASSUME IInv, OrderInv, Tick
  PROVE  OrderInv'
<1>1. /\ UNCHANGED <<queue, stage, priority, retries>>
      /\ age' = [r \in Requests |->
                   IF stage[r] \in InFlight THEN AtMost(age[r] + 1, MaxAge) ELSE age[r]]
  BY DEF Tick
<1>2. FreshAge'
  BY <1>1 DEF OrderInv, FreshAge, InFlight
<1>3. ASSUME NeverRetried'
      PROVE  Ordered(queue', priority', age')
  <2>1. Ordered(queue, priority, age)
    BY <1>1, <1>3 DEF OrderInv, NeverRetried
  <2>2. /\ MaxAge \in Nat /\ age \in [Requests -> 0..MaxAge]
    BY BoundAssumption DEF IInv, RestOK, DataOK, BoundAssumption
  <2>3. \A i \in DOMAIN queue : queue[i] \in Requests /\ stage[queue[i]] \in InFlight
    BY MembersOfQueue DEF IInv, Bookkeeping, InFlight
  <2>4. \A i \in DOMAIN queue : age'[queue[i]] = AtMost(age[queue[i]] + 1, MaxAge)
    BY <1>1, <2>3
  <2>5. \A i, j \in DOMAIN queue :
          age[queue[i]] >= age[queue[j]] => age'[queue[i]] >= age'[queue[j]]
    BY <2>2, <2>3, <2>4 DEF AtMost
  <2> QED BY <1>1, <2>1, <2>5 DEF Ordered
<1> QED BY <1>2, <1>3 DEF OrderInv

(* No step breaks the order.                                               *)
LEMMA NextOrders ==
  ASSUME IInv, OrderInv, [Next]_vars
  PROVE  OrderInv'
<1>0. queue \in Seq(Requests) /\ stage \in [Requests -> Stages]
  BY DEF IInv, Bookkeeping, Consistent
<1>1. CASE \E r \in Requests, p \in Priorities : Enqueue(r, p)
  BY <1>1, EnqueueOrders
<1>2. ASSUME NEW r \in Requests, Execution(r)
      PROVE  OrderInv'
  <2>1. UNCHANGED <<queue, priority, retries, age>>
    BY <1>2 DEF Execution, ExecuteSucceeds, ExecuteRateLimited, ExecuteFailsRetryably,
                ExecuteFails
  <2>2. \A x \in Requests : stage'[x] = "idle" => stage[x] = "idle"
    BY <1>0, <1>2 DEF Execution, ExecuteSucceeds, ExecuteRateLimited,
                      ExecuteFailsRetryably, ExecuteFails
  <2> QED BY <2>1, <2>2, SameEmbeds, PartKeepsOrder
<1>3. CASE \E r \in Requests : BackoffElapsed(r) \/ RateLimitBackoffElapsed(r)
  BY <1>3, RetryOrders
<1>4. CASE Resume \/ AutoResumeFires \/ WakeupFires
  <2>1. PICK k \in 0..Len(queue) : Served(queue, stage, k, queue', stage')
    BY <1>4, ResumeSteps DEF Processing
  <2>2. Embeds(queue', queue)
    BY <1>0, <2>1, ServedEmbeds
  <2>3. \A x \in Requests : stage'[x] = "idle" => stage[x] = "idle"
    BY <2>1 DEF Served
  <2>4. UNCHANGED <<priority, retries, age>>
    BY <1>4 DEF Resume, AutoResumeFires, WakeupFires
  <2> QED BY <2>2, <2>3, <2>4, PartKeepsOrder
<1>5. CASE CleanupStaleRequests
  <2>1. PICK k, q, st :
          /\ k \in 0..Len(queue)
          /\ Served(queue, stage, k, q, st)
          /\ IsFiltered(queue', q, Stale)
          /\ \A r \in Requests :
               stage'[r] = IF r \in Members(q) \cap Stale THEN "rejected" ELSE st[r]
    BY <1>5, CleanupSteps
  <2>2. Embeds(q, queue)
    BY <1>0, <2>1, ServedEmbeds
  <2>3. Embeds(queue', q)
    BY <2>1 DEF IsFiltered, Embeds
  <2>4. Embeds(queue', queue)
    <3> SUFFICES ASSUME NEW i \in DOMAIN queue', NEW j \in DOMAIN queue', i < j
                 PROVE  \E m, n \in DOMAIN queue :
                          m < n /\ queue'[i] = queue[m] /\ queue'[j] = queue[n]
      BY DEF Embeds
    <3>1. PICK m \in DOMAIN q, n \in DOMAIN q : m < n /\ queue'[i] = q[m] /\ queue'[j] = q[n]
      BY <2>3 DEF Embeds
    <3> QED BY <2>2, <3>1 DEF Embeds
  <2>5. \A x \in Requests : stage'[x] = "idle" => stage[x] = "idle"
    BY <2>1 DEF Served
  <2>6. UNCHANGED <<priority, retries, age>>
    BY <1>5 DEF CleanupStaleRequests
  <2> QED BY <2>4, <2>5, <2>6, PartKeepsOrder
<1>6. CASE Tick
  BY <1>6, TickOrders
<1>7. CASE Clear \/ Stop
  <2>1. queue' = <<>> /\ UNCHANGED <<priority, retries, age>>
    BY <1>7 DEF Clear, Stop, ClearQueue
  <2>2. \A x \in Requests : stage'[x] = "idle" => stage[x] = "idle"
    BY <1>7 DEF Clear, Stop, ClearQueue
  <2> QED BY <2>1, <2>2, SameEmbeds, PartKeepsOrder
<1>8. CASE Pause \/ QuotaLow \/ UNCHANGED vars
  <2>1. UNCHANGED <<queue, stage, priority, retries, age>>
    BY <1>8 DEF Pause, QuotaLow, vars, requestVars
  <2> QED BY <2>1, SameEmbeds, PartKeepsOrder
<1> QED BY <1>1, <1>2, <1>3, <1>4, <1>5, <1>6, <1>7, <1>8 DEF Next

(* As long as nothing was retried the queue is sorted by priority, and     *)
(* first come, first served within a priority.                             *)
THEOREM SortedBeforeRetries == Spec => []SortedUntilRetry
<1>1. Init => OrderInv
  BY DEF Init, OrderInv, FreshAge, Ordered
<1>2. IInv /\ OrderInv /\ [Next]_vars => OrderInv'
  BY NextOrders
<1>3. OrderInv => SortedUntilRetry
  BY DEF OrderInv, NeverRetried, Ordered, SortedUntilRetry
<1> QED BY <1>1, <1>2, <1>3, SpecIInv, PTL DEF Spec

-----------------------------------------------------------------------------
(* Who is dropped.                                                         *)

Dropped(r) == stage[r] = "queued" /\ stage'[r] = "rejected"

Justified(r) ==
  \/ age[r] > RequestTimeout
  \/ \A o \in Members(queue) : stage'[o] = "rejected"
  \/ /\ \A o \in Members(queue) : priority[o] >= priority[r]
     /\ \E n \in Requests : /\ stage[n] = "idle"
                            /\ stage'[n] \in {"queued", "active"}
                            /\ priority'[n] > priority[r]

DropsHaveReasons == \A r \in Requests : Dropped(r) => Justified(r)

(* processQueue rejects nobody.                                            *)
LEMMA ProcessingDropsNone ==
  ASSUME NEW q, NEW st, NEW paused, Processing(q, st, paused),
         NEW r \in Requests, stage'[r] = "rejected"
  PROVE  st[r] = "rejected"
  BY DEF Processing, Served

(* Who is evicted has the lowest priority of all that wait, and a lower    *)
(* one than the request that takes its place.                              *)
LEMMA EnqueueDrops ==
  ASSUME IInv, NEW r \in Requests, NEW p \in Priorities, Enqueue(r, p)
  PROVE  DropsHaveReasons
<1>1. /\ stage[r] = "idle" /\ stage \in [Requests -> Stages]
      /\ priority \in [Requests -> Priorities \cup {0}]
      /\ priority' = [priority EXCEPT ![r] = p]
      /\ Consistent(queue, stage, activeRequests)
  BY DEF Enqueue, IInv, Bookkeeping, Consistent, RestOK, DataOK
<1>2. /\ DOMAIN queue = 1..Len(queue)
      /\ \A i \in DOMAIN queue : queue[i] \in Requests /\ stage[queue[i]] = "queued"
  BY <1>1, MembersOfQueue
<1>3. CASE Entering(r, p, queue, stage)
  <2>1. PICK i : Processing(InsertedAt(queue, i, r), [stage EXCEPT ![r] = "queued"], isPaused)
    BY <1>3 DEF Entering
  <2>2. ASSUME NEW x \in Requests, Dropped(x)
        PROVE  FALSE
    <3>1. [stage EXCEPT ![r] = "queued"][x] = "rejected"
      BY <2>1, <2>2, ProcessingDropsNone DEF Dropped
    <3> QED BY <1>1, <2>2, <3>1 DEF Dropped
  <2> QED BY <2>2 DEF DropsHaveReasons
<1>4. ASSUME NEW v \in DOMAIN queue, IsVictim(v), p > priority[queue[v]],
             Entering(r, p, RemovedAt(queue, v), Evicted(v))
      PROVE  DropsHaveReasons
  <2> DEFINE st == [Evicted(v) EXCEPT ![r] = "queued"]
  <2>1. PICK i : Processing(InsertedAt(RemovedAt(queue, v), i, r), st, isPaused)
    BY <1>4 DEF Entering
  <2>2. Evicted(v) \in [Requests -> Stages]
    BY <1>1 DEF Evicted, Stages, Settled
  <2>3. \A x \in Requests : Dropped(x) => x = queue[v]
    <3> SUFFICES ASSUME NEW x \in Requests, Dropped(x)
                 PROVE  x = queue[v]
      OBVIOUS
    <3>1. st[x] = "rejected"
      BY <2>1, ProcessingDropsNone DEF Dropped
    <3> QED BY <1>1, <2>2, <3>1 DEF Dropped, Evicted
  <2>4. stage'[r] \in {"queued", "active"}
    <3>1. st[r] = "queued"
      BY <2>2
    <3> HIDE DEF st
    <3> QED BY <2>1, <3>1 DEF Processing, Served
  <2>5. \A o \in Members(queue) : priority[o] >= priority[queue[v]]
    <3>1. \A j \in DOMAIN queue : priority[queue[v]] \in Int /\ priority[queue[j]] \in Int
      <4>1. Priorities \cup {0} \subseteq Int
        BY ConfigAssumption DEF ConfigAssumption
      <4> QED BY <1>1, <1>2, <4>1
    <3>2. \A j \in DOMAIN queue : \/ priority[queue[v]] < priority[queue[j]]
                                  \/ priority[queue[v]] = priority[queue[j]]
      BY <1>4 DEF IsVictim
    <3> QED BY <3>1, <3>2 DEF Members
  <2>6. priority'[r] > priority[queue[v]]
    BY <1>1, <1>4
  <2>7. Justified(queue[v])
    BY <1>1, <2>4, <2>5, <2>6 DEF Justified
  <2> QED BY <2>3, <2>7 DEF DropsHaveReasons
<1>5. CASE stage' = [stage EXCEPT ![r] = "rejected"]
  BY <1>1, <1>5 DEF DropsHaveReasons, Dropped
<1> QED BY <1>3, <1>4, <1>5, EnqueueSteps

(* A retry drops nobody.                                                   *)
LEMMA RetryDropsNone ==
  ASSUME IInv, NEW r \in Requests, BackoffElapsed(r) \/ RateLimitBackoffElapsed(r)
  PROVE  DropsHaveReasons
<1>1. stage \in [Requests -> Stages]
  BY DEF IInv, Bookkeeping, Consistent
<1> SUFFICES ASSUME NEW x \in Requests, Dropped(x)
             PROVE  FALSE
  BY DEF DropsHaveReasons
<1>2. CASE BackoffElapsed(r)
  <2>1. [stage EXCEPT ![r] = "queued"][x] = "rejected"
    BY <1>2, BackoffSteps, ProcessingDropsNone DEF Dropped
  <2> QED BY <1>1, <2>1 DEF Dropped
<1>3. CASE RateLimitBackoffElapsed(r)
  <2>1. PICK k, q, st :
          /\ k \in 0..Len(queue)
          /\ Served(queue, stage, k, q, st)
          /\ Processing(<<r>> \o q, [st EXCEPT ![r] = "queued"], FALSE)
    BY <1>3, RateLimitBackoffSteps
  <2>2. [st EXCEPT ![r] = "queued"][x] = "rejected"
    BY <2>1, ProcessingDropsNone DEF Dropped
  <2>3. st[x] = "rejected"
    BY <2>1, <2>2 DEF Served
  <2> QED BY <2>1, <2>3 DEF Served, Dropped
<1> QED BY <1>2, <1>3

(* No step drops a request without a reason.                               *)
LEMMA NextDrops ==
  ASSUME IInv, Next
  PROVE  DropsHaveReasons
<1>0. stage \in [Requests -> Stages]
  BY DEF IInv, Bookkeeping, Consistent
<1>1. CASE \E r \in Requests, p \in Priorities : Enqueue(r, p)
  BY <1>1, EnqueueDrops
<1>2. CASE \E r \in Requests : BackoffElapsed(r) \/ RateLimitBackoffElapsed(r)
  BY <1>2, RetryDropsNone
<1>3. CASE Resume \/ AutoResumeFires \/ WakeupFires
  <2>1. \A r \in Requests : stage'[r] = "rejected" => stage[r] = "rejected"
    BY <1>3, ResumeSteps, ProcessingDropsNone
  <2> QED BY <2>1 DEF DropsHaveReasons, Dropped
<1>4. CASE CleanupStaleRequests
  <2>1. PICK k, q, st :
          /\ Served(queue, stage, k, q, st)
          /\ \A r \in Requests :
               stage'[r] = IF r \in Members(q) \cap Stale THEN "rejected" ELSE st[r]
    BY <1>4, CleanupSteps
  <2>2. \A r \in Requests : Dropped(r) => r \in Stale
    BY <2>1 DEF Dropped, Served
  <2> QED BY <2>2 DEF DropsHaveReasons, Justified, Stale
<1>5. CASE Clear
  <2>1. \A o \in Members(queue) : stage'[o] = "rejected"
    <3>1. Members(queue) \subseteq Requests
      BY MembersOfQueue DEF IInv, Bookkeeping
    <3> QED BY <1>5, <3>1 DEF Clear, ClearQueue
  <2> QED BY <2>1 DEF DropsHaveReasons, Justified
<1>6. CASE Stop
  BY <1>6 DEF Stop, ClearQueue, DropsHaveReasons, Dropped
<1>7. CASE \E r \in Requests : Execution(r)
  BY <1>0, <1>7 DEF Execution, ExecuteSucceeds, ExecuteRateLimited, ExecuteFailsRetryably,
                    ExecuteFails, DropsHaveReasons, Dropped
<1>8. CASE Pause \/ QuotaLow \/ Tick
  BY <1>8 DEF Pause, QuotaLow, Tick, requestVars, DropsHaveReasons, Dropped
<1> QED BY <1>1, <1>2, <1>3, <1>4, <1>5, <1>6, <1>7, <1>8 DEF Next

(* A request that waits is rejected only after its timeout, by a clear, or *)
(* in favour of one of a strictly higher priority while none of a lower    *)
(* one waits.                                                              *)
THEOREM DropsAreJustified == Spec => DropsJustified
<1>1. IInv /\ [Next]_vars => [DropsHaveReasons]_vars
  BY NextDrops
<1>2. [DropsHaveReasons]_vars =>
        [\A r \in Requests :
           stage[r] = "queued" /\ stage'[r] = "rejected" =>
             \/ age[r] > RequestTimeout
             \/ \A o \in Members(queue) : stage'[o] = "rejected"
             \/ /\ \A o \in Members(queue) : priority[o] >= priority[r]
                /\ \E n \in Requests : /\ stage[n] = "idle"
                                       /\ stage'[n] \in {"queued", "active"}
                                       /\ priority'[n] > priority[r]]_vars
  BY DEF DropsHaveReasons, Dropped, Justified
<1> QED BY <1>1, <1>2, SpecIInv, PTL DEF Spec, DropsJustified
=============================================================================
