------------------------- MODULE RateLimiterProofs -------------------------
(***************************************************************************)
(* For every number of requests, priority, slot, queue size and timeout:   *)
(* the variables keep their types, so no more than maxConcurrent requests  *)
(* execute, the counter of used slots is exact, and the queue holds the    *)
(* waiting requests once each.                                             *)
(*                                                                         *)
(* The three need one another.  The counter can be decremented because an  *)
(* executing request was counted; a start increments it by the number of   *)
(* requests that become active because the queue holds k different         *)
(* requests, none of them active, in its first k places.  The inductive    *)
(* invariant is their conjunction.                                         *)
(***************************************************************************)
EXTENDS RateLimiter, FiniteSetTheorems, SequenceTheorems, TLAPS

(* The conjunction, of a queue q, stages st and a counter n.               *)
ActiveIn(st) == {r \in Requests : st[r] = "active"}

Consistent(q, st, n) ==
  /\ q \in Seq(Requests)
  /\ st \in [Requests -> Stages]
  /\ n \in 0..MaxConcurrent
  /\ \A i, j \in DOMAIN q : q[i] = q[j] => i = j
  /\ \A r \in Requests : st[r] = "queued" <=> \E i \in DOMAIN q : q[i] = r
  /\ n = Cardinality(ActiveIn(st))

Bookkeeping == Consistent(queue, stage, activeRequests)

DataOK ==
  /\ priority \in [Requests -> Priorities \cup {0}]
  /\ retries \in [Requests -> 0..RetryCap]
  /\ age \in [Requests -> 0..MaxAge]
  /\ pausedFor \in 0..(MaxPause + 1)

SwitchesOK ==
  /\ isPaused \in BOOLEAN
  /\ autoResume \in BOOLEAN /\ cleanupRunning \in BOOLEAN /\ wakeup \in BOOLEAN

RestOK == DataOK /\ SwitchesOK

IInv == Bookkeeping /\ RestOK

(* The executing requests are finitely many.                               *)
LEMMA ActiveFinite == ASSUME NEW st PROVE IsFiniteSet(ActiveIn(st))
  BY FS_Subset, BoundAssumption DEF ActiveIn, BoundAssumption

(* What the loop of processQueue starts fits the queue and the free slots. *)
LEMMA StartableRange ==
  ASSUME NEW q \in Seq(Requests), NEW n \in 0..MaxConcurrent, NEW paused
  PROVE  /\ Startable(q, n, paused) \in 0..Len(q)
         /\ n + Startable(q, n, paused) \in 0..MaxConcurrent
  BY ConfigAssumption, LenProperties DEF Startable, AtMost, ConfigAssumption

(* The first k requests of a queue without repetitions are k requests.     *)
LEMMA PrefixCardinality ==
  ASSUME NEW q \in Seq(Requests), NEW k \in 0..Len(q),
         \A i, j \in DOMAIN q : q[i] = q[j] => i = j
  PROVE  /\ IsFiniteSet({q[i] : i \in 1..k})
         /\ Cardinality({q[i] : i \in 1..k}) = k
<1> DEFINE P == {q[i] : i \in 1..k}
           f == [i \in 1..k |-> q[i]]
<1>1. /\ \A i \in 1..k : i \in DOMAIN q
      /\ k \in Nat
  BY LenProperties
<1>2. f \in Bijection(1..k, P)
  BY <1>1 DEF Bijection, Injection, Surjection, IsInjective
<1>3. IsFiniteSet(1..k) /\ Cardinality(1..k) = k
  BY <1>1, FS_Interval
<1> QED BY <1>2, <1>3, FS_Bijection DEF ExistsBijection

(* Starting the first k requests of the queue.                             *)
LEMMA LaunchKeeps ==
  ASSUME NEW q, NEW st, NEW n, Consistent(q, st, n),
         NEW k \in 0..Len(q), n + k \in 0..MaxConcurrent
  PROVE  Consistent(SubSeq(q, k + 1, Len(q)), Launched(st, q, k), n + k)
<1> DEFINE rest == SubSeq(q, k + 1, Len(q))
           st2 == Launched(st, q, k)
           P == {q[i] : i \in 1..k}
<1> USE DEF Consistent
<1>1. q \in Seq(Requests) /\ Len(q) \in Nat /\ DOMAIN q = 1..Len(q) /\ k \in Nat
  BY LenProperties
<1>2. \A i \in DOMAIN q : q[i] \in Requests
  BY <1>1, ElementOfSeq
<1>3. /\ rest \in Seq(Requests)
      /\ DOMAIN rest = 1..(Len(q) - k)
      /\ \A i \in 1..(Len(q) - k) : rest[i] = q[k + i] /\ k + i \in DOMAIN q
  BY <1>1, <1>2
<1>4. st2 \in [Requests -> Stages]
  BY DEF Launched, Stages, InFlight
<1>5. \A i, j \in DOMAIN rest : rest[i] = rest[j] => i = j
  BY <1>1, <1>3
<1>6. \A r \in Requests : st2[r] = "queued" <=> \E i \in DOMAIN rest : rest[i] = r
  <2> SUFFICES ASSUME NEW r \in Requests
               PROVE  st2[r] = "queued" <=> \E i \in DOMAIN rest : rest[i] = r
    OBVIOUS
  <2>1. st2[r] = "queued" <=> st[r] = "queued" /\ ~ \E i \in 1..k : q[i] = r
    BY DEF Launched
  <2>2. ASSUME NEW i \in DOMAIN q, q[i] = r, ~ \E m \in 1..k : q[m] = r
        PROVE  \E m \in DOMAIN rest : rest[m] = r
    <3>1. i \in (k + 1)..Len(q)
      BY <1>1, <2>2
    <3>2. i - k \in DOMAIN rest /\ rest[i - k] = r
      BY <1>1, <1>3, <2>2, <3>1
    <3> QED BY <3>2
  <2>3. ASSUME NEW m \in DOMAIN rest, rest[m] = r
        PROVE  st[r] = "queued" /\ ~ \E i \in 1..k : q[i] = r
    <3>1. k + m \in DOMAIN q /\ q[k + m] = r
      BY <1>3, <2>3
    <3>2. \A i \in 1..k : i \in DOMAIN q /\ i # k + m
      BY <1>1, <1>3
    <3> QED BY <3>1, <3>2
  <2> QED BY <2>1, <2>2, <2>3
<1>7. ActiveIn(st2) = ActiveIn(st) \cup P
  BY <1>1, <1>2 DEF ActiveIn, Launched
<1>8. ActiveIn(st) \cap P = {}
  BY <1>1, <1>2 DEF ActiveIn
<1>9. Cardinality(ActiveIn(st2)) = n + k
  <2>1. IsFiniteSet(P) /\ Cardinality(P) = k
    BY <1>1, PrefixCardinality
  <2>2. IsFiniteSet(ActiveIn(st)) /\ Cardinality(ActiveIn(st)) = n
    BY ActiveFinite
  <2>3. Cardinality(ActiveIn(st) \cup P) = n + k - Cardinality({})
    BY <2>1, <2>2, <1>8, FS_Union
  <2> QED BY <2>3, <1>1, <1>7, FS_EmptySet
<1> QED BY <1>3, <1>4, <1>5, <1>6, <1>9

(* The same, for processQueue as the handlers call it.                     *)
LEMMA ProcessQueueKeeps ==
  ASSUME NEW q, NEW st, NEW n, Consistent(q, st, n), NEW paused,
         ProcessQueue(q, st, n, paused)
  PROVE  Bookkeeping'
<1> DEFINE k == Startable(q, n, paused)
<1>1. k \in 0..Len(q) /\ n + k \in 0..MaxConcurrent
  BY StartableRange DEF Consistent
<1>2. Consistent(SubSeq(q, k + 1, Len(q)), Launched(st, q, k), n + k)
  BY <1>1, LaunchKeeps
<1> QED BY <1>2 DEF ProcessQueue, Bookkeeping, Consistent, ActiveIn

-----------------------------------------------------------------------------
(* What the handlers do to the queue and the stages around it.             *)

(* The request at any place of the queue: the set of waiting requests, of  *)
(* a queue that Consistent describes.                                      *)
LEMMA MembersOfQueue ==
  ASSUME NEW q, NEW st, NEW n, Consistent(q, st, n)
  PROVE  /\ Len(q) \in Nat /\ DOMAIN q = 1..Len(q)
         /\ \A i \in DOMAIN q : q[i] \in Requests /\ st[q[i]] = "queued"
         /\ Members(q) = {r \in Requests : st[r] = "queued"}
<1>1. Len(q) \in Nat /\ DOMAIN q = 1..Len(q) /\ \A i \in DOMAIN q : q[i] \in Requests
  BY LenProperties, ElementOfSeq DEF Consistent
<1> QED BY <1>1 DEF Consistent, Members

(* Giving a request that neither waits nor executes a stage of that kind.  *)
LEMMA AsideKeeps ==
  ASSUME NEW q, NEW st, NEW n, Consistent(q, st, n),
         NEW r \in Requests, st[r] \notin {"queued", "active"},
         NEW s \in Stages \ {"queued", "active"}
  PROVE  Consistent(q, [st EXCEPT ![r] = s], n)
<1> DEFINE st2 == [st EXCEPT ![r] = s]
<1>1. ActiveIn(st2) = ActiveIn(st)
  BY DEF ActiveIn, Consistent
<1>2. \A x \in Requests : st2[x] = "queued" <=> st[x] = "queued"
  BY DEF Consistent
<1> QED BY <1>1, <1>2 DEF Consistent

(* An executing request gives its slot back.                               *)
LEMMA SettleKeeps ==
  ASSUME NEW q, NEW st, NEW n, Consistent(q, st, n),
         NEW r \in Requests, st[r] = "active",
         NEW s \in Stages \ {"queued", "active"}
  PROVE  Consistent(q, [st EXCEPT ![r] = s], n - 1)
<1> DEFINE st2 == [st EXCEPT ![r] = s]
<1>1. ActiveIn(st2) = ActiveIn(st) \ {r} /\ r \in ActiveIn(st)
  BY DEF ActiveIn, Consistent
<1>2. IsFiniteSet(ActiveIn(st)) /\ Cardinality(ActiveIn(st)) = n
  BY ActiveFinite DEF Consistent
<1>3. Cardinality(ActiveIn(st2)) = n - 1
  BY <1>1, <1>2, FS_RemoveElement
<1>4. n # 0
  BY <1>1, <1>2, FS_EmptySet
<1>5. n \in 0..MaxConcurrent /\ MaxConcurrent \in Nat
  BY ConfigAssumption DEF Consistent, ConfigAssumption
<1>6. n - 1 \in 0..MaxConcurrent
  BY <1>4, <1>5
<1>7. \A x \in Requests : st2[x] = "queued" <=> st[x] = "queued"
  BY DEF Consistent
<1>8. st2 \in [Requests -> Stages]
  BY DEF Consistent
<1> QED BY <1>3, <1>6, <1>7, <1>8 DEF Consistent

(* q with the request r put at place i, and without the one at place i.    *)
InsertedAt(q, i, r) == SubSeq(q, 1, i - 1) \o <<r>> \o SubSeq(q, i, Len(q))
RemovedAt(q, i) == SubSeq(q, 1, i - 1) \o SubSeq(q, i + 1, Len(q))

(* Which request stands where after an insertion.                          *)
LEMMA Inserted ==
  ASSUME NEW q \in Seq(Requests), NEW r \in Requests,
         NEW i \in 1..(Len(q) + 1)
  PROVE  LET q2 == InsertedAt(q, i, r) IN
         /\ q2 \in Seq(Requests)
         /\ Len(q2) = Len(q) + 1
         /\ DOMAIN q2 = 1..(Len(q) + 1)
         /\ \A j \in 1..(Len(q) + 1) :
              q2[j] = IF j < i THEN q[j] ELSE IF j = i THEN r ELSE q[j - 1]
<1> DEFINE front == SubSeq(q, 1, i - 1)
           back == SubSeq(q, i, Len(q))
           q2 == front \o <<r>> \o back
<1>1. Len(q) \in Nat /\ DOMAIN q = 1..Len(q) /\ i \in Nat
      /\ \A j \in DOMAIN q : q[j] \in Requests
  BY LenProperties, ElementOfSeq
<1>2. front \in Seq(Requests) /\ Len(front) = i - 1
      /\ \A j \in 1..(i - 1) : front[j] = q[j]
  BY <1>1
<1>3. back \in Seq(Requests) /\ Len(back) = Len(q) - i + 1
      /\ \A j \in 1..(Len(q) - i + 1) : back[j] = q[i + j - 1]
  BY <1>1
<1>4. q2 \in Seq(Requests) /\ Len(q2) = Len(q) + 1
      /\ \A j \in 1..(Len(q) + 1) :
           q2[j] = IF j < i THEN q[j] ELSE IF j = i THEN r ELSE q[j - 1]
  <2> DEFINE upTo == front \o <<r>>
  <2>1. <<r>> \in Seq(Requests) /\ Len(<<r>>) = 1 /\ <<r>>[1] = r
    OBVIOUS
  <2>2. upTo \in Seq(Requests) /\ Len(upTo) = i
        /\ \A j \in 1..i : upTo[j] = IF j < i THEN q[j] ELSE r
    BY <1>1, <1>2, <2>1, ConcatProperties
  <2> HIDE DEF upTo, back
  <2>c. i + (Len(q) - i + 1) = Len(q) + 1
    BY <1>1
  <2>3. upTo \o back \in Seq(Requests) /\ Len(upTo \o back) = Len(q) + 1
        /\ \A j \in 1..(Len(q) + 1) :
             (upTo \o back)[j] = IF j <= i THEN upTo[j] ELSE back[j - i]
    <3>1. /\ upTo \o back \in Seq(Requests)
          /\ Len(upTo \o back) = Len(upTo) + Len(back)
          /\ \A j \in 1..(Len(upTo) + Len(back)) :
               (upTo \o back)[j] = IF j <= Len(upTo) THEN upTo[j] ELSE back[j - Len(upTo)]
      BY <1>3, <2>2, ConcatProperties
    <3>2. Len(upTo) = i /\ Len(upTo) + Len(back) = Len(q) + 1
      BY <1>3, <2>2, <2>c
    <3> QED BY <3>1, <3>2
  <2>4. ASSUME NEW j \in 1..(Len(q) + 1)
        PROVE  (upTo \o back)[j] = IF j < i THEN q[j] ELSE IF j = i THEN r ELSE q[j - 1]
    <3>1. CASE j <= i
      BY <1>1, <2>2, <2>3, <3>1
    <3>2. CASE j > i
      <4>1. j - i \in 1..(Len(q) - i + 1) /\ i + (j - i) - 1 = j - 1
        BY <1>1, <3>2
      <4> QED BY <1>1, <1>3, <2>3, <3>2, <4>1
    <3>3. j <= i \/ j > i
      BY <1>1
    <3> QED BY <3>1, <3>2, <3>3
  <2> QED BY <2>3, <2>4 DEF upTo
<1>5. InsertedAt(q, i, r) = q2
  BY DEF InsertedAt
<1> HIDE DEF q2
<1> QED BY <1>1, <1>4, <1>5, LenProperties

(* Putting a request that is nowhere in the queue at place i.              *)
LEMMA InsertKeeps ==
  ASSUME NEW q, NEW st, NEW n, Consistent(q, st, n),
         NEW r \in Requests, st[r] \notin {"queued", "active"},
         NEW i \in 1..(Len(q) + 1)
  PROVE  Consistent(SubSeq(q, 1, i - 1) \o <<r>> \o SubSeq(q, i, Len(q)),
                    [st EXCEPT ![r] = "queued"], n)
<1> DEFINE q2 == SubSeq(q, 1, i - 1) \o <<r>> \o SubSeq(q, i, Len(q))
           st2 == [st EXCEPT ![r] = "queued"]
<1>1. Len(q) \in Nat /\ DOMAIN q = 1..Len(q) /\ i \in Nat
      /\ \A j \in DOMAIN q : q[j] \in Requests /\ q[j] # r
  BY MembersOfQueue
<1>4. q2 \in Seq(Requests) /\ Len(q2) = Len(q) + 1
      /\ \A j \in 1..(Len(q) + 1) :
           q2[j] = IF j < i THEN q[j] ELSE IF j = i THEN r ELSE q[j - 1]
  <2>1. q2 = InsertedAt(q, i, r)
    BY DEF InsertedAt
  <2>2. q \in Seq(Requests)
    BY DEF Consistent
  <2> HIDE DEF q2
  <2> QED BY <2>1, <2>2, Inserted
<1>5. DOMAIN q2 = 1..(Len(q) + 1)
  BY <1>4, <1>1, LenProperties
<1> HIDE DEF q2
<1>6. \A j, m \in DOMAIN q : q[j] = q[m] => j = m
  BY DEF Consistent
<1>7. \A j, m \in DOMAIN q2 : q2[j] = q2[m] => j = m
  <2> SUFFICES ASSUME NEW j \in DOMAIN q2, NEW m \in DOMAIN q2, q2[j] = q2[m], j < m
               PROVE  FALSE
    BY <1>1, <1>5
  <2>1. CASE j < i /\ m < i
    BY <1>1, <1>4, <1>5, <1>6, <2>1
  <2>2. CASE j < i /\ m > i
    BY <1>1, <1>4, <1>5, <1>6, <2>2
  <2>3. CASE j > i
    BY <1>1, <1>4, <1>5, <1>6, <2>3
  <2>4. CASE j = i
    <3>1. m - 1 \in DOMAIN q /\ q2[j] = r /\ q2[m] = q[m - 1]
      BY <1>1, <1>4, <1>5, <2>4
    <3> QED BY <1>1, <3>1
  <2>5. CASE m = i
    <3>1. j \in DOMAIN q /\ q2[m] = r /\ q2[j] = q[j]
      BY <1>1, <1>4, <1>5, <2>5
    <3> QED BY <1>1, <3>1
  <2> QED BY <2>1, <2>2, <2>3, <2>4, <2>5, <1>1, <1>5
<1>8. ASSUME NEW x \in Requests
      PROVE  st2[x] = "queued" <=> \E j \in DOMAIN q2 : q2[j] = x
  <2>1. CASE x = r
    <3>1. st2[x] = "queued"
      BY <2>1 DEF Consistent
    <3>2. i \in DOMAIN q2 /\ q2[i] = x
      BY <1>1, <1>4, <1>5, <2>1
    <3> QED BY <3>1, <3>2
  <2>2. CASE x # r
    <3>1. st2[x] = "queued" <=> \E j \in DOMAIN q : q[j] = x
      BY <2>2 DEF Consistent
    <3>2. ASSUME NEW j \in DOMAIN q, q[j] = x
          PROVE  \E m \in DOMAIN q2 : q2[m] = x
      <4>1. CASE j < i
        BY <1>1, <1>4, <1>5, <3>2, <4>1
      <4>2. CASE j >= i
        <5>1. j + 1 \in DOMAIN q2 /\ q2[j + 1] = x
          BY <1>1, <1>4, <1>5, <3>2, <4>2
        <5> QED BY <5>1
      <4> QED BY <4>1, <4>2, <1>1
    <3>3. ASSUME NEW m \in DOMAIN q2, q2[m] = x
          PROVE  \E j \in DOMAIN q : q[j] = x
      <4>1. CASE m < i
        BY <1>1, <1>4, <1>5, <3>3, <4>1
      <4>2. CASE m > i
        <5>1. m - 1 \in DOMAIN q /\ q[m - 1] = x
          BY <1>1, <1>4, <1>5, <3>3, <4>2
        <5> QED BY <5>1
      <4> QED BY <4>1, <4>2, <1>1, <1>4, <1>5, <2>2, <3>3
    <3> QED BY <3>1, <3>2, <3>3
  <2> QED BY <2>1, <2>2
<1>9. ActiveIn(st2) = ActiveIn(st)
  BY DEF ActiveIn, Consistent
<1>10. st2 \in [Requests -> Stages]
  BY DEF Consistent, Stages, InFlight
<1> QED BY <1>4, <1>7, <1>8, <1>9, <1>10 DEF Consistent, q2

(* The same at the front, for a retry.                                     *)
LEMMA UnshiftKeeps ==
  ASSUME NEW q, NEW st, NEW n, Consistent(q, st, n),
         NEW r \in Requests, st[r] \notin {"queued", "active"}
  PROVE  Consistent(<<r>> \o q, [st EXCEPT ![r] = "queued"], n)
<1>1. Len(q) \in Nat /\ q \in Seq(Requests) /\ 1 \in 1..(Len(q) + 1)
  BY MembersOfQueue DEF Consistent
<1>2. SubSeq(q, 1, 1 - 1) = <<>> /\ SubSeq(q, 1, Len(q)) = q
  BY <1>1, SubSeqEmpty, SubSeqFull
<1>3. <<>> \o <<r>> \o q = <<r>> \o q
  BY <1>1
<1> QED BY <1>1, <1>2, <1>3, InsertKeeps

(* Which request stands where after a removal.                             *)
LEMMA Removed ==
  ASSUME NEW q \in Seq(Requests), NEW i \in DOMAIN q
  PROVE  LET q2 == RemovedAt(q, i) IN
         /\ q2 \in Seq(Requests)
         /\ Len(q2) = Len(q) - 1
         /\ DOMAIN q2 = 1..(Len(q) - 1)
         /\ \A j \in 1..(Len(q) - 1) : q2[j] = IF j < i THEN q[j] ELSE q[j + 1]
<1> DEFINE front == SubSeq(q, 1, i - 1)
           back == SubSeq(q, i + 1, Len(q))
           q2 == front \o back
<1>1. Len(q) \in Nat /\ DOMAIN q = 1..Len(q) /\ i \in 1..Len(q)
      /\ \A j \in DOMAIN q : q[j] \in Requests
  BY LenProperties, ElementOfSeq
<1>2. front \in Seq(Requests) /\ Len(front) = i - 1
      /\ \A j \in 1..(i - 1) : front[j] = q[j]
  BY <1>1
<1>3. back \in Seq(Requests) /\ Len(back) = Len(q) - i
      /\ \A j \in 1..(Len(q) - i) : back[j] = q[i + j]
  BY <1>1
<1>4. q2 \in Seq(Requests) /\ Len(q2) = Len(q) - 1 /\ DOMAIN q2 = 1..(Len(q) - 1)
      /\ \A j \in 1..(Len(q) - 1) : q2[j] = IF j < i THEN q[j] ELSE q[j + 1]
  <2> HIDE DEF front, back
  <2>1. (i - 1) + (Len(q) - i) = Len(q) - 1
    BY <1>1
  <2>2. q2 \in Seq(Requests) /\ Len(q2) = Len(q) - 1
        /\ \A j \in 1..(Len(q) - 1) :
             q2[j] = IF j <= i - 1 THEN front[j] ELSE back[j - (i - 1)]
    <3>1. /\ q2 \in Seq(Requests) /\ Len(q2) = Len(front) + Len(back)
          /\ \A j \in 1..(Len(front) + Len(back)) :
               q2[j] = IF j <= Len(front) THEN front[j] ELSE back[j - Len(front)]
      BY <1>2, <1>3, ConcatProperties
    <3> HIDE DEF q2
    <3> QED BY <3>1, <1>2, <1>3, <2>1
  <2> HIDE DEF q2
  <2>3. ASSUME NEW j \in 1..(Len(q) - 1), j >= i
        PROVE  back[j - (i - 1)] = q[j + 1]
    <3>1. j - (i - 1) \in 1..(Len(q) - i) /\ i + (j - (i - 1)) = j + 1
      BY <1>1, <2>3
    <3> QED BY <1>3, <3>1
  <2>4. ASSUME NEW j \in 1..(Len(q) - 1)
        PROVE  q2[j] = IF j < i THEN q[j] ELSE q[j + 1]
    BY <1>1, <1>2, <2>2, <2>3
  <2> QED BY <2>2, <2>4, LenProperties
<1>5. RemovedAt(q, i) = q2
  BY DEF RemovedAt
<1> HIDE DEF q2
<1> QED BY <1>4, <1>5

(* Taking the request at place i out of the queue, rejected.               *)
LEMMA RemoveKeeps ==
  ASSUME NEW q, NEW st, NEW n, Consistent(q, st, n), NEW i \in DOMAIN q
  PROVE  Consistent(SubSeq(q, 1, i - 1) \o SubSeq(q, i + 1, Len(q)),
                    [st EXCEPT ![q[i]] = "rejected"], n)
<1> DEFINE q2 == SubSeq(q, 1, i - 1) \o SubSeq(q, i + 1, Len(q))
           st2 == [st EXCEPT ![q[i]] = "rejected"]
<1>1. Len(q) \in Nat /\ DOMAIN q = 1..Len(q) /\ i \in 1..Len(q)
      /\ \A j \in DOMAIN q : q[j] \in Requests
  BY MembersOfQueue
<1>4. q2 \in Seq(Requests) /\ DOMAIN q2 = 1..(Len(q) - 1)
      /\ \A j \in 1..(Len(q) - 1) : q2[j] = IF j < i THEN q[j] ELSE q[j + 1]
  <2>1. q2 = RemovedAt(q, i)
    BY DEF RemovedAt
  <2>2. q \in Seq(Requests)
    BY DEF Consistent
  <2> HIDE DEF q2
  <2> QED BY <2>1, <2>2, Removed
<1> HIDE DEF q2
<1>5. \A j, m \in DOMAIN q : q[j] = q[m] => j = m
  BY DEF Consistent
<1>6. \A j, m \in DOMAIN q2 : q2[j] = q2[m] => j = m
  <2> SUFFICES ASSUME NEW j \in DOMAIN q2, NEW m \in DOMAIN q2, q2[j] = q2[m], j < m
               PROVE  FALSE
    BY <1>1, <1>4
  <2>1. CASE m < i
    BY <1>1, <1>4, <1>5, <2>1
  <2>2. CASE j < i /\ m >= i
    BY <1>1, <1>4, <1>5, <2>2
  <2>3. CASE j >= i
    <3>1. /\ j + 1 \in DOMAIN q /\ q2[j] = q[j + 1]
          /\ m + 1 \in DOMAIN q /\ q2[m] = q[m + 1]
      BY <1>1, <1>4, <2>3
    <3>2. j + 1 = m + 1
      BY <1>5, <3>1
    <3> QED BY <1>1, <1>4, <3>2
  <2> QED BY <2>1, <2>2, <2>3, <1>1, <1>4
<1>7. ASSUME NEW x \in Requests
      PROVE  st2[x] = "queued" <=> \E j \in DOMAIN q2 : q2[j] = x
  <2>1. st2[x] = "queued" <=> x # q[i] /\ \E j \in DOMAIN q : q[j] = x
    BY <1>1 DEF Consistent
  <2>2. ASSUME NEW j \in DOMAIN q, q[j] = x, x # q[i]
        PROVE  \E m \in DOMAIN q2 : q2[m] = x
    <3>1. CASE j < i
      BY <1>1, <1>4, <2>2, <3>1
    <3>2. CASE j > i
      <4>1. j - 1 \in DOMAIN q2 /\ q2[j - 1] = x
        BY <1>1, <1>4, <2>2, <3>2
      <4> QED BY <4>1
    <3> QED BY <3>1, <3>2, <1>1, <2>2
  <2>3. ASSUME NEW m \in DOMAIN q2, q2[m] = x
        PROVE  x # q[i] /\ \E j \in DOMAIN q : q[j] = x
    <3>1. CASE m < i
      BY <1>1, <1>4, <1>5, <2>3, <3>1
    <3>2. CASE m >= i
      <4>1. m + 1 \in DOMAIN q /\ m + 1 # i /\ q[m + 1] = x
        BY <1>1, <1>4, <2>3, <3>2
      <4> QED BY <4>1, <1>5
    <3> QED BY <3>1, <3>2, <1>1, <1>4
  <2> QED BY <2>1, <2>2, <2>3
<1>8. ActiveIn(st2) = ActiveIn(st)
  BY <1>1, MembersOfQueue DEF ActiveIn, Consistent
<1>9. st2 \in [Requests -> Stages]
  BY DEF Consistent, Stages, Settled
<1> QED BY <1>4, <1>6, <1>7, <1>8, <1>9 DEF Consistent, q2

(* Filtering the queue and rejecting what is filtered out.                 *)
LEMMA FilterKeeps ==
  ASSUME NEW q, NEW st, NEW n, Consistent(q, st, n), NEW gone,
         NEW s \in Seq(Requests), IsFiltered(s, q, gone)
  PROVE  Consistent(s, [r \in Requests |->
                          IF r \in Members(q) \cap gone THEN "rejected" ELSE st[r]], n)
<1> DEFINE st2 == [r \in Requests |->
                     IF r \in Members(q) \cap gone THEN "rejected" ELSE st[r]]
<1>1. Len(q) \in Nat /\ DOMAIN q = 1..Len(q)
      /\ Members(q) = {r \in Requests : st[r] = "queued"}
  BY MembersOfQueue
<1>2. DOMAIN s = 1..Len(s) /\ Len(s) \in Nat
  BY LenProperties
<1>3. ASSUME NEW i \in DOMAIN s, NEW j \in DOMAIN s, i < j
      PROVE  s[i] # s[j]
  <2>1. PICK m \in DOMAIN q, l \in DOMAIN q : m < l /\ s[i] = q[m] /\ s[j] = q[l]
    BY <1>3 DEF IsFiltered
  <2> QED BY <2>1, <1>1 DEF Consistent
<1>4. \A i, j \in DOMAIN s : s[i] = s[j] => i = j
  BY <1>2, <1>3
<1>5. Members(s) = {r \in Requests : st2[r] = "queued"}
  BY <1>1 DEF IsFiltered
<1>6. \A r \in Requests : st2[r] = "queued" <=> \E i \in DOMAIN s : s[i] = r
  BY <1>5 DEF Members
<1>7. ActiveIn(st2) = ActiveIn(st)
  BY <1>1 DEF ActiveIn
<1>8. st2 \in [Requests -> Stages]
  BY DEF Consistent, Stages, Settled
<1> QED BY <1>4, <1>6, <1>7, <1>8 DEF Consistent

(* Clearing the queue.                                                     *)
LEMMA ClearKeeps ==
  ASSUME Bookkeeping, NEW outcome \in Stages \ {"queued", "active"},
         ClearQueue(outcome), UNCHANGED activeRequests
  PROVE  Bookkeeping'
<1>1. Members(queue) = {r \in Requests : stage[r] = "queued"}
  BY MembersOfQueue DEF Bookkeeping
<1>2. stage' \in [Requests -> Stages] /\ queue' \in Seq(Requests) /\ DOMAIN queue' = {}
  BY DEF ClearQueue, Bookkeeping, Consistent
<1>3. \A r \in Requests : stage'[r] # "queued"
  BY <1>1 DEF ClearQueue
<1>4. ActiveIn(stage') = ActiveIn(stage)
  BY <1>1 DEF ClearQueue, ActiveIn
<1> QED BY <1>2, <1>3, <1>4 DEF Bookkeeping, Consistent

-----------------------------------------------------------------------------
(* The inductive invariant.                                                *)

(* A limiter that was just made satisfies the invariant.                   *)
LEMMA InitIInv == Init => IInv
<1> SUFFICES ASSUME Init PROVE IInv
  OBVIOUS
<1>1. ActiveIn(stage) = {}
  BY DEF Init, ActiveIn
<1>2. Bookkeeping
  BY <1>1, FS_EmptySet, ConfigAssumption
  DEF Init, Bookkeeping, Consistent, Stages, ConfigAssumption
<1>3. DataOK
  <2>1. 0 \in 0..RetryCap /\ 0 \in 0..MaxAge /\ 0 \in 0..(MaxPause + 1)
    BY ConfigAssumption, BoundAssumption DEF ConfigAssumption, BoundAssumption
  <2> QED BY <2>1 DEF Init, DataOK
<1>4. SwitchesOK
  BY DEF Init, SwitchesOK
<1> QED BY <1>2, <1>3, <1>4 DEF IInv, RestOK

(* Admitting a new request into a queue q whose requests have stages st.   *)
LEMMA AdmitKeeps ==
  ASSUME NEW q, NEW st, Consistent(q, st, activeRequests),
         NEW r \in Requests, st[r] \notin {"queued", "active"}, NEW p, Admit(r, p, q, st)
  PROVE  Bookkeeping'
<1>1. PICK i \in 1..(Len(q) + 1) :
        ProcessQueue(SubSeq(q, 1, i - 1) \o <<r>> \o SubSeq(q, i, Len(q)),
                     [st EXCEPT ![r] = "queued"], activeRequests, isPaused)
  BY DEF Admit
<1>2. Consistent(SubSeq(q, 1, i - 1) \o <<r>> \o SubSeq(q, i, Len(q)),
                 [st EXCEPT ![r] = "queued"], activeRequests)
  BY InsertKeeps
<1> QED BY <1>1, <1>2, ProcessQueueKeeps

(* A request that waits, or is refused.                                    *)
LEMMA EnqueueKeeps ==
  ASSUME IInv, NEW r \in Requests, NEW p \in Priorities, Enqueue(r, p)
  PROVE  IInv'
<1> USE DEF IInv
<1>1. RestOK'
  BY DEF RestOK, DataOK, SwitchesOK, Enqueue, pauseVars, timerVars
<1>2. Bookkeeping'
  <2>1. Consistent(queue, stage, activeRequests) /\ stage[r] = "idle"
    BY DEF Bookkeeping, Enqueue
  <2>2. CASE EnqueueAdmitted(r, p)
    BY <2>1, <2>2, AdmitKeeps DEF EnqueueAdmitted
  <2>3. CASE EnqueueEvicting(r, p)
    <3> DEFINE without(i) == SubSeq(queue, 1, i - 1) \o SubSeq(queue, i + 1, Len(queue))
               evicted(i) == [stage EXCEPT ![queue[i]] = "rejected"]
    <3>1. PICK i \in DOMAIN queue : Admit(r, p, without(i), evicted(i))
      BY <2>3 DEF EnqueueEvicting
    <3>2. Consistent(without(i), evicted(i), activeRequests)
      BY <2>1, RemoveKeeps
    <3>3. evicted(i)[r] = "idle"
      BY <2>1, MembersOfQueue DEF Consistent
    <3> HIDE DEF without, evicted
    <3> QED BY <3>1, <3>2, <3>3, AdmitKeeps
  <2>4. CASE EnqueueRefused(r, p)
    <3>1. Consistent(queue, [stage EXCEPT ![r] = "rejected"], activeRequests)
      BY <2>1, AsideKeeps DEF Stages, Settled
    <3> QED BY <3>1, <2>4 DEF EnqueueRefused, Bookkeeping
  <2> QED BY <2>2, <2>3, <2>4 DEF Enqueue
<1> QED BY <1>1, <1>2

(* Every way an execution can end.                                         *)
LEMMA ExecutionKeeps ==
  ASSUME IInv, NEW r \in Requests, Execution(r)
  PROVE  IInv'
<1> USE DEF IInv
<1> USE DEF Execution, ExecuteSucceeds, ExecuteRateLimited, ExecuteFailsRetryably,
            ExecuteFails, PauseSwitch, pauseVars, timerVars
<1>a. 0 \in 0..(MaxPause + 1)
  BY ConfigAssumption DEF ConfigAssumption
<1>b. DataOK'
  BY <1>a DEF RestOK, DataOK
<1>c. SwitchesOK'
  BY DEF RestOK, SwitchesOK
<1>1. RestOK'
  BY <1>b, <1>c DEF RestOK
<1>2. PICK s \in Stages \ {"queued", "active"} :
        stage' = [stage EXCEPT ![r] = s]
  BY DEF Stages, Settled, InFlight
<1>3. stage[r] = "active" /\ queue' = queue /\ activeRequests' = activeRequests - 1
  OBVIOUS
<1>4. Consistent(queue, [stage EXCEPT ![r] = s], activeRequests - 1)
  BY <1>3, SettleKeeps DEF Bookkeeping
<1>5. Bookkeeping'
  BY <1>2, <1>3, <1>4 DEF Bookkeeping
<1> QED BY <1>1, <1>5

(* The types of what a retry writes.                                       *)
LEMMA RetriedType ==
  ASSUME RestOK, NEW r \in Requests, Retried(r)
  PROVE  retries' \in [Requests -> 0..RetryCap]
  BY BoundAssumption DEF RestOK, DataOK, Retried, AtMost, BoundAssumption

(* The return of a request from its backoff.                               *)
LEMMA BackoffKeeps ==
  ASSUME IInv, NEW r \in Requests, BackoffElapsed(r)
  PROVE  IInv'
<1> USE DEF IInv
<1>1. RestOK'
  BY RetriedType DEF RestOK, DataOK, SwitchesOK, BackoffElapsed, pauseVars
<1>2. stage[r] = "backoff" /\ Consistent(queue, stage, activeRequests)
  BY DEF BackoffElapsed, Bookkeeping
<1>3. Consistent(<<r>> \o queue, [stage EXCEPT ![r] = "queued"], activeRequests)
  BY <1>2, UnshiftKeeps
<1>4. Bookkeeping'
  BY <1>3, ProcessQueueKeeps DEF BackoffElapsed
<1> QED BY <1>1, <1>4

(* After a 429 the queue is started first and the retry put in front of    *)
(* what remains.                                                           *)
LEMMA RateLimitBackoffKeeps ==
  ASSUME IInv, NEW r \in Requests, RateLimitBackoffElapsed(r)
  PROVE  IInv'
<1> DEFINE k == Startable(queue, activeRequests, FALSE)
           rest == SubSeq(queue, k + 1, Len(queue))
           st == Launched(stage, queue, k)
<1> USE DEF IInv
<1>1. RestOK'
  <2>1. 0 \in 0..(MaxPause + 1)
    BY ConfigAssumption DEF ConfigAssumption
  <2>2. DataOK'
    BY <2>1, RetriedType DEF RestOK, DataOK, RateLimitBackoffElapsed, ResumeSwitch
  <2>3. SwitchesOK'
    BY DEF RestOK, SwitchesOK, RateLimitBackoffElapsed, ResumeSwitch
  <2> QED BY <2>2, <2>3 DEF RestOK
<1>2. stage[r] = "rateLimitBackoff" /\ Consistent(queue, stage, activeRequests)
  BY DEF RateLimitBackoffElapsed, Bookkeeping
<1>3. k \in 0..Len(queue) /\ activeRequests + k \in 0..MaxConcurrent
  BY <1>2, StartableRange DEF Consistent
<1>4. Consistent(rest, st, activeRequests + k)
  BY <1>2, <1>3, LaunchKeeps
<1>5. st[r] = "rateLimitBackoff"
  <2>1. \A i \in 1..k : i \in DOMAIN queue /\ queue[i] # r
    <3>1. DOMAIN queue = 1..Len(queue) /\ Len(queue) \in Nat
      BY <1>2, MembersOfQueue
    <3>2. \A i \in DOMAIN queue : stage[queue[i]] = "queued"
      BY <1>2, MembersOfQueue
    <3> HIDE DEF k
    <3> QED BY <1>2, <1>3, <3>1, <3>2
  <2> QED BY <1>2, <2>1 DEF Launched
<1>6. ProcessQueue(<<r>> \o rest, [st EXCEPT ![r] = "queued"], activeRequests + k, FALSE)
  BY DEF RateLimitBackoffElapsed
<1> HIDE DEF rest, st, k
<1>7. Consistent(<<r>> \o rest, [st EXCEPT ![r] = "queued"], activeRequests + k)
  BY <1>4, <1>5, UnshiftKeeps
<1>8. Bookkeeping'
  BY <1>6, <1>7, ProcessQueueKeeps
<1> QED BY <1>1, <1>8

(* A resume, a timer that fires, a low quota: the queue is processed or    *)
(* left alone.                                                             *)
LEMMA SwitchingKeeps ==
  ASSUME IInv,
         Pause \/ Resume \/ QuotaLow \/ AutoResumeFires \/ WakeupFires
  PROVE  IInv'
<1> USE DEF IInv
<1>1. RestOK'
  <2> USE DEF Pause, Resume, QuotaLow, AutoResumeFires, WakeupFires, ResumeQueue,
              PauseSwitch, ResumeSwitch, requestVars, pauseVars, timerVars
  <2>1. 0 \in 0..(MaxPause + 1)
    BY ConfigAssumption DEF ConfigAssumption
  <2>2. DataOK'
    BY <2>1 DEF RestOK, DataOK
  <2>3. SwitchesOK'
    BY DEF RestOK, SwitchesOK
  <2> QED BY <2>2, <2>3 DEF RestOK
<1>2. Consistent(queue, stage, activeRequests)
  BY DEF Bookkeeping
<1>3. CASE \E paused : ProcessQueue(queue, stage, activeRequests, paused)
  BY <1>1, <1>2, <1>3, ProcessQueueKeeps
<1>4. CASE UNCHANGED <<queue, stage, activeRequests>>
  BY <1>1, <1>2, <1>4 DEF Bookkeeping
<1>5. \/ \E paused : ProcessQueue(queue, stage, activeRequests, paused)
      \/ UNCHANGED <<queue, stage, activeRequests>>
  BY DEF Pause, Resume, QuotaLow, AutoResumeFires, WakeupFires, ResumeQueue, requestVars
<1> QED BY <1>3, <1>4, <1>5

(* The cleanup of requests that waited too long.                           *)
LEMMA CleanupKeeps ==
  ASSUME IInv, CleanupStaleRequests
  PROVE  IInv'
<1> DEFINE k == IF WatchdogDue THEN Startable(queue, activeRequests, FALSE) ELSE 0
           waiting == StillWaiting(k)
           started == Launched(stage, queue, k)
<1> USE DEF IInv
<1>1. RestOK'
  <2>1. 0 \in 0..(MaxPause + 1)
    BY ConfigAssumption DEF ConfigAssumption
  <2>2. DataOK'
    BY <2>1 DEF RestOK, DataOK, CleanupStaleRequests, ResumeSwitch, pauseVars
  <2>3. SwitchesOK'
    BY DEF RestOK, SwitchesOK, CleanupStaleRequests, ResumeSwitch, pauseVars, timerVars
  <2> QED BY <2>2, <2>3 DEF RestOK
<1>2. Consistent(queue, stage, activeRequests)
  BY DEF Bookkeeping
<1>3. k \in 0..Len(queue) /\ activeRequests + k \in 0..MaxConcurrent
  <2>1. CASE WatchdogDue
    BY <1>2, <2>1, StartableRange DEF Consistent
  <2>2. CASE ~WatchdogDue
    BY <1>2, <2>2, MembersOfQueue, ConfigAssumption DEF Consistent, ConfigAssumption
  <2> QED BY <2>1, <2>2
<1>4. Consistent(waiting, started, activeRequests + k)
  BY <1>2, <1>3, LaunchKeeps DEF StillWaiting
<1>5. PICK s \in SequencesUpTo(Len(waiting)) :
        IsFiltered(s, waiting, Stale) /\ queue' = s
  BY DEF CleanupStaleRequests
<1>6. s \in Seq(Requests)
  <2>1. Len(waiting) \in Nat
    BY <1>4, MembersOfQueue
  <2>2. PICK m \in 0..Len(waiting) : s \in [1..m -> Requests]
    BY <1>5 DEF SequencesUpTo
  <2> QED BY <2>1, <2>2
<1>7. /\ activeRequests' = activeRequests + k
      /\ stage' = [r \in Requests |->
                     IF r \in Members(waiting) \cap Stale THEN "rejected" ELSE started[r]]
  BY DEF CleanupStaleRequests
<1> HIDE DEF waiting, started, k
<1>8. Bookkeeping'
  BY <1>4, <1>5, <1>6, <1>7, FilterKeeps DEF Bookkeeping
<1> QED BY <1>1, <1>8

(* The clock.                                                              *)
LEMMA TickKeeps ==
  ASSUME IInv, Tick
  PROVE  IInv'
<1> USE DEF IInv
<1>1. Bookkeeping'
  BY DEF Tick, Bookkeeping
<1>2. DataOK'
  <2>1. age' \in [Requests -> 0..MaxAge]
    BY BoundAssumption, ConfigAssumption
    DEF Tick, RestOK, DataOK, AtMost, BoundAssumption, ConfigAssumption
  <2>2. pausedFor' \in 0..(MaxPause + 1)
    BY ConfigAssumption DEF Tick, RestOK, DataOK, AtMost, ConfigAssumption
  <2> QED BY <2>1, <2>2 DEF Tick, RestOK, DataOK
<1>3. SwitchesOK'
  BY DEF Tick, RestOK, SwitchesOK, timerVars
<1> QED BY <1>1, <1>2, <1>3 DEF RestOK

(* The end of all that waits.                                              *)
LEMMA ClearStopKeeps ==
  ASSUME IInv, Clear \/ Stop
  PROVE  IInv'
<1> USE DEF IInv
<1>1. PICK outcome \in Stages \ {"queued", "active"} :
        ClearQueue(outcome) /\ UNCHANGED activeRequests
  BY DEF Clear, Stop, Stages, Settled, InFlight
<1>2. Bookkeeping'
  BY <1>1, ClearKeeps
<1>3. RestOK'
  BY DEF Clear, Stop, RestOK, DataOK, SwitchesOK, pauseVars, timerVars
<1> QED BY <1>2, <1>3

(* No step, of any action, breaks the inductive invariant.                 *)
LEMMA NextIInv == IInv /\ [Next]_vars => IInv'
<1> SUFFICES ASSUME IInv, [Next]_vars PROVE IInv'
  OBVIOUS
<1>1. CASE \E r \in Requests, p \in Priorities : Enqueue(r, p)
  BY <1>1, EnqueueKeeps
<1>2. CASE \E r \in Requests : Execution(r)
  BY <1>2, ExecutionKeeps
<1>3. CASE \E r \in Requests : BackoffElapsed(r)
  BY <1>3, BackoffKeeps
<1>4. CASE \E r \in Requests : RateLimitBackoffElapsed(r)
  BY <1>4, RateLimitBackoffKeeps
<1>5. CASE Pause \/ Resume \/ QuotaLow \/ AutoResumeFires \/ WakeupFires
  BY <1>5, SwitchingKeeps
<1>6. CASE CleanupStaleRequests
  BY <1>6, CleanupKeeps
<1>7. CASE Tick
  BY <1>7, TickKeeps
<1>8. CASE Clear \/ Stop
  BY <1>8, ClearStopKeeps
<1>9. CASE UNCHANGED vars
  BY <1>9 DEF vars, requestVars, pauseVars, timerVars, IInv, Bookkeeping, RestOK,
              DataOK, SwitchesOK
<1> QED BY <1>1, <1>2, <1>3, <1>4, <1>5, <1>6, <1>7, <1>8, <1>9 DEF Next

(* What the invariant implies.                                             *)
LEMMA IInvImplies == IInv => TypeOK /\ ActiveCount /\ QueueConsistent
<1> SUFFICES ASSUME IInv PROVE TypeOK /\ ActiveCount /\ QueueConsistent
  OBVIOUS
<1> USE DEF IInv, Bookkeeping
<1>1. TypeOK
  BY DEF TypeOK, Consistent, RestOK, DataOK, SwitchesOK
<1>2. ActiveCount
  BY DEF ActiveCount, Active, ActiveIn, Consistent
<1>3. QueueConsistent
  BY MembersOfQueue DEF QueueConsistent, Consistent
<1> QED BY <1>1, <1>2, <1>3

(* It holds in every state.                                                *)
LEMMA SpecIInv == Spec => []IInv
  BY InitIInv, NextIInv, PTL DEF Spec

(* Type correctness; with it, at most maxConcurrent slots are in use.      *)
THEOREM TypeCorrect == Spec => []TypeOK
  BY SpecIInv, IInvImplies, PTL

(* The slot counter is the number of executing requests.                   *)
THEOREM SlotsExact == Spec => []ActiveCount
  BY SpecIInv, IInvImplies, PTL

(* The queue holds the waiting requests, each once.                        *)
THEOREM QueueExact == Spec => []QueueConsistent
  BY SpecIInv, IInvImplies, PTL
=============================================================================
