------------------------ MODULE FileDownloadsProofs ------------------------
(***************************************************************************)
(* Proofs of the safety properties of FileDownloads.                       *)
(*                                                                         *)
(* getUniqueFilePath counts up until a name is free.  The model has a      *)
(* suffix more than there are calls, so the search must be shown to end:   *)
(* every file was made for a call of its own (Budget), so there are fewer  *)
(* files than suffixes, some suffix is free, and one of those is the least *)
(* (UniquePathIsFree).  Everything said of processQueue follows from       *)
(* Advanced: the queue is cut in two and the front of it runs, each member *)
(* on a path that had no file.                                             *)
(*                                                                         *)
(* IInv is the invariant of the queue and the slots.  FilesInv adds what   *)
(* the files hold: a running download that shares its path with no other   *)
(* is the only one that writes there, and no recorded file is there.       *)
(***************************************************************************)
EXTENDS FileDownloads, FiniteSetTheorems, SequenceTheorems, WellFoundedInduction, TLAPS

(* Of some natural numbers one is the least.                               *)
LEMMA LeastNatural ==
  ASSUME NEW S \in SUBSET Nat, S # {}
  PROVE  \E m \in S : \A k \in S : m <= k
<1> DEFINE T == {0..k : k \in S}
<1>1. T \subseteq FiniteSubsetsOf(Nat) /\ T # {}
  <2>1. \A k \in S : 0..k \in SUBSET Nat /\ IsFiniteSet(0..k)
    BY FS_Interval
  <2> QED BY <2>1 DEF FiniteSubsetsOf
<1>2. IsWellFoundedOn(StrictSubsetOrdering(Nat), FiniteSubsetsOf(Nat))
  BY FS_StrictSubsetOrderingWellFounded
<1>3. PICK x \in T : \A y \in T : ~ (<<y, x>> \in StrictSubsetOrdering(Nat))
  BY <1>1, <1>2, WFMin
<1>4. PICK m \in S : x = 0..m
  BY <1>3
<1>5. ASSUME NEW k \in S, ~(m <= k)
      PROVE  FALSE
  <2>1. 0..k \subseteq 0..m /\ 0..k # 0..m
    <3>1. m \in 0..m /\ m \notin 0..k
      BY <1>5
    <3> QED BY <1>5, <3>1
  <2>2. <<0..k, x>> \in StrictSubsetOrdering(Nat)
    BY <1>4, <2>1 DEF StrictSubsetOrdering
  <2>3. 0..k \in T
    OBVIOUS
  <2> QED BY <1>3, <2>2, <2>3
<1> QED BY <1>5

-----------------------------------------------------------------------------
(* Free names.                                                             *)

OnDisk(files) == {p \in Paths : files[p] # None}

(* Fewer files than suffixes: getUniqueFilePath finds a name no file has.  *)
LEMMA UniquePathIsFree ==
  ASSUME IsFiniteSet(OnDisk(disk)), Cardinality(OnDisk(disk)) <= Cardinality(Calls),
         NEW d \in Downloads
  PROVE  /\ UniquePath(d) \in Paths
         /\ disk[UniquePath(d)] = None
<1> DEFINE n == NameOf[d]
           free == {k \in Suffixes : disk[<<n, k>>] = None}
<1>1. n \in Names /\ Cardinality(Calls) \in Nat
  BY ConfigAssumption, BoundAssumption, FS_CardinalityType
  DEF ConfigAssumption, BoundAssumption
<1>2. free # {}
  <2> SUFFICES ASSUME \A k \in Suffixes : disk[<<n, k>>] # None
               PROVE  FALSE
    OBVIOUS
  <2> DEFINE f == [k \in Suffixes |-> <<n, k>>]
  <2>1. f \in Injection(Suffixes, OnDisk(disk))
    <3>1. \A k \in Suffixes : <<n, k>> \in OnDisk(disk)
      BY <1>1 DEF OnDisk, Paths
    <3> HIDE DEF n
    <3>2. \A k, l \in Suffixes : f[k] = f[l] => k = l
      OBVIOUS
    <3> QED BY <3>1, <3>2 DEF Injection, IsInjective
  <2>2. Cardinality(Suffixes) <= Cardinality(OnDisk(disk))
    BY <2>1, FS_Injection
  <2>3. Cardinality(Suffixes) = Cardinality(Calls) + 1
    BY <1>1, FS_Interval DEF Suffixes
  <2>4. Cardinality(OnDisk(disk)) \in Nat
    BY FS_CardinalityType
  <2> QED BY <1>1, <2>2, <2>3, <2>4
<1>3. free \in SUBSET Nat
  BY <1>1 DEF Suffixes
<1>4. PICK m \in free : \A k \in free : m <= k
  BY <1>2, <1>3, LeastNatural
<1> DEFINE Unique(p) == /\ p[1] = NameOf[d] /\ disk[p] = None
                        /\ \A k \in Suffixes : k < p[2] => disk[<<NameOf[d], k>>] # None
<1>5. <<n, m>> \in Paths /\ Unique(<<n, m>>)
  <2>1. \A k \in Suffixes : k < m => disk[<<n, k>>] # None
    <3> SUFFICES ASSUME NEW k \in Suffixes, k < m, disk[<<n, k>>] = None
                 PROVE  FALSE
      OBVIOUS
    <3>1. k \in free /\ m <= k
      BY <1>4
    <3> QED BY <1>3, <3>1
  <2> QED BY <1>1, <1>4, <2>1 DEF Paths
<1>6. UniquePath(d) = CHOOSE p \in Paths : Unique(p)
  BY DEF UniquePath
<1> HIDE DEF Unique
<1>7. UniquePath(d) \in Paths /\ Unique(UniquePath(d))
  BY <1>5, <1>6
<1> QED BY <1>7 DEF Unique

-----------------------------------------------------------------------------
(* Queues that hold each download once.                                    *)

NoRepeats(q) == \A i, j \in DOMAIN q : q[i] = q[j] => i = j

(* The members of a queue are downloads, at most as many as it is long.    *)
LEMMA MembersOfQueue ==
  ASSUME NEW q \in Seq(Downloads)
  PROVE  /\ Len(q) \in Nat /\ DOMAIN q = 1..Len(q)
         /\ Members(q) \subseteq Downloads
         /\ q # <<>> => Len(q) # 0
         /\ q = <<>> => Members(q) = {}
<1>1. Len(q) \in Nat /\ DOMAIN q = 1..Len(q) /\ \A i \in DOMAIN q : q[i] \in Downloads
  BY LenProperties, ElementOfSeq
<1>2. q # <<>> => Len(q) # 0
  BY EmptySeq
<1>3. q = <<>> => Members(q) = {}
  BY DEF Members
<1> QED BY <1>1, <1>2, <1>3 DEF Members

(* A queue cut in two after k places.                                      *)
LEMMA QueueCut ==
  ASSUME NEW q \in Seq(Downloads), NoRepeats(q), NEW k \in 0..Len(q)
  PROVE  LET front == SubSeq(q, 1, k)
             back  == SubSeq(q, k + 1, Len(q))
         IN  /\ back \in Seq(Downloads) /\ Len(back) = Len(q) - k /\ NoRepeats(back)
             /\ Members(front) \subseteq Members(q)
             /\ Members(back) = Members(q) \ Members(front)
             /\ IsFiniteSet(Members(front)) /\ Cardinality(Members(front)) = k
<1> DEFINE front == SubSeq(q, 1, k)
           back  == SubSeq(q, k + 1, Len(q))
<1>1. Len(q) \in Nat /\ DOMAIN q = 1..Len(q) /\ k \in Nat /\ k <= Len(q)
      /\ \A i \in 1..Len(q) : q[i] \in Downloads
  BY MembersOfQueue, ElementOfSeq
<1>2. /\ front \in Seq(Downloads) /\ DOMAIN front = 1..k
      /\ \A i \in 1..k : front[i] = q[i] /\ i \in DOMAIN q
  BY <1>1
<1>3. /\ back \in Seq(Downloads) /\ DOMAIN back = 1..(Len(q) - k)
      /\ \A i \in 1..(Len(q) - k) : back[i] = q[k + i] /\ k + i \in DOMAIN q
  BY <1>1
<1>4. Len(back) = Len(q) - k
  <2>1. k + 1 \in Int /\ Len(q) \in Int /\ \A i \in (k + 1)..Len(q) : q[i] \in Downloads
    BY <1>1
  <2>2. Len(back) = IF k + 1 <= Len(q) THEN Len(q) - (k + 1) + 1 ELSE 0
    BY <2>1, SubSeqProperties
  <2>3. \A l, m \in Nat : m <= l => (IF m + 1 <= l THEN l - (m + 1) + 1 ELSE 0) = l - m
    OBVIOUS
  <2> HIDE DEF back
  <2> QED BY <1>1, <2>2, <2>3
<1> HIDE DEF front, back
<1>5. NoRepeats(back)
  <2> SUFFICES ASSUME NEW i \in DOMAIN back, NEW j \in DOMAIN back, back[i] = back[j]
               PROVE  i = j
    BY DEF NoRepeats
  <2>1. k + i \in DOMAIN q /\ k + j \in DOMAIN q /\ q[k + i] = q[k + j]
    BY <1>3
  <2>2. k + i = k + j /\ i \in Int /\ j \in Int
    BY <1>3, <2>1 DEF NoRepeats
  <2> QED BY <1>1, <2>2
<1>6. Members(front) \subseteq Members(q)
  BY <1>2 DEF Members
<1>7. Members(back) = Members(q) \ Members(front)
  <2>1. ASSUME NEW i \in DOMAIN back
        PROVE  back[i] \in Members(q) \ Members(front)
    <3>1. i \in 1..(Len(q) - k) /\ k + i \in DOMAIN q /\ back[i] = q[k + i]
      BY <1>3, <2>1
    <3>2. \A j \in 1..k : j # k + i
      BY <1>1, <3>1
    <3>3. \A j \in 1..k : front[j] # back[i]
      BY <1>2, <3>1, <3>2 DEF NoRepeats
    <3> QED BY <1>2, <3>1, <3>3 DEF Members
  <2>2. ASSUME NEW i \in DOMAIN q, q[i] \notin Members(front)
        PROVE  q[i] \in Members(back)
    <3>1. ~(i \in 1..k)
      BY <1>2, <2>2 DEF Members
    <3>2. i - k \in 1..(Len(q) - k) /\ k + (i - k) = i
      BY <1>1, <3>1
    <3>3. back[i - k] = q[i]
      BY <1>3, <3>2
    <3> QED BY <1>3, <3>2, <3>3 DEF Members
  <2> QED BY <2>1, <2>2 DEF Members
<1>8. IsFiniteSet(Members(front)) /\ Cardinality(Members(front)) = k
  <2> DEFINE f == [i \in 1..k |-> q[i]]
  <2>1. Members(front) = {q[i] : i \in 1..k}
    BY <1>2 DEF Members
  <2>2. f \in Bijection(1..k, {q[i] : i \in 1..k})
    BY <1>2 DEF NoRepeats, Bijection, Injection, Surjection, IsInjective
  <2>3. IsFiniteSet(1..k) /\ Cardinality(1..k) = k
    BY <1>1, FS_Interval
  <2> QED BY <2>1, <2>2, <2>3, FS_Bijection DEF ExistsBijection
<1> QED BY <1>3, <1>4, <1>5, <1>6, <1>7, <1>8 DEF front, back

(* Queueing a download that is not in the queue.                           *)
LEMMA QueueAppend ==
  ASSUME NEW q \in Seq(Downloads), NoRepeats(q), NEW d \in Downloads, d \notin Members(q)
  PROVE  LET longer == Append(q, d)
         IN  /\ longer \in Seq(Downloads) /\ Len(longer) = Len(q) + 1 /\ NoRepeats(longer)
             /\ longer # <<>>
             /\ Members(longer) = Members(q) \cup {d}
<1> DEFINE longer == Append(q, d)
<1>1. Len(q) \in Nat /\ DOMAIN q = 1..Len(q)
  BY MembersOfQueue
<1>2. /\ longer \in Seq(Downloads) /\ Len(longer) = Len(q) + 1
      /\ DOMAIN longer = 1..(Len(q) + 1)
      /\ \A i \in 1..Len(q) : longer[i] = q[i]
      /\ longer[Len(q) + 1] = d
  BY <1>1
<1> HIDE DEF longer
<1>3. longer # <<>>
  BY <1>1, <1>2, EmptySeq
<1>4. \A i \in DOMAIN longer : i \in DOMAIN q \/ i = Len(q) + 1
  BY <1>1, <1>2
<1>5. Len(q) + 1 \in DOMAIN longer /\ DOMAIN q \subseteq DOMAIN longer
  BY <1>1, <1>2
<1>6. NoRepeats(longer)
  BY <1>1, <1>2, <1>4 DEF NoRepeats, Members
<1>7. Members(longer) = Members(q) \cup {d}
  BY <1>1, <1>2, <1>4, <1>5 DEF Members
<1> QED BY <1>2, <1>3, <1>6, <1>7 DEF longer

-----------------------------------------------------------------------------
(* The inductive invariant of the manager.                                 *)

Connecting == {d \in Downloads : stage[d] = "connecting"}
Called == {c \in Calls : call[c] \notin {"idle", "credentials"}}

ManagerOK ==
  /\ queue \in Seq(Downloads)
  /\ stage \in [Downloads -> Stages]
  /\ path \in [Downloads -> Paths \cup {None}]
  /\ \A d \in Downloads : path[d] # None <=> d \in Active
  /\ shared \subseteq Paths
  /\ unusable \in BOOLEAN
  /\ OnePlace
  /\ QueueServed

RestOK ==
  /\ running \in BOOLEAN /\ processing \in BOOLEAN
  /\ exits \in 0..MaxExits
  /\ saved \in Seq(Downloads) /\ NoRepeats(saved)
  /\ disk \in [Paths -> Files \cup {None}]
  /\ recorded \in [Downloads -> Paths \cup {None}]
  /\ call \in [Calls -> CallStates]

(* The process that ended holds nothing.                                   *)
Asleep ==
  ~running => /\ ~processing /\ queue = <<>>
              /\ \A d \in Downloads : stage[d] = "idle"
              /\ \A c \in Calls : call[c] \notin {"credentials", "listening"}

(* A call that only queued its download leaves it to a running one.        *)
BusyServed == processing => Active # {} \/ unusable

(* A call leads to at most one file.                                       *)
Budget ==
  /\ IsFiniteSet(OnDisk(disk))
  /\ Cardinality(OnDisk(disk)) + Cardinality(Connecting) + Len(queue) + Len(saved)
       <= Cardinality(Called)

IInv == ManagerOK /\ RestOK /\ Asleep /\ BusyServed /\ Budget

(* Sets of downloads and of calls are finite.                              *)
LEMMA Finite ==
  /\ \A S \in SUBSET Downloads : IsFiniteSet(S) /\ Cardinality(S) \in Nat
  /\ \A C \in SUBSET Calls : /\ IsFiniteSet(C) /\ Cardinality(C) \in Nat
                             /\ Cardinality(C) <= Cardinality(Calls)
  BY BoundAssumption, FS_Subset, FS_CardinalityType DEF BoundAssumption

(* So a free name is found in every state.                                 *)
LEMMA NamesSuffice ==
  ASSUME IInv, NEW d \in Downloads
  PROVE  UniquePath(d) \in Paths /\ disk[UniquePath(d)] = None
<1>1. Cardinality(OnDisk(disk)) <= Cardinality(Calls)
  <2>1. Cardinality(OnDisk(disk)) \in Nat
    BY FS_CardinalityType DEF IInv, Budget
  <2>2. Cardinality(Connecting) \in Nat
    BY Finite DEF Connecting
  <2>3. Cardinality(Called) \in Nat /\ Cardinality(Called) <= Cardinality(Calls)
        /\ Cardinality(Calls) \in Nat
    BY Finite DEF Called
  <2>4. Len(queue) \in Nat /\ Len(saved) \in Nat
    BY LenProperties DEF IInv, ManagerOK, RestOK
  <2> QED BY <2>1, <2>2, <2>3, <2>4 DEF IInv, Budget
<1> QED BY <1>1, UniquePathIsFree DEF IInv, Budget

-----------------------------------------------------------------------------
(* processQueue.                                                           *)

(* It may be run with the queue q while active are the running downloads.  *)
Ready(q, active, calls) ==
  /\ q \in Seq(Downloads) /\ NoRepeats(q)
  /\ active \subseteq Active /\ Members(q) \cap active = {}
  /\ calls \in [Calls -> CallStates]

(* What it then does, begun being the downloads that it has begun.         *)
Advanced(q, active, calls, begun) ==
  /\ begun \subseteq Members(q)
  /\ Cardinality(active) + Cardinality(begun) <= MaxConcurrent
  /\ queue' \in Seq(Downloads) /\ NoRepeats(queue')
  /\ Members(queue') \subseteq Members(q) \ begun
  /\ Cardinality(begun) + Len(queue') <= Len(q)
  /\ stage' = [d \in Downloads |->
                 IF d \in begun THEN "connecting"
                 ELSE IF d \in active THEN stage[d]
                 ELSE IF d \in Members(queue') THEN "queued" ELSE "idle"]
  /\ path' = [d \in Downloads |-> IF d \in begun THEN UniquePath(d)
                                  ELSE IF d \in active THEN path[d] ELSE None]
  /\ shared \subseteq shared' /\ shared' \subseteq Paths
  /\ \A e \in begun : \A o \in (active \cup begun) \ {e} :
       path'[o] = path'[e] => path'[e] \in shared'
  /\ unusable' \in BOOLEAN /\ (unusable => unusable')
  /\ q # <<>> => active \cup begun # {} \/ unusable'
  /\ call' \in [Calls -> CallStates]
  /\ \A c \in Calls : \/ call'[c] = calls[c]
                      \/ calls[c] = "listening" /\ call'[c] = "failed"

(* It does that.                                                           *)
LEMMA ProcessQueueAdvances ==
  ASSUME IInv, NEW q, NEW active, NEW calls, Ready(q, active, calls),
         NEW ok \in BOOLEAN, ProcessQueue(q, active, calls, ok)
  PROVE  \E begun : Advanced(q, active, calls, begun)
<1> DEFINE k == IF ok THEN AtMost(Len(q), FreeSlots(active))
                ELSE IF FreeSlots(active) > 0 THEN Len(q) ELSE 0
           started == Members(SubSeq(q, 1, k))
           begun == IF ok THEN started ELSE {}
           paths == [d \in Downloads |-> IF d \in begun THEN UniquePath(d)
                                         ELSE IF d \in active THEN path[d] ELSE None]
<1>1. /\ q \in Seq(Downloads) /\ NoRepeats(q) /\ Len(q) \in Nat
      /\ Members(q) \subseteq Downloads /\ active \subseteq Downloads
      /\ active \cap Members(q) = {}
      /\ q # <<>> => Len(q) # 0
  BY MembersOfQueue DEF Ready, Active
<1>2. /\ MaxConcurrent \in Nat \ {0} /\ Cardinality(active) \in Nat
      /\ Cardinality(active) <= MaxConcurrent
      /\ FreeSlots(active) = MaxConcurrent - Cardinality(active)
  <2>1. Active \subseteq Downloads /\ IsFiniteSet(Active) /\ Cardinality(Active) \in Nat
        /\ Cardinality(active) \in Nat
    BY <1>1, Finite DEF Active
  <2>2. Cardinality(active) <= Cardinality(Active)
    BY <2>1, FS_Subset DEF Ready
  <2>3. Cardinality(Active) <= MaxConcurrent
    BY DEF IInv, ManagerOK, OnePlace
  <2>4. MaxConcurrent \in Nat \ {0}
    BY ConfigAssumption DEF ConfigAssumption
  <2> QED BY <2>1, <2>2, <2>3, <2>4 DEF FreeSlots
<1>3. /\ ok => k = AtMost(Len(q), FreeSlots(active))
      /\ ~ok /\ FreeSlots(active) > 0 => k = Len(q)
      /\ ~ok /\ ~(FreeSlots(active) > 0) => k = 0
  OBVIOUS
<1>4. /\ k \in 0..Len(q)
      /\ ok => k + Cardinality(active) <= MaxConcurrent
      /\ q # <<>> => k # 0 \/ Cardinality(active) = MaxConcurrent
  <2> HIDE DEF k
  <2> QED BY <1>1, <1>2, <1>3 DEF AtMost
<1>5. /\ queue' = SubSeq(q, k + 1, Len(q))
      /\ stage' = [d \in Downloads |->
                     IF d \in begun THEN "connecting"
                     ELSE IF d \in active THEN stage[d]
                     ELSE IF d \in Members(q) \ started THEN "queued" ELSE "idle"]
      /\ path' = paths
      /\ shared' = shared \cup {paths[d] : d \in {e \in begun :
                     \E o \in (active \cup begun) \ {e} : paths[o] = paths[e]}}
      /\ unusable' = (unusable \/ (~ok /\ k > 0))
      /\ call' = [c \in Calls |->
                    IF calls[c] = "listening" /\ CallOf[c] \in started \ begun
                    THEN "failed" ELSE calls[c]]
  BY DEF ProcessQueue
<1> HIDE DEF k, started
<1>6. /\ queue' \in Seq(Downloads) /\ Len(queue') = Len(q) - k /\ NoRepeats(queue')
      /\ started \subseteq Members(q)
      /\ Members(queue') = Members(q) \ started
      /\ IsFiniteSet(started) /\ Cardinality(started) = k
  BY <1>1, <1>4, <1>5, QueueCut DEF started
<1>7. /\ begun \subseteq started
      /\ begun = {} \/ (ok /\ begun = started)
      /\ Cardinality(begun) \in Nat /\ Cardinality(begun) <= k
      /\ Cardinality(active) + Cardinality(begun) <= MaxConcurrent
  <2>1. CASE ok
    BY <1>1, <1>2, <1>4, <1>6, <2>1
  <2>2. CASE ~ok
    BY <1>1, <1>2, <1>4, <1>6, <2>2, FS_EmptySet
  <2> QED BY <2>1, <2>2
<1>8. \A d \in Downloads : path'[d] = paths[d]
  BY <1>5
<1>9. /\ \A e \in begun : path'[e] \in Paths
      /\ begun \subseteq Downloads
  BY <1>1, <1>5, <1>6, <1>7, NamesSuffice
<1>10. q # <<>> => active \cup begun # {} \/ unusable'
  <2>1. ASSUME q # <<>>, Cardinality(active) = MaxConcurrent
        PROVE  active # {}
    BY <1>2, <2>1, FS_EmptySet
  <2>2. ASSUME q # <<>>, k # 0, ok
        PROVE  begun # {}
    BY <1>4, <1>6, <2>2, FS_EmptySet
  <2>3. ASSUME q # <<>>, k # 0, ~ok
        PROVE  unusable'
    <3>1. ~ok /\ k > 0
      BY <1>1, <1>4, <2>3
    <3>2. unusable' = (unusable \/ (~ok /\ k > 0))
      BY <1>5
    <3> HIDE DEF begun, paths
    <3> QED BY <3>1, <3>2
  <2> QED BY <1>4, <2>1, <2>2, <2>3
<1>11. /\ shared \subseteq shared' /\ shared' \subseteq Paths
       /\ \A e \in begun : \A o \in (active \cup begun) \ {e} :
            path'[o] = path'[e] => path'[e] \in shared'
  <2>1. active \cup begun \subseteq Downloads
    BY <1>1, <1>9
  <2>2. shared \subseteq Paths
    BY DEF IInv, ManagerOK
  <2>3. \A e \in Downloads : paths[e] = path'[e]
    BY <1>8
  <2>4. \A e \in begun : paths[e] \in Paths
    BY <1>9, <2>3
  <2> HIDE DEF paths, begun
  <2>5. shared \subseteq shared' /\ shared' \subseteq Paths
    BY <1>5, <2>2, <2>4
  <2>6. ASSUME NEW e \in begun, NEW o \in (active \cup begun) \ {e}, path'[o] = path'[e]
        PROVE  path'[e] \in shared'
    <3>1. paths[o] = paths[e]
      BY <2>1, <2>3, <2>6
    <3>2. paths[e] \in shared'
      BY <1>5, <3>1
    <3> QED BY <2>1, <2>3, <3>2
  <2> QED BY <2>5, <2>6
<1>12. unusable' \in BOOLEAN /\ (unusable => unusable')
  BY <1>5 DEF IInv, ManagerOK
<1>13. /\ call' \in [Calls -> CallStates]
       /\ \A c \in Calls : \/ call'[c] = calls[c]
                           \/ calls[c] = "listening" /\ call'[c] = "failed"
  BY <1>5 DEF Ready, CallStates
<1>14. Cardinality(begun) + Len(queue') <= Len(q)
  BY <1>1, <1>4, <1>6, <1>7
<1>15. stage' = [d \in Downloads |->
                   IF d \in begun THEN "connecting"
                   ELSE IF d \in active THEN stage[d]
                   ELSE IF d \in Members(queue') THEN "queued" ELSE "idle"]
  BY <1>5, <1>6
<1>16. begun \subseteq Members(q) /\ Members(queue') \subseteq Members(q) \ begun
  BY <1>6, <1>7
<1>17. path' = [d \in Downloads |-> IF d \in begun THEN UniquePath(d)
                                    ELSE IF d \in active THEN path[d] ELSE None]
  BY <1>5
<1> HIDE DEF begun, paths
<1>18. Advanced(q, active, calls, begun)
  BY <1>6, <1>7, <1>10, <1>11, <1>12, <1>13, <1>14, <1>15, <1>16, <1>17 DEF Advanced
<1> QED BY <1>18

(* The manager is in order again after it.                                 *)
LEMMA AdvancedKeepsManager ==
  ASSUME IInv, NEW q, NEW active, NEW calls, NEW begun, Ready(q, active, calls),
         Advanced(q, active, calls, begun)
  PROVE  /\ ManagerOK'
         /\ Active' = active \cup begun
         /\ q # <<>> => Active' # {} \/ unusable'
         /\ \A d \in active : d \notin begun /\ stage'[d] = stage[d] /\ path'[d] = path[d]
         /\ \A d \in begun : stage'[d] = "connecting" /\ path'[d] = UniquePath(d)
<1>1. /\ active \subseteq Downloads /\ Members(q) \subseteq Downloads
      /\ begun \subseteq Downloads /\ active \cap Members(q) = {}
      /\ \A d \in active : stage[d] \in {"connecting", "writing"} /\ path[d] \in Paths
  BY MembersOfQueue DEF Ready, Advanced, Active, IInv, ManagerOK
<1>2. \A d \in Downloads : stage'[d] = IF d \in begun THEN "connecting"
                                       ELSE IF d \in active THEN stage[d]
                                       ELSE IF d \in Members(queue') THEN "queued" ELSE "idle"
  BY DEF Advanced
<1>3. \A d \in Downloads : path'[d] = IF d \in begun THEN UniquePath(d)
                                      ELSE IF d \in active THEN path[d] ELSE None
  BY DEF Advanced
<1>4. begun \subseteq Members(q) /\ Members(queue') \subseteq Members(q) \ begun
  BY DEF Advanced
<1>5. Active' = active \cup begun
  BY <1>1, <1>2 DEF Active
<1>6. Members(queue') = {d \in Downloads : stage'[d] = "queued"}
  BY <1>1, <1>2, <1>4
<1>7. Cardinality(Active') <= MaxConcurrent
  <2>1. active \cap begun = {}
    BY <1>1, <1>4
  <2>2. /\ IsFiniteSet(active) /\ IsFiniteSet(begun)
        /\ Cardinality(active) \in Nat /\ Cardinality(begun) \in Nat
    BY <1>1, Finite
  <2>3. Cardinality(active \cup begun) = Cardinality(active) + Cardinality(begun)
    BY <2>1, <2>2, FS_Union, FS_EmptySet
  <2> QED BY <1>5, <2>3 DEF Advanced
<1>8. OnePlace'
  BY <1>6, <1>7 DEF OnePlace, Advanced, NoRepeats
<1>9. q # <<>> => Active' # {} \/ unusable'
  BY <1>5 DEF Advanced
<1>10. QueueServed'
  <2>1. queue' # <<>> => q # <<>>
    <3>1. Len(queue') \in Nat /\ Cardinality(begun) \in Nat /\ Len(q) \in Nat
          /\ (queue' # <<>> => Len(queue') # 0)
      BY <1>1, Finite, MembersOfQueue DEF Advanced, Ready
    <3>2. Cardinality(begun) + Len(queue') <= Len(q)
      BY DEF Advanced
    <3>3. q = <<>> => Len(q) = 0
      BY EmptySeq
    <3> QED BY <3>1, <3>2, <3>3
  <2> QED BY <1>9, <2>1 DEF QueueServed
<1>11. stage' \in [Downloads -> Stages]
  BY <1>1 DEF Advanced, Stages
<1>12. \A d \in Downloads : UniquePath(d) \in Paths
  BY NamesSuffice
<1>13. path' \in [Downloads -> Paths \cup {None}]
  BY <1>1, <1>12 DEF Advanced
<1>14. \A d \in Downloads : path'[d] # None <=> d \in Active'
  BY <1>1, <1>3, <1>5, <1>12, NoneAssumption DEF NoneAssumption
<1>15. ManagerOK'
  BY <1>8, <1>10, <1>11, <1>13, <1>14 DEF ManagerOK, Advanced
<1> QED BY <1>1, <1>2, <1>3, <1>4, <1>5, <1>9, <1>15

CalledIn(calls) == {c \in Calls : calls[c] \notin {"idle", "credentials"}}

(* No more files than calls after it, if the queue it is run with was no   *)
(* longer than the calls allow.                                            *)
LEMMA AdvancedKeepsBudget ==
  ASSUME IInv, NEW q, NEW active, NEW calls, NEW begun, Ready(q, active, calls),
         Advanced(q, active, calls, begun),
         OnDisk(disk') \subseteq OnDisk(disk),
         Called \subseteq CalledIn(calls),
         Len(saved') \in Nat,
         Len(q) + Len(saved') + Cardinality(Called)
           <= Len(queue) + Len(saved) + Cardinality(CalledIn(calls))
  PROVE  Budget'
<1>1. IsFiniteSet(OnDisk(disk')) /\ Cardinality(OnDisk(disk')) \in Nat
      /\ Cardinality(OnDisk(disk)) \in Nat
      /\ Cardinality(OnDisk(disk')) <= Cardinality(OnDisk(disk))
  BY FS_Subset, FS_CardinalityType DEF IInv, Budget
<1>2. Called' = CalledIn(calls)
  BY DEF Called, CalledIn, Advanced
<1>3. Connecting' \subseteq begun \cup Connecting /\ begun \cup Connecting \subseteq Downloads
  BY MembersOfQueue DEF Connecting, Advanced, Ready
<1>4. Cardinality(Connecting') <= Cardinality(begun) + Cardinality(Connecting)
      /\ Cardinality(Connecting') \in Nat /\ Cardinality(begun) \in Nat
      /\ Cardinality(Connecting) \in Nat
  <2>1. /\ IsFiniteSet(begun) /\ Cardinality(begun) \in Nat
        /\ IsFiniteSet(Connecting) /\ Cardinality(Connecting) \in Nat
        /\ IsFiniteSet(begun \cup Connecting) /\ Cardinality(begun \cup Connecting) \in Nat
        /\ Cardinality(Connecting') \in Nat
        /\ IsFiniteSet(begun \cap Connecting) /\ Cardinality(begun \cap Connecting) \in Nat
    BY <1>3, Finite
  <2>2. Cardinality(Connecting') <= Cardinality(begun \cup Connecting)
    BY <1>3, <2>1, FS_Subset
  <2>3. Cardinality(begun \cup Connecting)
          = Cardinality(begun) + Cardinality(Connecting) - Cardinality(begun \cap Connecting)
    BY <2>1, FS_Union
  <2> QED BY <2>1, <2>2, <2>3
<1>5. /\ Len(q) \in Nat /\ Len(queue) \in Nat /\ Len(saved) \in Nat /\ Len(queue') \in Nat
      /\ Cardinality(begun) + Len(queue') <= Len(q)
      /\ Cardinality(Called) \in Nat /\ Cardinality(CalledIn(calls)) \in Nat
  BY LenProperties, Finite DEF Ready, IInv, ManagerOK, RestOK, Advanced, Called, CalledIn
<1>6. Cardinality(OnDisk(disk)) + Cardinality(Connecting) + Len(queue) + Len(saved)
        <= Cardinality(Called)
  BY DEF IInv, Budget
<1>7. Cardinality(OnDisk(disk')) + Cardinality(Connecting') + Len(queue') + Len(saved')
        <= Cardinality(CalledIn(calls))
  <2>1. Cardinality(OnDisk(disk')) + Cardinality(Connecting') + Len(queue')
          <= Cardinality(OnDisk(disk)) + Cardinality(Connecting) + Len(q)
    BY <1>1, <1>4, <1>5
  <2>2. Len(q) + Len(saved')
          <= Len(queue) + Len(saved) + Cardinality(CalledIn(calls)) - Cardinality(Called)
    BY <1>5
  <2> DEFINE f == Cardinality(OnDisk(disk))
             f2 == Cardinality(OnDisk(disk'))
             k == Cardinality(Connecting)
             k2 == Cardinality(Connecting')
             n == Cardinality(Called)
             n2 == Cardinality(CalledIn(calls))
             l == Len(queue)
             l2 == Len(queue')
             s == Len(saved)
             s2 == Len(saved')
             m == Len(q)
  <2>4. /\ f \in Nat /\ f2 \in Nat /\ k \in Nat /\ k2 \in Nat /\ n \in Nat /\ n2 \in Nat
        /\ l \in Nat /\ l2 \in Nat /\ s \in Nat /\ s2 \in Nat /\ m \in Nat
        /\ f2 + k2 + l2 <= f + k + m
        /\ m + s2 <= l + s + n2 - n
        /\ f + k + l + s <= n
    BY <1>1, <1>4, <1>5, <1>6, <2>1, <2>2
  <2> HIDE DEF f, f2, k, k2, n, n2, l, l2, s, s2, m
  <2>5. f2 + k2 + l2 + s2 <= n2
    BY <2>4
  <2> QED BY <2>5 DEF f2, k2, l2, s2, n2
<1>8. OnDisk(disk)' = OnDisk(disk')
  BY DEF OnDisk
<1> QED BY <1>1, <1>2, <1>7, <1>8 DEF Budget

-----------------------------------------------------------------------------
(* Every action.                                                           *)

(* A call that changes its state and nothing else.                         *)
LEMMA CallKeeps ==
  ASSUME IInv, NEW c \in Calls, NEW s \in CallStates, call' = [call EXCEPT ![c] = s],
         UNCHANGED <<appVars, managerVars, disk, recorded, shared, unusable>>,
         call[c] \in {"idle", "credentials"} \/ s \notin {"idle", "credentials"},
         running \/ s \notin {"credentials", "listening"}
  PROVE  IInv'
<1>1. /\ UNCHANGED <<running, exits, saved>> /\ UNCHANGED <<processing, queue, stage, path>>
      /\ UNCHANGED <<disk, recorded, shared, unusable>>
  BY DEF appVars, managerVars
<1>2. ManagerOK'
  BY <1>1 DEF IInv, ManagerOK, Active, OnePlace, QueueServed
<1>3. RestOK'
  BY <1>1 DEF IInv, RestOK
<1>4. call \in [Calls -> CallStates]
  BY DEF IInv, RestOK
<1>5. Asleep'
  BY <1>1, <1>4 DEF IInv, Asleep
<1>6. BusyServed'
  BY <1>1 DEF IInv, BusyServed, Active
<1>7. Budget'
  <2>1. Called \subseteq Called' /\ Called' \subseteq Calls
    BY <1>4 DEF Called
  <2>2. Cardinality(Called) <= Cardinality(Called') /\ Cardinality(Called) \in Nat
        /\ Cardinality(Called') \in Nat
    BY <2>1, Finite, FS_Subset DEF Called
  <2>3. Connecting' = Connecting /\ OnDisk(disk)' = OnDisk(disk)
    BY <1>1 DEF Connecting, OnDisk
  <2>4. /\ Cardinality(OnDisk(disk)) \in Nat /\ Cardinality(Connecting) \in Nat
        /\ Len(queue) \in Nat /\ Len(saved) \in Nat
    BY Finite, LenProperties, FS_CardinalityType
    DEF IInv, ManagerOK, RestOK, Budget, Connecting
  <2> QED BY <1>1, <2>2, <2>3, <2>4 DEF IInv, Budget
<1> QED BY <1>2, <1>3, <1>5, <1>6, <1>7 DEF IInv

(* A call joins a download that is known, leaves it to the queue, or has   *)
(* the queue processed.                                                    *)
LEMMA ListenKeeps ==
  ASSUME IInv, NEW c \in Calls, NEW ok \in BOOLEAN, Listen(c, ok)
  PROVE  IInv'
<1> DEFINE d == CallOf[c]
           calls == [call EXCEPT ![c] = "listening"]
<1>1. /\ call[c] = "credentials" /\ call \in [Calls -> CallStates]
      /\ calls \in [Calls -> CallStates] /\ d \in Downloads
      /\ UNCHANGED <<running, exits, saved, disk, recorded>>
  BY ConfigAssumption DEF Listen, IInv, RestOK, CallStates, ConfigAssumption, appVars
<1>2. running
  BY <1>1 DEF IInv, RestOK, Asleep
<1>3. CASE Known(d) /\ call' = calls /\ UNCHANGED <<managerVars, shared, unusable>>
  <2>1. UNCHANGED <<appVars, managerVars, disk, recorded, shared, unusable>>
    BY <1>3 DEF Listen
  <2> QED BY <1>1, <1>2, <1>3, <2>1, CallKeeps DEF CallStates
<1>4. ASSUME ~Known(d)
      PROVE  /\ Append(queue, d) \in Seq(Downloads) /\ NoRepeats(Append(queue, d))
             /\ Len(Append(queue, d)) = Len(queue) + 1
             /\ Members(Append(queue, d)) = Members(queue) \cup {d}
             /\ Append(queue, d) # <<>>
             /\ Members(Append(queue, d)) \cap Active = {}
             /\ d \notin Members(queue) /\ stage[d] = "idle"
  <2>1. /\ queue \in Seq(Downloads) /\ NoRepeats(queue)
        /\ Members(queue) = {e \in Downloads : stage[e] = "queued"}
    BY DEF IInv, ManagerOK, OnePlace, NoRepeats
  <2>2. d \notin Members(queue) /\ d \notin Active /\ stage[d] = "idle"
    BY <1>4, <2>1 DEF Known, Active
  <2>3. Members(queue) \cap Active = {}
    BY <2>1 DEF Active
  <2> QED BY <1>1, <2>1, <2>2, <2>3, QueueAppend
<1>5. /\ Called \subseteq CalledIn(calls)
      /\ Cardinality(CalledIn(calls)) = Cardinality(Called) + 1
      /\ Cardinality(Called) \in Nat
  <2>1. CalledIn(calls) = Called \cup {c} /\ c \notin Called
    BY <1>1 DEF CalledIn, Called
  <2>2. IsFiniteSet(Called) /\ Cardinality(Called) \in Nat
    BY Finite DEF Called
  <2> QED BY <2>1, <2>2, FS_AddElement
<1>6. ASSUME call' \in [Calls -> CallStates], processing' \in BOOLEAN
      PROVE  RestOK' /\ Asleep'
  BY <1>6, <1>1, <1>2 DEF IInv, RestOK, Asleep
<1>7. Len(queue) \in Nat /\ Len(saved) \in Nat
  BY LenProperties DEF IInv, ManagerOK, RestOK
<1>8. CASE ~Known(d) /\ ~processing /\ processing' = TRUE
           /\ ProcessQueue(Append(queue, d), Active, calls, ok)
  <2>1. Ready(Append(queue, d), Active, calls)
    BY <1>1, <1>4, <1>8 DEF Ready
  <2>2. PICK begun : Advanced(Append(queue, d), Active, calls, begun)
    BY <1>8, <2>1, ProcessQueueAdvances
  <2>3. ManagerOK' /\ (Active' # {} \/ unusable')
    BY <1>4, <1>8, <2>1, <2>2, AdvancedKeepsManager
  <2>4. Budget'
    <3>1. OnDisk(disk') \subseteq OnDisk(disk) /\ Len(saved') = Len(saved)
      BY <1>1
    <3>2. Len(Append(queue, d)) + Len(saved') + Cardinality(Called)
            <= Len(queue) + Len(saved) + Cardinality(CalledIn(calls))
      BY <1>4, <1>5, <1>7, <1>8, <3>1
    <3> HIDE DEF calls
    <3> QED BY <1>5, <1>7, <2>1, <2>2, <3>1, <3>2, AdvancedKeepsBudget
  <2>5. RestOK' /\ Asleep'
    BY <1>6, <1>8, <2>2 DEF Advanced
  <2> QED BY <2>3, <2>4, <2>5 DEF IInv, BusyServed
<1>9. CASE /\ ~Known(d) /\ processing
           /\ queue' = Append(queue, d)
           /\ stage' = [stage EXCEPT ![d] = "queued"]
           /\ call' = calls
           /\ UNCHANGED <<processing, path, shared, unusable>>
  <2>1. Active' = Active
    BY <1>4, <1>9 DEF Active, IInv, ManagerOK
  <2>2. Members(queue') = {e \in Downloads : stage'[e] = "queued"}
    BY <1>1, <1>4, <1>9 DEF IInv, ManagerOK, OnePlace
  <2>3. Active # {} \/ unusable
    BY <1>9 DEF IInv, BusyServed
  <2>4. ManagerOK'
    <3>1. OnePlace'
      BY <1>4, <1>9, <2>1, <2>2 DEF IInv, ManagerOK, OnePlace, NoRepeats
    <3>2. QueueServed'
      BY <1>9, <2>1, <2>3 DEF QueueServed
    <3>3. stage' \in [Downloads -> Stages]
      BY <1>9 DEF IInv, ManagerOK, Stages
    <3> QED BY <1>4, <1>9, <2>1, <3>1, <3>2, <3>3 DEF IInv, ManagerOK
  <2>5. BusyServed'
    BY <1>9, <2>1, <2>3 DEF BusyServed
  <2>6. Budget'
    <3>1. Connecting' = Connecting
      BY <1>4, <1>9 DEF Connecting, IInv, ManagerOK
    <3>2. Called' = CalledIn(calls) /\ OnDisk(disk)' = OnDisk(disk)
      BY <1>1, <1>9 DEF Called, CalledIn, OnDisk
    <3>3. Cardinality(Connecting) \in Nat /\ Cardinality(OnDisk(disk)) \in Nat
      BY Finite, FS_CardinalityType DEF IInv, Budget, Connecting
    <3>4. Len(queue') = Len(queue) + 1 /\ Len(saved') = Len(saved)
      BY <1>1, <1>4, <1>9
    <3> QED BY <1>5, <1>7, <3>1, <3>2, <3>3, <3>4 DEF IInv, Budget
  <2>7. RestOK' /\ Asleep'
    BY <1>1, <1>6, <1>9 DEF IInv, RestOK
  <2> QED BY <2>4, <2>5, <2>6, <2>7 DEF IInv
<1>10. CASE call' = [call EXCEPT ![c] = "failed"] /\ UNCHANGED <<managerVars, shared, unusable>>
  <2>1. UNCHANGED <<appVars, managerVars, disk, recorded, shared, unusable>>
    BY <1>10 DEF Listen
  <2> QED BY <1>1, <1>2, <1>10, <2>1, CallKeeps DEF CallStates
<1> QED BY <1>3, <1>8, <1>9, <1>10 DEF Listen

(* The end of the tick.                                                    *)
LEMMA MicrotasksKeep ==
  ASSUME IInv, MicrotasksDone
  PROVE  IInv'
<1>1. /\ UNCHANGED <<running, exits, saved>> /\ UNCHANGED <<queue, stage, path>>
      /\ UNCHANGED <<disk, recorded, call, shared, unusable>> /\ processing' = FALSE
  BY DEF MicrotasksDone, appVars
<1>2. ManagerOK'
  BY <1>1 DEF IInv, ManagerOK, Active, OnePlace, QueueServed
<1>3. RestOK' /\ Asleep' /\ BusyServed'
  BY <1>1 DEF IInv, RestOK, Asleep, BusyServed
<1>4. Budget'
  BY <1>1 DEF IInv, Budget, OnDisk, Connecting, Called
<1> QED BY <1>2, <1>3, <1>4 DEF IInv

(* An answer: the download has a file, and no longer waits to make one.    *)
LEMMA RespondKeeps ==
  ASSUME IInv, NEW d \in Downloads, Respond(d)
  PROVE  IInv'
<1>1. /\ UNCHANGED <<running, exits, saved>>
      /\ UNCHANGED <<processing, queue, path, recorded, call, shared, unusable>>
      /\ stage' = [stage EXCEPT ![d] = "writing"] /\ stage[d] = "connecting"
      /\ disk' = [disk EXCEPT ![path[d]] = [by |-> Writers(path[d]) \cup {d}, whole |-> FALSE]]
  BY DEF Respond, appVars
<1>2. /\ stage \in [Downloads -> Stages] /\ disk \in [Paths -> Files \cup {None}]
      /\ path[d] \in Paths
  BY <1>1 DEF IInv, ManagerOK, RestOK, Active
<1>3. Active' = Active
  BY <1>1, <1>2 DEF Active
<1>4. Members(queue') = {e \in Downloads : stage'[e] = "queued"}
  BY <1>1, <1>2 DEF IInv, ManagerOK, OnePlace
<1>5. ManagerOK'
  <2>1. OnePlace'
    BY <1>1, <1>3, <1>4 DEF IInv, ManagerOK, OnePlace
  <2>2. QueueServed'
    BY <1>1, <1>3 DEF IInv, ManagerOK, QueueServed
  <2>3. stage' \in [Downloads -> Stages]
    BY <1>1, <1>2 DEF Stages
  <2> QED BY <1>1, <1>3, <2>1, <2>2, <2>3 DEF IInv, ManagerOK
<1>6. RestOK'
  <2>1. [by |-> Writers(path[d]) \cup {d}, whole |-> FALSE] \in Files
    BY DEF Files, Writers
  <2>2. disk' \in [Paths -> Files \cup {None}]
    BY <1>1, <1>2, <2>1
  <2> QED BY <1>1, <2>2 DEF IInv, RestOK
<1>7. BusyServed'
  BY <1>1, <1>3 DEF IInv, BusyServed
<1>8. Asleep'
  BY <1>1, <1>2 DEF IInv, Asleep
<1>9. Budget'
  <2>1. /\ IsFiniteSet(OnDisk(disk)) /\ Cardinality(OnDisk(disk)) \in Nat
        /\ IsFiniteSet(Connecting) /\ Cardinality(Connecting) \in Nat
    BY Finite, FS_CardinalityType DEF IInv, Budget, Connecting
  <2>2. OnDisk(disk') \subseteq OnDisk(disk) \cup {path[d]}
    BY <1>1, <1>2 DEF OnDisk
  <2>3. /\ IsFiniteSet(OnDisk(disk')) /\ Cardinality(OnDisk(disk')) \in Nat
        /\ Cardinality(OnDisk(disk')) <= Cardinality(OnDisk(disk)) + 1
    <3>1. /\ IsFiniteSet(OnDisk(disk) \cup {path[d]})
          /\ Cardinality(OnDisk(disk) \cup {path[d]}) <= Cardinality(OnDisk(disk)) + 1
          /\ Cardinality(OnDisk(disk) \cup {path[d]}) \in Nat
      <4>1. /\ IsFiniteSet(OnDisk(disk) \cup {path[d]})
            /\ Cardinality(OnDisk(disk) \cup {path[d]})
                 = IF path[d] \in OnDisk(disk) THEN Cardinality(OnDisk(disk))
                   ELSE Cardinality(OnDisk(disk)) + 1
        BY <2>1, FS_AddElement
      <4>2. Cardinality(OnDisk(disk)) \in Nat
        BY <2>1
      <4> HIDE DEF OnDisk
      <4> QED BY <4>1, <4>2
    <3>2. /\ IsFiniteSet(OnDisk(disk'))
          /\ Cardinality(OnDisk(disk')) <= Cardinality(OnDisk(disk) \cup {path[d]})
      BY <2>2, <3>1, FS_Subset
    <3>3. Cardinality(OnDisk(disk')) \in Nat
      BY <3>2, FS_CardinalityType
    <3> QED BY <2>1, <3>1, <3>2, <3>3
  <2>4. Connecting' = Connecting \ {d} /\ d \in Connecting
    BY <1>1, <1>2 DEF Connecting
  <2>5. Cardinality(Connecting') = Cardinality(Connecting) - 1
    BY <2>1, <2>4, FS_RemoveElement
  <2>6. Called' = Called /\ OnDisk(disk)' = OnDisk(disk')
    BY <1>1 DEF Called, OnDisk
  <2>7. Len(queue) \in Nat /\ Len(saved) \in Nat /\ Cardinality(Called) \in Nat
    BY LenProperties, Finite DEF IInv, ManagerOK, RestOK, Called
  <2> QED BY <1>1, <2>1, <2>3, <2>5, <2>6, <2>7 DEF IInv, Budget
<1> QED BY <1>5, <1>6, <1>7, <1>8, <1>9 DEF IInv

(* A download ends, and the queue is processed: the file of nobody else    *)
(* comes into being, and the calls that waited are answered.               *)
LEMMA EndsKeeps ==
  ASSUME IInv, NEW d \in Active, NEW calls, NEW ok \in BOOLEAN, Ends(d, calls, ok),
         ~processing, UNCHANGED appVars,
         calls \in [Calls -> CallStates],
         \A c \in Calls : call[c] \notin {"idle", "credentials"} =>
                          calls[c] \notin {"idle", "credentials"},
         disk' \in [Paths -> Files \cup {None}], OnDisk(disk') \subseteq OnDisk(disk),
         recorded' \in [Downloads -> Paths \cup {None}]
  PROVE  IInv'
<1>1. /\ UNCHANGED <<running, exits, saved, processing>>
      /\ ProcessQueue(queue, Active \ {d}, calls, ok)
  BY DEF Ends, appVars
<1>2. running
  BY DEF IInv, RestOK, Asleep, Active
<1>3. Ready(queue, Active \ {d}, calls)
  BY DEF Ready, IInv, ManagerOK, OnePlace, NoRepeats, Active
<1>4. PICK begun : Advanced(queue, Active \ {d}, calls, begun)
  BY <1>1, <1>3, ProcessQueueAdvances
<1>5. ManagerOK'
  BY <1>3, <1>4, AdvancedKeepsManager
<1>6. RestOK' /\ Asleep' /\ BusyServed'
  BY <1>1, <1>2, <1>4 DEF IInv, RestOK, Asleep, BusyServed, Advanced
<1>7. Budget'
  <2>1. Called \subseteq CalledIn(calls)
    BY DEF Called, CalledIn
  <2>2. Cardinality(Called) <= Cardinality(CalledIn(calls))
        /\ Cardinality(Called) \in Nat /\ Cardinality(CalledIn(calls)) \in Nat
    BY <2>1, Finite, FS_Subset DEF Called, CalledIn
  <2>3. Len(queue) \in Nat /\ Len(saved) \in Nat /\ Len(saved') = Len(saved)
    BY <1>1, LenProperties DEF IInv, ManagerOK, RestOK
  <2>4. Len(queue) + Len(saved') + Cardinality(Called)
          <= Len(queue) + Len(saved) + Cardinality(CalledIn(calls))
    BY <2>2, <2>3
  <2>5. Len(saved') \in Nat
    BY <2>3
  <2> QED BY <1>3, <1>4, <2>1, <2>4, <2>5, AdvancedKeepsBudget
<1> QED BY <1>5, <1>6, <1>7 DEF IInv

(* What the ends of a download do to the files.                            *)
LEMMA EndedFiles ==
  ASSUME IInv, NEW d \in Active
  PROVE  /\ path[d] \in Paths
         /\ \A f \in {disk, FileRemoved(d),
                     IF disk[path[d]] = None THEN disk ELSE Whole(path[d])} :
              f \in [Paths -> Files \cup {None}] /\ OnDisk(f) \subseteq OnDisk(disk)
<1>1. path[d] \in Paths /\ disk \in [Paths -> Files \cup {None}]
  BY DEF IInv, ManagerOK, RestOK, Active
<1>2. FileRemoved(d) \in [Paths -> Files \cup {None}] /\ OnDisk(FileRemoved(d)) \subseteq OnDisk(disk)
  BY <1>1 DEF FileRemoved, OnDisk
<1>3. ASSUME disk[path[d]] # None
      PROVE  /\ Whole(path[d]) \in [Paths -> Files \cup {None}]
             /\ OnDisk(Whole(path[d])) \subseteq OnDisk(disk)
  <2>1. disk[path[d]] \in Files
    BY <1>1, <1>3
  <2>2. [disk[path[d]] EXCEPT !.whole = TRUE] \in Files
    BY <2>1 DEF Files
  <2>3. Whole(path[d]) = [disk EXCEPT ![path[d]] = [disk[path[d]] EXCEPT !.whole = TRUE]]
    BY DEF Whole
  <2> QED BY <1>1, <1>3, <2>2, <2>3 DEF OnDisk
<1> QED BY <1>1, <1>2, <1>3

(* The listeners' answers are states of calls, and take no call back to    *)
(* before its download.                                                    *)
LEMMA AnsweredType ==
  ASSUME NEW d \in Downloads, NEW answers \in Outcomes(d), call \in [Calls -> CallStates]
  PROVE  /\ Answered(answers) \in [Calls -> CallStates]
         /\ \A c \in Calls : call[c] \notin {"idle", "credentials"} =>
                            Answered(answers)[c] \notin {"idle", "credentials"}
<1>1. \A c \in Waiting(d) : answers[c] \in {"done", "failed", "lost", "listening"}
  BY DEF Outcomes
<1>2. DOMAIN answers = Waiting(d)
  BY DEF Outcomes
<1> QED BY <1>1, <1>2 DEF Answered, CallStates

(* The events of a download.                                               *)
LEMMA DownloadKeeps ==
  ASSUME IInv, NEW d \in Downloads, Download(d)
  PROVE  IInv'
<1>1. CASE Respond(d)
  BY <1>1, RespondKeeps
<1>2. call \in [Calls -> CallStates] /\ recorded \in [Downloads -> Paths \cup {None}]
  BY DEF IInv, RestOK
<1>3. ASSUME NEW answers \in Outcomes(d)
      PROVE  /\ Answered(answers) \in [Calls -> CallStates]
             /\ \A c \in Calls : call[c] \notin {"idle", "credentials"} =>
                                Answered(answers)[c] \notin {"idle", "credentials"}
  BY <1>2, AnsweredType
<1>4. ASSUME NEW ok \in BOOLEAN, NEW answers \in Outcomes(d), Complete(d, answers, ok)
      PROVE  IInv'
  <2>1. d \in Active
    BY <1>4 DEF Complete, IsComplete, Active
  <2>2. recorded' \in [Downloads -> Paths \cup {None}]
    BY <1>2, <1>4, <2>1, EndedFiles DEF Complete
  <2>3. disk' \in [Paths -> Files \cup {None}] /\ OnDisk(disk') \subseteq OnDisk(disk)
    BY <1>4, <2>1, EndedFiles DEF Complete
  <2>4. ~processing /\ UNCHANGED appVars /\ Ends(d, Answered(answers), ok)
    BY <1>4 DEF Complete
  <2> QED BY <1>3, <2>1, <2>2, <2>3, <2>4, EndsKeeps
<1>5. ASSUME NEW ok \in BOOLEAN, NEW answers \in Outcomes(d), Fails(d, answers, ok)
      PROVE  IInv'
  <2>1. d \in Active
    BY <1>5 DEF Fails
  <2>2. disk' \in [Paths -> Files \cup {None}] /\ OnDisk(disk') \subseteq OnDisk(disk)
    BY <1>5, <2>1, EndedFiles DEF Fails
  <2>3. ~processing /\ UNCHANGED <<appVars, recorded>> /\ Ends(d, Answered(answers), ok)
    BY <1>5 DEF Fails
  <2> QED BY <1>2, <1>3, <2>1, <2>2, <2>3, EndsKeeps
<1> QED BY <1>1, <1>4, <1>5 DEF Download, Completes, CompletesUnrecorded

(* The steps of a call.                                                    *)
LEMMA HandlerKeeps ==
  ASSUME IInv, NEW c \in Calls, Handler(c)
  PROVE  IInv'
<1>1. call \in [Calls -> CallStates]
  BY DEF IInv, RestOK
<1>2. CASE OpenRecorded(c)
  BY <1>2, CallKeeps DEF OpenRecorded, CallStates
<1>3. CASE Ask(c)
  BY <1>3, CallKeeps DEF Ask, CallStates
<1>4. CASE NoCredentials(c)
  BY <1>4, CallKeeps DEF NoCredentials, CallStates
<1>5. CASE SafetyTimeout(c)
  BY <1>5, CallKeeps DEF SafetyTimeout, CallStates
<1>6. ASSUME NEW ok \in BOOLEAN, Listen(c, ok)
      PROVE  IInv'
  BY <1>6, ListenKeeps
<1> QED BY <1>2, <1>3, <1>4, <1>5, <1>6 DEF Handler

(* The end of the process.                                                 *)
LEMMA ProcessEndKeeps ==
  ASSUME IInv, ProcessEnds, saved' = queue \/ saved' = saved,
         disk' \in [Paths -> Files \cup {None}], OnDisk(disk') \subseteq OnDisk(disk)
  PROVE  IInv'
<1>1. /\ running' = FALSE /\ exits < MaxExits /\ exits' = exits + 1 /\ processing' = FALSE
      /\ queue' = <<>>
      /\ stage' = [d \in Downloads |-> "idle"] /\ path' = [d \in Downloads |-> None]
      /\ call' = [c \in Calls |-> IF call[c] \in {"credentials", "listening"} THEN "gone"
                                  ELSE call[c]]
      /\ unusable' = FALSE
      /\ UNCHANGED <<recorded, shared>>
  BY DEF ProcessEnds
<1>2. /\ call \in [Calls -> CallStates] /\ exits \in 0..MaxExits
      /\ queue \in Seq(Downloads) /\ NoRepeats(queue)
      /\ saved \in Seq(Downloads) /\ NoRepeats(saved)
  BY DEF IInv, ManagerOK, RestOK, OnePlace, NoRepeats
<1>3. Active' = {} /\ Connecting' = {}
  BY <1>1 DEF Active, Connecting
<1>4. ManagerOK'
  <2>1. queue' \in Seq(Downloads) /\ Members(queue') = {} /\ DOMAIN queue' = {}
    BY <1>1 DEF Members
  <2>2. Cardinality(Active') <= MaxConcurrent
    BY <1>3, FS_EmptySet, ConfigAssumption DEF ConfigAssumption
  <2>3. OnePlace'
    BY <1>1, <2>1, <2>2 DEF OnePlace
  <2>4. QueueServed'
    BY <1>1 DEF QueueServed
  <2>5. stage' \in [Downloads -> Stages]
    BY <1>1 DEF Stages
  <2> QED BY <1>1, <1>3, <2>1, <2>3, <2>4, <2>5 DEF IInv, ManagerOK
<1>5. RestOK'
  <2>1. exits' \in 0..MaxExits
    BY <1>1, <1>2, BoundAssumption DEF BoundAssumption
  <2>2. call' \in [Calls -> CallStates]
    BY <1>1, <1>2 DEF CallStates
  <2>3. saved' \in Seq(Downloads) /\ NoRepeats(saved')
    BY <1>2
  <2> QED BY <1>1, <2>1, <2>2, <2>3 DEF IInv, RestOK
<1>6. Asleep' /\ BusyServed'
  BY <1>1 DEF Asleep, BusyServed
<1>7. Budget'
  <2>1. /\ IsFiniteSet(OnDisk(disk')) /\ Cardinality(OnDisk(disk')) \in Nat
        /\ Cardinality(OnDisk(disk)) \in Nat
        /\ Cardinality(OnDisk(disk')) <= Cardinality(OnDisk(disk))
    BY FS_Subset, FS_CardinalityType DEF IInv, Budget
  <2>2. Cardinality(Connecting') = 0 /\ Len(queue') = 0 /\ Cardinality(Connecting) \in Nat
    BY <1>1, <1>3, FS_EmptySet, Finite DEF Connecting
  <2>3. Called \subseteq Called' /\ Called' \subseteq Calls
    BY <1>1 DEF Called
  <2>4. Cardinality(Called) <= Cardinality(Called') /\ Cardinality(Called) \in Nat
        /\ Cardinality(Called') \in Nat
    BY <2>3, Finite, FS_Subset DEF Called
  <2>5. /\ Len(queue) \in Nat /\ Len(saved) \in Nat
        /\ Len(saved') = Len(queue) \/ Len(saved') = Len(saved)
    BY <1>2, LenProperties
  <2>6. OnDisk(disk)' = OnDisk(disk')
    BY DEF OnDisk
  <2> QED BY <2>1, <2>2, <2>4, <2>5, <2>6 DEF IInv, Budget
<1> QED BY <1>4, <1>5, <1>6, <1>7 DEF IInv

(* The next start.                                                         *)
LEMMA StartKeeps ==
  ASSUME IInv, NEW ok \in BOOLEAN, Start(ok)
  PROVE  IInv'
<1>1. /\ ~running /\ running' = TRUE /\ saved' = <<>>
      /\ ProcessQueue(saved, {}, call, ok)
      /\ UNCHANGED <<exits, processing, disk, recorded>>
  BY DEF Start
<1>2. ~processing /\ queue = <<>>
  BY <1>1 DEF IInv, Asleep
<1>3. Ready(saved, {}, call)
  BY DEF Ready, IInv, RestOK
<1>4. PICK begun : Advanced(saved, {}, call, begun)
  BY <1>1, <1>3, ProcessQueueAdvances
<1>5. ManagerOK'
  BY <1>3, <1>4, AdvancedKeepsManager
<1>6. RestOK'
  <2>1. saved' \in Seq(Downloads) /\ NoRepeats(saved')
    BY <1>1 DEF NoRepeats
  <2> QED BY <1>1, <1>4, <2>1 DEF IInv, RestOK, Advanced
<1>7. Asleep' /\ BusyServed'
  BY <1>1, <1>2 DEF Asleep, BusyServed
<1>8. Budget'
  <2>1. Len(saved') = 0 /\ Len(saved') \in Nat /\ Len(queue) = 0 /\ Len(saved) \in Nat
    BY <1>1, <1>2, LenProperties DEF IInv, RestOK
  <2>2. Called = CalledIn(call) /\ Cardinality(Called) \in Nat
    BY Finite DEF Called, CalledIn
  <2>3. Len(saved) + Len(saved') + Cardinality(Called)
          <= Len(queue) + Len(saved) + Cardinality(CalledIn(call))
    BY <2>1, <2>2
  <2>4. OnDisk(disk') \subseteq OnDisk(disk)
    BY <1>1
  <2> QED BY <1>3, <1>4, <2>1, <2>2, <2>3, <2>4, AdvancedKeepsBudget
<1> QED BY <1>5, <1>6, <1>7, <1>8 DEF IInv

(* Quit, crash and start.                                                  *)
LEMMA LifecycleKeeps ==
  ASSUME IInv, Lifecycle
  PROVE  IInv'
<1>1. disk \in [Paths -> Files \cup {None}]
  BY DEF IInv, RestOK
<1>2. ASSUME NEW removed, Quit(removed)
      PROVE  IInv'
  <2>1. disk' \in [Paths -> Files \cup {None}] /\ OnDisk(disk') \subseteq OnDisk(disk)
    BY <1>1, <1>2 DEF Quit, OnDisk
  <2> QED BY <1>2, <2>1, ProcessEndKeeps DEF Quit
<1>3. CASE Crash
  <2>1. disk' \in [Paths -> Files \cup {None}] /\ OnDisk(disk') \subseteq OnDisk(disk)
    BY <1>1, <1>3 DEF Crash
  <2> QED BY <1>3, <2>1, ProcessEndKeeps DEF Crash
<1> QED BY <1>2, <1>3, StartKeeps DEF Lifecycle

(* The first start.                                                        *)
LEMMA InitIInv == Init => IInv
<1> SUFFICES ASSUME Init PROVE IInv
  OBVIOUS
<1>1. Active = {} /\ Connecting = {} /\ OnDisk(disk) = {} /\ Called = {}
  BY DEF Init, Active, Connecting, OnDisk, Called
<1>2. queue \in Seq(Downloads) /\ Members(queue) = {} /\ DOMAIN queue = {} /\ saved = queue
      /\ Len(queue) = 0
  BY DEF Init, Members
<1>3. Cardinality({}) = 0 /\ IsFiniteSet({})
  BY FS_EmptySet
<1>4. ManagerOK
  <2>1. OnePlace
    BY <1>1, <1>2, <1>3, ConfigAssumption DEF OnePlace, Init, ConfigAssumption
  <2>2. QueueServed
    BY DEF QueueServed, Init
  <2> QED BY <1>1, <1>2, <2>1, <2>2 DEF ManagerOK, Init, Stages
<1>5. RestOK
  <2>1. exits \in 0..MaxExits
    BY BoundAssumption DEF Init, BoundAssumption
  <2>2. call \in [Calls -> CallStates]
    BY DEF Init, CallStates
  <2>3. /\ disk \in [Paths -> Files \cup {None}]
        /\ recorded \in [Downloads -> Paths \cup {None}]
        /\ running \in BOOLEAN /\ processing \in BOOLEAN
    BY DEF Init
  <2>4. saved \in Seq(Downloads) /\ NoRepeats(saved)
    BY <1>2 DEF NoRepeats
  <2> QED BY <2>1, <2>2, <2>3, <2>4 DEF RestOK
<1>6. Asleep /\ BusyServed
  BY DEF Init, Asleep, BusyServed
<1>7. Budget
  BY <1>1, <1>2, <1>3 DEF Budget
<1> QED BY <1>4, <1>5, <1>6, <1>7 DEF IInv

(* Every step.                                                             *)
LEMMA NextIInv == IInv /\ [Next]_vars => IInv'
<1>1. ASSUME IInv, UNCHANGED vars
      PROVE  IInv'
  <2>1. /\ UNCHANGED <<running, exits, saved>> /\ UNCHANGED <<processing, queue, stage, path>>
        /\ UNCHANGED <<disk, recorded, call, shared, unusable>>
    BY <1>1 DEF vars, appVars, managerVars
  <2>2. ManagerOK'
    BY <1>1, <2>1 DEF IInv, ManagerOK, Active, OnePlace, QueueServed
  <2>3. RestOK' /\ Asleep' /\ BusyServed'
    BY <1>1, <2>1 DEF IInv, RestOK, Asleep, BusyServed, Active
  <2>4. Budget'
    BY <1>1, <2>1 DEF IInv, Budget, OnDisk, Connecting, Called
  <2> QED BY <2>2, <2>3, <2>4 DEF IInv
<1> QED BY <1>1, HandlerKeeps, DownloadKeeps, MicrotasksKeep, LifecycleKeeps DEF Next

(* The inductive invariant holds.                                          *)
LEMMA Invariant == Spec => []IInv
  BY InitIInv, NextIInv, PTL DEF Spec

(* Every variable has its type: a download has a local path exactly while  *)
(* it runs, and startDownload always finds a path for it.                  *)
THEOREM TypeCorrect == Spec => []TypeOK
<1>1. IInv => TypeOK
  BY DEF IInv, ManagerOK, RestOK, TypeOK
<1> QED BY <1>1, Invariant, PTL

(* Queued once, running in one of maxConcurrent slots, or nowhere, through *)
(* calls that meet, failures and restarts.                                 *)
THEOREM EveryDownloadInOnePlace == Spec => []OnePlace
<1>1. IInv => OnePlace
  BY DEF IInv, ManagerOK
<1> QED BY <1>1, Invariant, PTL

(* Nothing is queued with no download running whose end would look at the  *)
(* queue, unless a directory could not be made.                            *)
THEOREM QueueIsServed == Spec => []QueueServed
<1>1. IInv => QueueServed
  BY DEF IInv, ManagerOK
<1> QED BY <1>1, Invariant, PTL

-----------------------------------------------------------------------------
(* The contents of the files.                                              *)

(* Running downloads that chose one path did so before its file was there. *)
PathsApart ==
  \A d, e \in Active : d # e /\ path[d] = path[e] => path[d] \in shared

(* A running download has its path to itself: no file before the answer,   *)
(* its own and unfinished one after it.                                    *)
DiskOfActive ==
  \A d \in Active : path[d] \notin shared =>
    disk[path[d]] = IF stage[d] = "connecting" THEN None ELSE [by |-> {d}, whole |-> FALSE]

FilesInv == PathsApart /\ DiskOfActive /\ RecordedFileIntact

(* The start of downloads disturbs no file.                                *)
LEMMA AdvancedKeepsFiles ==
  ASSUME IInv, FilesInv, NEW q, NEW active, NEW calls, NEW begun,
         Ready(q, active, calls), Advanced(q, active, calls, begun),
         \A p \in Paths : disk[p] = None => disk'[p] = None,
         \A d \in active : path[d] \notin shared => disk'[path[d]] = disk[path[d]],
         \A d \in Downloads : recorded'[d] # None /\ recorded'[d] \notin shared =>
           disk'[recorded'[d]] = [by |-> {d}, whole |-> TRUE]
  PROVE  FilesInv'
<1>1. /\ Active' = active \cup begun /\ active \subseteq Active
      /\ \A d \in active : d \notin begun /\ stage'[d] = stage[d] /\ path'[d] = path[d]
      /\ \A d \in begun : stage'[d] = "connecting" /\ path'[d] = UniquePath(d)
  BY AdvancedKeepsManager DEF Ready
<1>2. /\ shared \subseteq shared'
      /\ \A e \in begun : \A o \in (active \cup begun) \ {e} :
           path'[o] = path'[e] => path'[e] \in shared'
      /\ begun \subseteq Downloads
  BY MembersOfQueue DEF Advanced, Ready
<1>3. PathsApart'
  <2> SUFFICES ASSUME NEW d \in Active', NEW e \in Active', d # e, path'[d] = path'[e]
               PROVE  path'[d] \in shared'
    BY DEF PathsApart
  <2>1. CASE d \in begun \/ e \in begun
    BY <1>1, <1>2, <2>1
  <2>2. CASE d \in active /\ e \in active
    <3>1. path[d] = path[e] /\ path'[d] = path[d] /\ d \in Active /\ e \in Active
      BY <1>1, <2>2
    <3> QED BY <1>2, <3>1 DEF FilesInv, PathsApart
  <2> QED BY <1>1, <2>1, <2>2
<1>4. DiskOfActive'
  <2> SUFFICES ASSUME NEW d \in Active', path'[d] \notin shared'
               PROVE  disk'[path'[d]] = IF stage'[d] = "connecting" THEN None
                                        ELSE [by |-> {d}, whole |-> FALSE]
    BY DEF DiskOfActive
  <2>1. CASE d \in active
    <3>1. /\ d \in Active /\ path'[d] = path[d] /\ stage'[d] = stage[d]
          /\ path[d] \notin shared
      BY <1>1, <1>2, <2>1
    <3>2. disk'[path[d]] = disk[path[d]]
      BY <2>1, <3>1
    <3> QED BY <3>1, <3>2 DEF FilesInv, DiskOfActive
  <2>2. CASE d \in begun
    <3>1. UniquePath(d) \in Paths /\ disk[UniquePath(d)] = None
      BY <1>2, <2>2, NamesSuffice
    <3> QED BY <1>1, <2>2, <3>1
  <2> QED BY <1>1, <2>1, <2>2
<1>5. RecordedFileIntact'
  BY <1>2 DEF RecordedFileIntact
<1> QED BY <1>3, <1>4, <1>5 DEF FilesInv

(* Nor does a step that starts and ends none.                              *)
LEMMA QuietKeepsFiles ==
  ASSUME FilesInv, UNCHANGED <<path, disk, recorded, shared>>, Active' = Active,
         \A d \in Active : stage'[d] = stage[d]
  PROVE  FilesInv'
<1>1. PathsApart'
  BY DEF FilesInv, PathsApart
<1>2. DiskOfActive'
  BY DEF FilesInv, DiskOfActive
<1>3. RecordedFileIntact'
  BY DEF FilesInv, RecordedFileIntact
<1> QED BY <1>1, <1>2, <1>3 DEF FilesInv

(* A download writes no other's file, and no file that is recorded.        *)
LEMMA OwnFile ==
  ASSUME IInv, FilesInv, NEW d \in Active, path[d] \notin shared
  PROVE  /\ \A e \in Active \ {d} : path[e] # path[d]
         /\ \A e \in Downloads : recorded[e] # path[d]
         /\ stage[d] = "writing" => disk[path[d]] = [by |-> {d}, whole |-> FALSE]
<1>1. \A e \in Active \ {d} : path[e] # path[d]
  BY DEF FilesInv, PathsApart
<1>2. /\ path[d] # None
      /\ stage[d] = "connecting" => disk[path[d]] = None
      /\ stage[d] # "connecting" => disk[path[d]] = [by |-> {d}, whole |-> FALSE]
  BY DEF FilesInv, DiskOfActive, IInv, ManagerOK, Active
<1>3. ASSUME NEW e \in Downloads, recorded[e] = path[d]
      PROVE  FALSE
  <2>1. disk[path[d]] = [by |-> {e}, whole |-> TRUE]
    BY <1>2, <1>3 DEF FilesInv, RecordedFileIntact
  <2>2. [by |-> {e}, whole |-> TRUE] \in Files
    BY DEF Files
  <2>3. [by |-> {e}, whole |-> TRUE] # [by |-> {d}, whole |-> FALSE]
    OBVIOUS
  <2> QED BY <1>2, <2>1, <2>2, <2>3, NoneAssumption DEF NoneAssumption
<1> QED BY <1>1, <1>2, <1>3

(* Neither does its end; the file it records is its own and whole.         *)
LEMMA EndsKeepsFiles ==
  ASSUME IInv, FilesInv, NEW d \in Active, NEW calls, NEW ok \in BOOLEAN,
         Ends(d, calls, ok), calls \in [Calls -> CallStates],
         \/ disk' \in {FileRemoved(d), disk} /\ UNCHANGED recorded
         \/ /\ stage[d] = "writing"
            /\ disk' = IF disk[path[d]] = None THEN disk ELSE Whole(path[d])
            /\ recorded' = recorded \/ recorded' = [recorded EXCEPT ![d] = path[d]]
  PROVE  FilesInv'
<1>1. /\ path[d] \in Paths /\ disk \in [Paths -> Files \cup {None}]
      /\ recorded \in [Downloads -> Paths \cup {None}]
  BY DEF IInv, ManagerOK, RestOK, Active
<1>2. Ready(queue, Active \ {d}, calls)
  BY DEF Ready, IInv, ManagerOK, OnePlace, NoRepeats, Active
<1>3. PICK begun : Advanced(queue, Active \ {d}, calls, begun)
  BY <1>2, ProcessQueueAdvances DEF Ends
<1>4. /\ \A p \in Paths \ {path[d]} : disk'[p] = disk[p]
      /\ disk[path[d]] = None => disk'[path[d]] = None
  BY <1>1 DEF FileRemoved, Whole
<1>5. \A p \in Paths : disk[p] = None => disk'[p] = None
  BY <1>4
<1>6. ASSUME NEW e \in Active \ {d}, path[e] \notin shared
      PROVE  disk'[path[e]] = disk[path[e]]
  <2>1. path[e] \in Paths /\ path[e] # path[d]
    BY <1>6, OwnFile DEF IInv, ManagerOK, Active
  <2> QED BY <1>4, <2>1
<1>7. ASSUME NEW e \in Downloads, recorded'[e] # None, recorded'[e] \notin shared
      PROVE  disk'[recorded'[e]] = [by |-> {e}, whole |-> TRUE]
  <2>1. CASE recorded'[e] = recorded[e]
    <3>1. recorded[e] \in Paths /\ recorded[e] # path[d]
      BY <1>1, <1>7, <2>1, OwnFile
    <3>2. disk[recorded[e]] = [by |-> {e}, whole |-> TRUE]
      BY <1>7, <2>1 DEF FilesInv, RecordedFileIntact
    <3> QED BY <1>4, <2>1, <3>1, <3>2
  <2>2. CASE /\ e = d /\ recorded'[e] = path[d] /\ stage[d] = "writing"
             /\ disk' = IF disk[path[d]] = None THEN disk ELSE Whole(path[d])
    <3>1. disk[path[d]] = [by |-> {d}, whole |-> FALSE]
      BY <1>7, <2>2, OwnFile
    <3>2. disk[path[d]] # None
      <4>1. [by |-> {d}, whole |-> FALSE] \in Files
        BY DEF Files, Active
      <4> QED BY <3>1, <4>1, NoneAssumption DEF NoneAssumption
    <3>3. disk' = [disk EXCEPT ![path[d]] = [disk[path[d]] EXCEPT !.whole = TRUE]]
      BY <2>2, <3>2 DEF Whole
    <3>4. [disk[path[d]] EXCEPT !.whole = TRUE] = [by |-> {d}, whole |-> TRUE]
      <4> DEFINE file == [disk[path[d]] EXCEPT !.whole = TRUE]
      <4>1. disk[path[d]] \in Files /\ disk[path[d]].by = {d}
        BY <3>1 DEF Files, Active
      <4>2. file \in Files /\ file.by = {d} /\ file.whole = TRUE
        BY <4>1 DEF Files
      <4> HIDE DEF file
      <4>3. file = [by |-> file.by, whole |-> file.whole]
        BY <4>2 DEF Files
      <4>4. file = [by |-> {d}, whole |-> TRUE]
        BY <4>2, <4>3
      <4> QED BY <4>4 DEF file
    <3>5. disk' = [disk EXCEPT ![path[d]] = [by |-> {d}, whole |-> TRUE]]
      BY <3>3, <3>4
    <3> QED BY <1>1, <2>2, <3>5
  <2>3. recorded'[e] = recorded[e] \/ (e = d /\ recorded'[e] = path[d])
    BY <1>1
  <2> QED BY <2>1, <2>2, <2>3
<1> QED BY <1>2, <1>3, <1>5, <1>6, <1>7, AdvancedKeepsFiles

(* An answer makes the file, or truncates the one of a shared path.        *)
LEMMA RespondKeepsFiles ==
  ASSUME IInv, FilesInv, NEW d \in Downloads, Respond(d)
  PROVE  FilesInv'
<1>1. /\ UNCHANGED <<path, recorded, shared>>
      /\ stage' = [stage EXCEPT ![d] = "writing"] /\ stage[d] = "connecting"
      /\ disk' = [disk EXCEPT ![path[d]] = [by |-> Writers(path[d]) \cup {d}, whole |-> FALSE]]
  BY DEF Respond
<1>2. /\ stage \in [Downloads -> Stages] /\ disk \in [Paths -> Files \cup {None}]
      /\ path \in [Downloads -> Paths \cup {None}]
      /\ recorded \in [Downloads -> Paths \cup {None}]
      /\ \A e \in Active : path[e] \in Paths
  BY DEF IInv, ManagerOK, RestOK, Active
<1>3. Active' = Active /\ d \in Active
  BY <1>1, <1>2 DEF Active
<1>4. /\ stage'[d] = "writing"
      /\ \A e \in Active \ {d} : stage'[e] = stage[e]
      /\ \A p \in Paths \ {path[d]} : disk'[p] = disk[p]
  BY <1>1, <1>2 DEF Active
<1>5. PathsApart'
  BY <1>1, <1>3 DEF FilesInv, PathsApart
<1>6. DiskOfActive'
  <2> SUFFICES ASSUME NEW e \in Active, path[e] \notin shared
               PROVE  disk'[path[e]] = IF stage'[e] = "connecting" THEN None
                                       ELSE [by |-> {e}, whole |-> FALSE]
    BY <1>1, <1>3 DEF DiskOfActive
  <2>1. CASE e = d
    <3>1. \A o \in Active \ {d} : path[o] # path[d]
      BY <1>3, <2>1, OwnFile
    <3>2. Writers(path[d]) = {}
      BY <1>1, <3>1 DEF Writers, Active
    <3>3. disk'[path[d]] = [by |-> {d}, whole |-> FALSE]
      BY <1>1, <1>2, <1>3, <3>2
    <3> QED BY <1>4, <2>1, <3>3
  <2>2. CASE e # d
    <3>1. path[d] # path[e]
      BY <1>3, <2>2, OwnFile
    <3> QED BY <1>2, <1>4, <2>2, <3>1 DEF FilesInv, DiskOfActive
  <2> QED BY <2>1, <2>2
<1>7. RecordedFileIntact'
  <2> SUFFICES ASSUME NEW e \in Downloads, recorded[e] # None, recorded[e] \notin shared
               PROVE  disk'[recorded[e]] = [by |-> {e}, whole |-> TRUE]
    BY <1>1 DEF RecordedFileIntact
  <2>1. recorded[e] # path[d] /\ recorded[e] \in Paths
    BY <1>2, <1>3, OwnFile
  <2> QED BY <1>4, <2>1 DEF FilesInv, RecordedFileIntact
<1> QED BY <1>5, <1>6, <1>7 DEF FilesInv

(* The start of the wait, and of the download if nobody else has begun it. *)
LEMMA ListenKeepsFiles ==
  ASSUME IInv, FilesInv, NEW c \in Calls, NEW ok \in BOOLEAN, Listen(c, ok)
  PROVE  FilesInv'
<1> DEFINE d == CallOf[c]
           calls == [call EXCEPT ![c] = "listening"]
<1>1. /\ calls \in [Calls -> CallStates] /\ d \in Downloads
      /\ UNCHANGED <<disk, recorded>>
      /\ stage \in [Downloads -> Stages]
  BY ConfigAssumption DEF Listen, IInv, ManagerOK, RestOK, CallStates, ConfigAssumption
<1>2. CASE UNCHANGED <<managerVars, shared>>
  <2>1. UNCHANGED <<stage, path>>
    BY <1>2 DEF managerVars
  <2> QED BY <1>1, <1>2, <2>1, QuietKeepsFiles DEF Active
<1>3. CASE ~Known(d) /\ stage' = [stage EXCEPT ![d] = "queued"] /\ UNCHANGED <<path, shared>>
  <2>1. Active' = Active /\ \A e \in Active : stage'[e] = stage[e]
    BY <1>1, <1>3 DEF Active, Known
  <2> QED BY <1>1, <1>3, <2>1, QuietKeepsFiles
<1>4. CASE ~Known(d) /\ ProcessQueue(Append(queue, d), Active, calls, ok)
  <2>1. /\ queue \in Seq(Downloads) /\ NoRepeats(queue) /\ d \notin Active
        /\ Members(queue) = {e \in Downloads : stage[e] = "queued"}
    BY <1>4 DEF IInv, ManagerOK, OnePlace, NoRepeats, Known, Active
  <2>2. d \notin Members(queue) /\ Members(queue) \cap Active = {}
    BY <1>4, <2>1 DEF Known, Active
  <2>3. Ready(Append(queue, d), Active, calls)
    <3>1. /\ Append(queue, d) \in Seq(Downloads) /\ NoRepeats(Append(queue, d))
          /\ Members(Append(queue, d)) = Members(queue) \cup {d}
      BY <1>1, <2>1, <2>2, QueueAppend
    <3>2. Members(Append(queue, d)) \cap Active = {}
      BY <2>1, <2>2, <3>1
    <3> QED BY <1>1, <3>1, <3>2 DEF Ready
  <2>4. PICK begun : Advanced(Append(queue, d), Active, calls, begun)
    BY <1>4, <2>3, ProcessQueueAdvances
  <2>5. \A e \in Downloads : recorded'[e] # None /\ recorded'[e] \notin shared =>
          disk'[recorded'[e]] = [by |-> {e}, whole |-> TRUE]
    BY <1>1 DEF FilesInv, RecordedFileIntact
  <2> QED BY <1>1, <2>3, <2>4, <2>5, AdvancedKeepsFiles
<1> QED BY <1>2, <1>3, <1>4 DEF Listen

(* The other steps of a call concern nothing but the call.                 *)
LEMMA HandlerKeepsFiles ==
  ASSUME IInv, FilesInv, NEW c \in Calls, Handler(c)
  PROVE  FilesInv'
<1>1. CASE OpenRecorded(c) \/ Ask(c) \/ NoCredentials(c) \/ SafetyTimeout(c)
  <2>1. UNCHANGED <<managerVars, disk, recorded, shared>>
    BY <1>1 DEF OpenRecorded, Ask, NoCredentials, SafetyTimeout
  <2>2. UNCHANGED <<stage, path>>
    BY <2>1 DEF managerVars
  <2> QED BY <2>1, <2>2, QuietKeepsFiles DEF Active
<1> QED BY <1>1, ListenKeepsFiles DEF Handler

(* The events of a download.                                               *)
LEMMA DownloadKeepsFiles ==
  ASSUME IInv, FilesInv, NEW d \in Downloads, Download(d)
  PROVE  FilesInv'
<1>1. call \in [Calls -> CallStates]
  BY DEF IInv, RestOK
<1>2. ASSUME NEW ok \in BOOLEAN, NEW answers \in Outcomes(d), Complete(d, answers, ok)
      PROVE  FilesInv'
  <2>1. stage[d] = "writing" /\ d \in Active
    BY <1>2 DEF Complete, IsComplete, Active
  <2>2. /\ disk' = IF disk[path[d]] = None THEN disk ELSE Whole(path[d])
        /\ recorded' = recorded \/ recorded' = [recorded EXCEPT ![d] = path[d]]
        /\ Ends(d, Answered(answers), ok)
    BY <1>2 DEF Complete
  <2> QED BY <1>1, <2>1, <2>2, AnsweredType, EndsKeepsFiles
<1>3. ASSUME NEW ok \in BOOLEAN, NEW answers \in Outcomes(d), Fails(d, answers, ok)
      PROVE  FilesInv'
  <2>1. /\ d \in Active
        /\ disk' \in {FileRemoved(d), disk} /\ UNCHANGED recorded
        /\ Ends(d, Answered(answers), ok)
    BY <1>3 DEF Fails
  <2> QED BY <1>1, <2>1, AnsweredType, EndsKeepsFiles
<1> QED BY <1>2, <1>3, RespondKeepsFiles DEF Download, Completes, CompletesUnrecorded

(* Quit, crash and start: what a quit removes is nobody's record.          *)
LEMMA LifecycleKeepsFiles ==
  ASSUME IInv, FilesInv, Lifecycle
  PROVE  FilesInv'
<1>1. ASSUME ProcessEnds,
             \A e \in Downloads : recorded[e] # None /\ recorded[e] \notin shared =>
               disk'[recorded[e]] = [by |-> {e}, whole |-> TRUE]
      PROVE  FilesInv'
  <2>1. Active' = {} /\ UNCHANGED <<recorded, shared>>
    BY <1>1 DEF ProcessEnds, Active
  <2>2. PathsApart' /\ DiskOfActive'
    BY <2>1 DEF PathsApart, DiskOfActive
  <2>3. RecordedFileIntact'
    BY <1>1, <2>1 DEF RecordedFileIntact
  <2> QED BY <2>2, <2>3 DEF FilesInv
<1>2. ASSUME NEW removed, Quit(removed)
      PROVE  FilesInv'
  <2>1. ASSUME NEW e \in Downloads, recorded[e] # None, recorded[e] \notin shared
        PROVE  disk'[recorded[e]] = [by |-> {e}, whole |-> TRUE]
    <3>1. disk[recorded[e]] = [by |-> {e}, whole |-> TRUE] /\ recorded[e] \in Paths
      BY <2>1 DEF FilesInv, RecordedFileIntact, IInv, RestOK
    <3>2. ASSUME recorded[e] \in removed
          PROVE  FALSE
      <4>1. PICK d \in Downloads : stage[d] = "writing" /\ path[d] = recorded[e]
        BY <1>2, <3>2 DEF Quit
      <4>2. d \in Active /\ path[d] \notin shared
        BY <2>1, <4>1 DEF Active
      <4> QED BY <4>1, <4>2, OwnFile
    <3> QED BY <1>2, <3>1, <3>2 DEF Quit
  <2> QED BY <1>1, <1>2, <2>1 DEF Quit
<1>3. CASE Crash
  BY <1>1, <1>3 DEF Crash, FilesInv, RecordedFileIntact
<1>4. ASSUME NEW ok \in BOOLEAN, Start(ok)
      PROVE  FilesInv'
  <2>1. Ready(saved, {}, call) /\ ProcessQueue(saved, {}, call, ok)
        /\ UNCHANGED <<disk, recorded>>
    BY <1>4 DEF Ready, Start, IInv, RestOK
  <2>2. PICK begun : Advanced(saved, {}, call, begun)
    BY <2>1, ProcessQueueAdvances
  <2>3. \A e \in Downloads : recorded'[e] # None /\ recorded'[e] \notin shared =>
          disk'[recorded'[e]] = [by |-> {e}, whole |-> TRUE]
    BY <2>1 DEF FilesInv, RecordedFileIntact
  <2> QED BY <2>1, <2>2, <2>3, AdvancedKeepsFiles
<1> QED BY <1>2, <1>3, <1>4 DEF Lifecycle

(* Every step.                                                             *)
LEMMA NextFiles == IInv /\ FilesInv /\ [Next]_vars => FilesInv'
<1>1. ASSUME FilesInv, MicrotasksDone \/ UNCHANGED vars
      PROVE  FilesInv'
  <2>1. UNCHANGED <<stage, path, disk, recorded, shared>>
    BY <1>1 DEF MicrotasksDone, vars, managerVars
  <2> QED BY <1>1, <2>1, QuietKeepsFiles DEF Active
<1> QED BY <1>1, HandlerKeepsFiles, DownloadKeepsFiles, LifecycleKeepsFiles DEF Next

(* The file that the database names for a download is there, complete, and *)
(* has this download's bytes, whatever else is downloaded, fails or ends,  *)
(* unless two running downloads had chosen its path before it was there.   *)
THEOREM RecordedFilesIntact == Spec => []RecordedFileIntact
<1>1. Init => FilesInv
  <2> SUFFICES ASSUME Init PROVE FilesInv
    OBVIOUS
  <2>1. Active = {} /\ \A d \in Downloads : recorded[d] = None
    BY DEF Init, Active
  <2> QED BY <2>1 DEF FilesInv, PathsApart, DiskOfActive, RecordedFileIntact
<1>2. FilesInv => RecordedFileIntact
  BY DEF FilesInv
<1> QED BY <1>1, <1>2, Invariant, NextFiles, PTL DEF Spec

=============================================================================
