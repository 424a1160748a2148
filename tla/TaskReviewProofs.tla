-------------------------- MODULE TaskReviewProofs --------------------------
(***************************************************************************)
(* Theorems about TaskReview, for every set of assignments, fields and     *)
(* values.  What makes the choices of the user stand is that whatever has  *)
(* its source in the user, was asked for or is in a conflict on the        *)
(* Updates page is also in local_modified_fields; what keeps it there is   *)
(* that a resolution finds in the resolver's map what the page shows.  A   *)
(* type that the user changed on a row from before the queue has its       *)
(* source in the user, so no tiers decide about it when the row is         *)
(* replaced.                                                               *)
(***************************************************************************)
EXTENDS TaskReview, TLAPS

(* The fields of a row that are the user's, those asked for and those in   *)
(* conflict, with the row's value where one was asked for.                 *)
Held(r, asked, shown) ==
  \A f \in Fields :
    /\ r # None /\ r.source[f] = "user" => f \in r.modified
    /\ asked[f] # None => r # None /\ f \in r.modified /\ r.val[f] = asked[f]
    /\ shown[f] # None => r # None /\ f \in r.modified
    /\ r # None /\ ~r.accepted /\ f \in r.modified /\ f \in TieredFields =>
         r.source[f] = "user"

AllHeld == \A a \in Assignments : Held(row[a], choice[a], updates[a])

IInv == TypeOK /\ AllHeld /\ OneHome /\ ConflictStoresAgree

-----------------------------------------------------------------------------
(* Rows and conflicts.                                                     *)

(* The parts of a row.                                                     *)
LEMMA RowType ==
  ASSUME NEW r \in Rows
  PROVE  /\ r # None
         /\ r.accepted \in BOOLEAN /\ r.val \in Data /\ r.modified \in SUBSET Fields
         /\ r.source \in [Fields -> Sources]
  BY NoneAssumption DEF Rows

(* The parts of a new row.                                                 *)
LEMMA NewRow ==
  ASSUME NEW acc \in BOOLEAN, NEW v \in Data, NEW M \in SUBSET Fields,
         NEW s \in [Fields -> Sources]
  PROVE  [accepted |-> acc, val |-> v, source |-> s, modified |-> M] \in Rows
  BY DEF Rows

(* No verdict is one.                                                      *)
LEMMA NoVerdictType == NoVerdict \in [Assignments -> Verdicts]
  BY DEF NoVerdict, Verdicts

(* A commit leaves the rows what they are, and changes no value that the   *)
(* user owns and has no remembered choice for Canvas about.                *)
LEMMA CommittedRowKeeps ==
  ASSUME TypeOK, fetched # None, NEW a \in Assignments, row[a] # None
  PROVE  /\ CommittedRow(a) \in Rows /\ CommittedRow(a).accepted
         /\ CommittedRow(a).modified = row[a].modified
         /\ \A f \in Fields :
              /\ CommittedRow(a).source[f] = "user" => row[a].source[f] = "user"
              /\ CommittedRow(a).val[f] \in {row[a].val[f], fetched[a][f]}
              /\ /\ Owned(row[a], f) /\ preference[a][f] # "canvas"
                 /\ f \in TieredFields => row[a].accepted \/ row[a].source[f] = "user"
                 => CommittedRow(a).val[f] = row[a].val[f]
  <1>1. row[a] \in Rows /\ fetched[a] \in Data
    BY DEF TypeOK
  <1> DEFINE v == [f \in Fields |-> IF Written(a, f) THEN fetched[a][f] ELSE row[a].val[f]]
             s == IF row[a].accepted THEN row[a].source ELSE SyncedSource
  <1>2. v \in Data /\ s \in [Fields -> Sources]
    BY <1>1, RowType DEF Data, Sources, SyncedSource
  <1>3. /\ CommittedRow(a) \in Rows /\ CommittedRow(a).accepted
        /\ CommittedRow(a).val = v /\ CommittedRow(a).source = s
        /\ CommittedRow(a).modified = row[a].modified
    <2>1. CommittedRow(a) = [row[a] EXCEPT !.accepted = TRUE, !.val = v, !.source = s]
      BY <1>1 DEF CommittedRow, Rows
    <2> HIDE DEF v, s
    <2>. QED BY <1>1, <1>2, <2>1 DEF Rows
  <1>4. ASSUME NEW f \in Fields
        PROVE  /\ v[f] \in {row[a].val[f], fetched[a][f]}
               /\ /\ Owned(row[a], f) /\ preference[a][f] # "canvas"
                  /\ f \in TieredFields => row[a].accepted \/ row[a].source[f] = "user"
                  => v[f] = row[a].val[f]
               /\ s[f] = "user" => row[a].source[f] = "user"
    <2>1. f \in TieredFields => f \notin StatusFields
      BY ConstantsAssumption
    <2>2. SyncedSource[f] # "user"
      BY NoneAssumption DEF SyncedSource
    <2>3. s[f] = "user" => row[a].source[f] = "user"
      BY <2>2
    <2>4. v[f] \in {row[a].val[f], fetched[a][f]}
      OBVIOUS
    <2>5. ASSUME Owned(row[a], f), preference[a][f] # "canvas",
                 f \in TieredFields => row[a].accepted \/ row[a].source[f] = "user",
                 Written(a, f), row[a].val[f] # fetched[a][f]
          PROVE  FALSE
      <3>1. Differs(a, f)
        BY <2>5 DEF Differs
      <3>2. CASE f \in TieredFields
        <4>1. row[a].source[f] = "user"
          BY <2>1, <2>5, <3>2 DEF Written
        <4>2. KeptLocal(a, f)
          BY <2>5, <3>2, <4>1 DEF KeptLocal, Verdict
        <4>. QED BY <2>5, <4>2 DEF Written
      <3>3. CASE f \notin TieredFields
        BY <2>5, <3>1, <3>3 DEF Written, KeptLocal, OpenToUser
      <3>. QED BY <3>2, <3>3
    <2>. QED BY <2>3, <2>4, <2>5
  <1>. QED BY <1>1, <1>2, <1>3, <1>4, RowType

(* A store of conflicts that the commit has reported to.                   *)
LEMMA ReportedType ==
  ASSUME TypeOK, fetched # None, NEW store \in OfField(Conflicts)
  PROVE  /\ Reported(store) \in OfField(Conflicts)
         /\ \A a \in Assignments, f \in Fields :
              IF row[a] # None /\ InConflict(a, f)
              THEN /\ Reported(store)[a][f] =
                        [local |-> row[a].val[f], canvas |-> fetched[a][f]]
                   /\ Reported(store)[a][f] # None
              ELSE Reported(store)[a][f] = store[a][f]
  <1>1. ASSUME NEW a \in Assignments, NEW f \in Fields, row[a] # None
        PROVE  [local |-> row[a].val[f], canvas |-> fetched[a][f]] \in Conflicts
    BY <1>1, RowType DEF TypeOK, Data, Conflicts
  <1>. QED BY <1>1, NoneAssumption DEF Reported, OfField

-----------------------------------------------------------------------------
(* The steps of a synchronisation.                                         *)

(* A commit that succeeds.                                                 *)
LEMMA CommitKeeps ==
  ASSUME IInv, NEW failed \in SUBSET Assignments, CommitSucceeds(failed)
  PROVE  IInv'
  <1>1. /\ TypeOK /\ AllHeld /\ OneHome /\ ConflictStoresAgree
        /\ fetched # None /\ fetched' = None /\ verdict' = NoVerdict
        /\ UNCHANGED <<engine, preference, halfDone, rolledBack>>
        /\ memory' = Reported(memory) /\ pending' = Reported(pending)
        /\ updates' = Reported(updates)
    BY DEF IInv, CommitSucceeds
  <1>2. /\ memory \in OfField(Conflicts) /\ pending \in OfField(Conflicts)
        /\ updates \in OfField(Conflicts)
    BY <1>1 DEF TypeOK
  <1>3. /\ memory' \in OfField(Conflicts) /\ pending' \in OfField(Conflicts)
        /\ updates' \in OfField(Conflicts)
    BY <1>1, <1>2, ReportedType
  <1>4. row' \in [Assignments -> Rows \cup {None}]
        /\ \A a \in Assignments :
             row'[a] = IF row[a] = None \/ a \in failed THEN row[a] ELSE CommittedRow(a)
    BY <1>1, CommittedRowKeeps DEF CommitSucceeds, TypeOK
  <1>5. /\ queue' \in [Assignments -> Entries \cup {None}]
        /\ \A a \in Assignments : queue'[a] # queue[a] => row[a] = None
        /\ \A a \in Assignments : queue[a] = None /\ queue'[a] # None => row[a] = None
    <2>1. ASSUME NEW a \in Assignments
          PROVE  Queued(a) \in Entries
      BY <1>1 DEF TypeOK, Queued, Entries, Statuses
    <2>. QED BY <1>1, <2>1 DEF CommitSucceeds, TypeOK
  <1>6. /\ choice' \in OfField(Values)
        /\ \A a \in Assignments, f \in Fields :
             choice'[a][f] = IF preference[a][f] = "canvas" THEN None ELSE choice[a][f]
    BY <1>1 DEF CommitSucceeds, TypeOK, OfField
  <1>7. TypeOK'
    BY <1>1, <1>3, <1>4, <1>5, <1>6, NoVerdictType DEF TypeOK
  <1>8. AllHeld'
    <2> SUFFICES ASSUME NEW a \in Assignments, NEW f \in Fields
                 PROVE  /\ row'[a] # None /\ row'[a].source[f] = "user" => f \in row'[a].modified
                        /\ choice'[a][f] # None =>
                             row'[a] # None /\ f \in row'[a].modified /\ row'[a].val[f] = choice'[a][f]
                        /\ updates'[a][f] # None => row'[a] # None /\ f \in row'[a].modified
                        /\ row'[a] # None /\ ~row'[a].accepted /\ f \in row'[a].modified
                             /\ f \in TieredFields => row'[a].source[f] = "user"
      BY DEF AllHeld, Held
    <2>1. /\ row[a] # None /\ row[a].source[f] = "user" => f \in row[a].modified
          /\ choice[a][f] # None => row[a] # None /\ f \in row[a].modified /\ row[a].val[f] = choice[a][f]
          /\ updates[a][f] # None => row[a] # None /\ f \in row[a].modified
          /\ row[a] # None /\ ~row[a].accepted /\ f \in row[a].modified
               /\ f \in TieredFields => row[a].source[f] = "user"
      BY <1>1 DEF AllHeld, Held
    <2>2. updates'[a][f] # None => row[a] # None /\ f \in row[a].modified
      <3>1. CASE row[a] # None /\ InConflict(a, f)
        BY <2>1, <3>1 DEF InConflict, OpenToUser, Differs, Owned
      <3>2. CASE ~(row[a] # None /\ InConflict(a, f))
        BY <1>1, <1>2, <2>1, <3>2, ReportedType
      <3>. QED BY <3>1, <3>2
    <2>3. CASE row[a] = None \/ a \in failed
      BY <1>4, <1>6, <2>1, <2>2, <2>3
    <2>4. CASE row[a] # None /\ a \notin failed
      <3>1. /\ row'[a] = CommittedRow(a) /\ row'[a] # None /\ row'[a].accepted
            /\ row'[a].modified = row[a].modified
            /\ row'[a].source[f] = "user" => row[a].source[f] = "user"
            /\ /\ Owned(row[a], f) /\ preference[a][f] # "canvas"
               /\ f \in TieredFields => row[a].accepted \/ row[a].source[f] = "user"
               => row'[a].val[f] = row[a].val[f]
        BY <1>1, <1>4, <2>4, CommittedRowKeeps, RowType
      <3>2. row'[a].source[f] = "user" => f \in row'[a].modified
        BY <2>1, <2>4, <3>1
      <3>3. choice'[a][f] # None => f \in row'[a].modified /\ row'[a].val[f] = choice'[a][f]
        BY <1>6, <2>1, <3>1 DEF Owned
      <3>. QED BY <2>2, <3>1, <3>2, <3>3
    <2>. QED BY <2>3, <2>4
  <1>9. OneHome'
    <2> SUFFICES ASSUME NEW a \in Assignments \ halfDone, row'[a] # None
                 PROVE  queue'[a] = None \/ queue'[a].status \in {"accepted", "merged"}
      BY <1>1 DEF OneHome
    <2>1. row[a] # None
      BY <1>4
    <2>. QED BY <1>1, <1>5, <2>1 DEF OneHome
  <1>10. ConflictStoresAgree'
    <2> SUFFICES ASSUME NEW a \in Assignments, NEW f \in Fields, updates'[a][f] # None
                 PROVE  /\ pending'[a][f] = updates'[a][f]
                        /\ engine' => memory'[a][f] # None
                        /\ engine' /\ ~rolledBack' => memory'[a][f] = updates'[a][f]
      BY DEF ConflictStoresAgree
    <2>1. CASE row[a] # None /\ InConflict(a, f)
      BY <1>1, <1>2, <2>1, ReportedType
    <2>2. CASE ~(row[a] # None /\ InConflict(a, f))
      <3>1. memory'[a][f] = memory[a][f] /\ pending'[a][f] = pending[a][f]
            /\ updates'[a][f] = updates[a][f]
        BY <1>1, <1>2, <2>2, ReportedType
      <3>. QED BY <1>1, <3>1 DEF ConflictStoresAgree
    <2>. QED BY <2>1, <2>2
  <1>. QED BY <1>7, <1>8, <1>9, <1>10 DEF IInv

(* A commit that rolls back: the map of the resolver is ahead.             *)
LEMMA RollbackKeeps ==
  ASSUME IInv, CommitRollsBack
  PROVE  IInv'
  <1>1. /\ TypeOK /\ AllHeld /\ OneHome /\ ConflictStoresAgree
        /\ fetched # None /\ fetched' = None /\ verdict' = NoVerdict /\ rolledBack' = TRUE
        /\ memory' = Reported(memory)
        /\ UNCHANGED <<engine, queue, row, pending, updates, preference, choice, halfDone>>
    BY DEF IInv, CommitRollsBack
  <1>2. /\ memory' \in OfField(Conflicts)
        /\ \A a \in Assignments, f \in Fields : memory[a][f] # None => memory'[a][f] # None
    BY <1>1, ReportedType DEF TypeOK
  <1>. QED BY <1>1, <1>2, NoVerdictType
       DEF IInv, TypeOK, AllHeld, Held, OneHome, ConflictStoresAgree

(* What Canvas may answer.                                                 *)
Fetches ==
  \E data \in [Assignments -> Data], says \in [Assignments -> Verdicts] : Fetch(data, says)

(* The other steps of a synchronisation, a new connection, and the end of  *)
(* the process.                                                            *)
LEMMA QuietSyncStep ==
  ASSUME IInv, Fetches \/ SyncEndsEarly \/ Connect
  PROVE  IInv'
  <1>1. TypeOK /\ AllHeld /\ OneHome /\ ConflictStoresAgree
    BY DEF IInv
  <1>2. CASE Fetches
    BY <1>1, <1>2 DEF Fetches, Fetch, conflictVars, ghostVars,
                      IInv, TypeOK, AllHeld, Held, OneHome, ConflictStoresAgree
  <1>3. CASE SyncEndsEarly
    BY <1>1, <1>3, NoVerdictType DEF SyncEndsEarly, conflictVars, ghostVars,
                      IInv, TypeOK, AllHeld, Held, OneHome, ConflictStoresAgree
  <1>4. CASE Connect
    BY <1>1, <1>4 DEF Connect, IInv, TypeOK, AllHeld, Held, OneHome, ConflictStoresAgree
  <1>. QED BY <1>2, <1>3, <1>4

(* The next start completes graded tasks, and forgets what it overwrites.  *)
LEMMA RestartKeeps ==
  ASSUME IInv, NEW graded \in SUBSET Assignments, Restart(graded)
  PROVE  IInv'
  <1> DEFINE completes(a, f) ==
               a \in graded /\ f \in StatusFields /\ row[a].val[f] # Completed
             v(a) == [f \in Fields |-> IF completes(a, f) THEN Completed ELSE row[a].val[f]]
  <1>1. /\ TypeOK /\ AllHeld /\ OneHome /\ ConflictStoresAgree
        /\ \A a \in graded : row[a] # None
        /\ engine' = FALSE /\ fetched' = None /\ verdict' = NoVerdict
        /\ rolledBack' = FALSE /\ memory' = NoConflicts
        /\ UNCHANGED <<pending, updates, preference, queue, halfDone>>
        /\ row' = [a \in Assignments |->
             IF a \in graded
             THEN [row[a] EXCEPT !.val = [f \in Fields |-> IF completes(a, f) THEN Completed ELSE @[f]]]
             ELSE row[a]]
        /\ choice' = [a \in Assignments |-> [f \in Fields |->
             IF completes(a, f) THEN None ELSE choice[a][f]]]
    BY DEF IInv, Restart, ProcessEnds
  <1>2. ASSUME NEW a \in graded
        PROVE  /\ row'[a] \in Rows /\ row'[a].val = v(a)
               /\ row'[a].source = row[a].source /\ row'[a].modified = row[a].modified
               /\ row'[a].accepted = row[a].accepted
    <2>1. row[a] \in Rows /\ row[a] # None
      BY <1>1 DEF TypeOK
    <2>2. v(a) \in Data
      BY <2>1, RowType, ConstantsAssumption DEF Data
    <2>3. row'[a] = [row[a] EXCEPT !.val = v(a)]
      BY <1>1, <2>1 DEF Rows
    <2> HIDE DEF v
    <2>. QED BY <2>1, <2>2, <2>3 DEF Rows
  <1>3. \A a \in Assignments \ graded : row'[a] = row[a]
    BY <1>1
  <1>4. /\ memory' \in OfField(Conflicts) /\ choice' \in OfField(Values)
    BY <1>1 DEF NoConflicts, OfField, TypeOK
  <1>5. row' \in [Assignments -> Rows \cup {None}]
    BY <1>1, <1>2, <1>3 DEF TypeOK
  <1>6. TypeOK'
    BY <1>1, <1>4, <1>5, NoVerdictType DEF TypeOK
  <1>7. \A a \in Assignments : row'[a] # None <=> row[a] # None
    BY <1>1, <1>2, <1>3, RowType
  <1>8. AllHeld'
    <2> SUFFICES ASSUME NEW a \in Assignments, NEW f \in Fields
                 PROVE  /\ row'[a] # None /\ row'[a].source[f] = "user" => f \in row'[a].modified
                        /\ choice'[a][f] # None =>
                             row'[a] # None /\ f \in row'[a].modified /\ row'[a].val[f] = choice'[a][f]
                        /\ updates'[a][f] # None => row'[a] # None /\ f \in row'[a].modified
                        /\ row'[a] # None /\ ~row'[a].accepted /\ f \in row'[a].modified
                             /\ f \in TieredFields => row'[a].source[f] = "user"
      BY DEF AllHeld, Held
    <2>1. /\ row[a] # None /\ row[a].source[f] = "user" => f \in row[a].modified
          /\ choice[a][f] # None => row[a] # None /\ f \in row[a].modified /\ row[a].val[f] = choice[a][f]
          /\ updates[a][f] # None => row[a] # None /\ f \in row[a].modified
          /\ row[a] # None /\ ~row[a].accepted /\ f \in row[a].modified
               /\ f \in TieredFields => row[a].source[f] = "user"
      BY <1>1 DEF AllHeld, Held
    <2>2. CASE a \in graded
      <3>1. row'[a].val[f] = IF completes(a, f) THEN Completed ELSE row[a].val[f]
        BY <1>2, <2>2
      <3>2. choice'[a][f] = IF completes(a, f) THEN None ELSE choice[a][f]
        BY <1>1
      <3>3. /\ row'[a].source[f] = row[a].source[f] /\ row'[a].modified = row[a].modified
            /\ row'[a].accepted = row[a].accepted
            /\ updates'[a][f] = updates[a][f]
        BY <1>1, <1>2, <2>2
      <3> HIDE DEF completes, v
      <3>. QED BY <1>7, <2>1, <3>1, <3>2, <3>3
    <2>3. CASE a \notin graded
      BY <1>1, <1>3, <2>1, <2>3
    <2>. QED BY <2>2, <2>3
  <1>9. OneHome' /\ ConflictStoresAgree'
    BY <1>1, <1>7 DEF OneHome, ConflictStoresAgree
  <1>. QED BY <1>6, <1>8, <1>9 DEF IInv
-----------------------------------------------------------------------------
(* The user's decisions and edits.                                         *)

(* A row that accepting or merging makes holds what the user asked for.    *)
LEMMA RowMadeKeeps ==
  ASSUME IInv, NEW a \in Assignments, Pending(a),
         NEW mine \in SUBSET EditableFields, NEW v \in Values,
         NEW source \in {None, "canvas"}, RowMade(a, mine, v, source),
         updates' = updates
  PROVE  /\ row' \in [Assignments -> Rows \cup {None}]
         /\ choice' \in OfField(Values)
         /\ AllHeld'
         /\ row' = [row EXCEPT ![a] = row'[a]]
  <1> DEFINE src == [f \in Fields |-> IF f \in mine THEN "user"
                                      ELSE IF f \in EditableFields THEN source ELSE None]
             val == [f \in Fields |-> IF f \in mine THEN v ELSE queue[a].data[f]]
             new == [accepted |-> TRUE, val |-> val, source |-> src, modified |-> mine]
             asked == [f \in Fields |-> IF f \in mine THEN v ELSE None]
  <1>1. /\ TypeOK /\ AllHeld
        /\ row[a] = None /\ row' = [row EXCEPT ![a] = new]
        /\ choice' = [choice EXCEPT ![a] = asked]
        /\ updates' = updates
    BY DEF IInv, RowMade
  <1>2. queue[a] \in Entries
    BY <1>1 DEF TypeOK, Pending
  <1>3. val \in Data /\ src \in [Fields -> Sources] /\ mine \subseteq Fields
    BY <1>2 DEF Data, Entries, EditableFields, Sources
  <1>4. /\ new \in Rows /\ new # None
        /\ new.val = val /\ new.source = src /\ new.modified = mine /\ new.accepted
    <2> HIDE DEF val, src
    <2>1. new \in Rows
      BY <1>3, NewRow
    <2>. QED BY <2>1, RowType
  <1>5. /\ row' \in [Assignments -> Rows \cup {None}] /\ row'[a] = new
        /\ row' = [row EXCEPT ![a] = row'[a]]
    <2> HIDE DEF new
    <2>. QED BY <1>1, <1>4 DEF TypeOK
  <1>6. /\ choice' \in OfField(Values) /\ choice'[a] = asked
        /\ \A b \in Assignments \ {a} : choice'[b] = choice[b]
    BY <1>1 DEF TypeOK, OfField
  <1>7. ASSUME NEW f \in Fields
        PROVE  /\ row'[a].source[f] = "user" => f \in mine
               /\ choice'[a][f] # None => f \in mine /\ row'[a].val[f] = choice'[a][f]
               /\ updates'[a][f] = None
    <2>1. updates'[a][f] = None
      BY <1>1 DEF AllHeld, Held
    <2>2. src[f] = "user" => f \in mine
      BY NoneAssumption
    <2>3. asked[f] # None => f \in mine /\ val[f] = asked[f]
      OBVIOUS
    <2> HIDE DEF src, val, new, asked
    <2>. QED BY <1>4, <1>5, <1>6, <2>1, <2>2, <2>3
  <1>8. Held(row'[a], choice'[a], updates'[a])
    <2> HIDE DEF new, src, val, asked
    <2>. QED BY <1>4, <1>5, <1>7 DEF Held
  <1>9. AllHeld'
    BY <1>1, <1>5, <1>6, <1>8 DEF AllHeld
  <1>. QED BY <1>5, <1>6, <1>9

(* Accepting and merging, whole or cut in half, and rejecting.             *)
LEMMA DecisionKeeps ==
  ASSUME IInv, NEW a \in Assignments, Decision(a)
  PROVE  IInv'
  <1>1. TypeOK /\ AllHeld /\ OneHome /\ ConflictStoresAgree
    BY DEF IInv
  <1>2. ASSUME NEW status \in {"accepted", "rejected", "merged"}, Pending(a), Resolved(a, status)
        PROVE  /\ queue' \in [Assignments -> Entries \cup {None}]
               /\ queue'[a].status = status
               /\ \A b \in Assignments \ {a} : queue'[b] = queue[b]
    <2>1. queue[a] \in Entries
      BY <1>1, <1>2 DEF TypeOK, Pending
    <2>. QED BY <1>1, <1>2, <2>1 DEF TypeOK, Resolved, Entries, Statuses
  <1>3. ASSUME NEW mine \in SUBSET EditableFields, NEW v \in Values,
               Accept(a, mine, v) \/ Merge(a, mine, v)
        PROVE  IInv'
    <2>1. PICK status \in {"accepted", "merged"}, source \in {None, "canvas"} :
            /\ Pending(a) /\ Resolved(a, status) /\ RowMade(a, mine, v, source)
            /\ UNCHANGED <<engine, fetched, verdict, memory, pending, updates, preference,
                           halfDone, rolledBack>>
      BY <1>3 DEF Accept, Merge, syncVars, conflictVars
    <2>2. /\ row' \in [Assignments -> Rows \cup {None}] /\ choice' \in OfField(Values)
          /\ AllHeld' /\ row' = [row EXCEPT ![a] = row'[a]]
      <3>1. updates' = updates
        BY <2>1
      <3>. QED BY <2>1, <3>1, RowMadeKeeps
    <2>3. TypeOK'
      BY <1>1, <1>2, <2>1, <2>2 DEF TypeOK
    <2>4. OneHome' /\ ConflictStoresAgree'
      BY <1>1, <1>2, <2>1, <2>2 DEF OneHome, ConflictStoresAgree
    <2>. QED BY <2>2, <2>3, <2>4 DEF IInv
  <1>4. ASSUME NEW mine \in SUBSET EditableFields, NEW v \in Values,
               NEW source \in {None, "canvas"}, DecisionCutInHalf(a, mine, v, source)
        PROVE  IInv'
    <2>1. /\ Pending(a) /\ RowMade(a, mine, v, source) /\ halfDone' = halfDone \cup {a}
          /\ UNCHANGED <<pending, updates, preference, queue>>
          /\ \/ /\ engine' = FALSE /\ fetched' = None /\ verdict' = NoVerdict
                /\ memory' = NoConflicts /\ rolledBack' = FALSE
             \/ UNCHANGED <<engine, fetched, verdict, memory, rolledBack>>
      BY <1>4 DEF DecisionCutInHalf, ProcessEnds, syncVars, conflictVars
    <2>2. /\ row' \in [Assignments -> Rows \cup {None}] /\ choice' \in OfField(Values)
          /\ AllHeld' /\ row' = [row EXCEPT ![a] = row'[a]]
      <3>1. updates' = updates
        BY <2>1
      <3>. QED BY <2>1, <3>1, RowMadeKeeps
    <2>3. TypeOK'
      <3>1. NoConflicts \in OfField(Conflicts)
        BY DEF NoConflicts, OfField
      <3>2. memory' \in OfField(Conflicts)
        BY <1>1, <2>1, <3>1 DEF TypeOK
      <3>. QED BY <1>1, <2>1, <2>2, <3>2, NoVerdictType DEF TypeOK
    <2>4. OneHome'
      BY <1>1, <2>1, <2>2 DEF OneHome
    <2>5. ConflictStoresAgree'
      BY <1>1, <2>1 DEF ConflictStoresAgree
    <2>. QED BY <2>2, <2>3, <2>4, <2>5 DEF IInv
  <1>5. CASE Reject(a)
    <2>1. /\ Pending(a) /\ Resolved(a, "rejected")
          /\ UNCHANGED <<engine, fetched, verdict, row, memory, pending, updates, preference,
                         choice, halfDone, rolledBack>>
      BY <1>5 DEF Reject, syncVars, conflictVars, ghostVars
    <2>2. TypeOK'
      BY <1>1, <1>2, <2>1 DEF TypeOK
    <2>3. OneHome'
      <3>1. a \in halfDone \/ row[a] = None
        BY <1>1, <2>1 DEF OneHome, Pending
      <3>. QED BY <1>1, <1>2, <2>1, <3>1 DEF OneHome
    <2>4. AllHeld' /\ ConflictStoresAgree'
      BY <1>1, <2>1 DEF AllHeld, Held, ConflictStoresAgree
    <2>. QED BY <2>2, <2>3, <2>4 DEF IInv
  <1>. QED BY <1>3, <1>4, <1>5 DEF Decision

(* Accepting all of the queue makes rows that Canvas owns.                 *)
LEMMA BulkAcceptKeeps ==
  ASSUME IInv, BulkAccept
  PROVE  IInv'
  <1> DEFINE taken == {a \in Assignments : Pending(a) /\ row[a] = None}
             nobody == [f \in Fields |-> None]
             new(a) == [accepted |-> TRUE, val |-> queue[a].data, source |-> nobody, modified |-> {}]
  <1>1. /\ TypeOK /\ AllHeld /\ OneHome /\ ConflictStoresAgree
        /\ row' = [a \in Assignments |-> IF a \in taken THEN new(a) ELSE row[a]]
        /\ queue' = [a \in Assignments |->
             IF a \in taken THEN [queue[a] EXCEPT !.status = "accepted"] ELSE queue[a]]
        /\ choice' = [a \in Assignments |-> IF a \in taken THEN NoConflicts[a] ELSE choice[a]]
        /\ UNCHANGED <<engine, fetched, verdict, memory, pending, updates, preference,
                       halfDone, rolledBack>>
    BY DEF IInv, BulkAccept, syncVars, conflictVars
  <1>2. ASSUME NEW a \in taken
        PROVE  /\ new(a) \in Rows /\ new(a) # None
               /\ new(a).source = nobody /\ new(a).accepted
               /\ [queue[a] EXCEPT !.status = "accepted"] \in Entries
               /\ [queue[a] EXCEPT !.status = "accepted"].status = "accepted"
    <2>1. queue[a] \in Entries
      BY <1>1 DEF TypeOK, Pending
    <2>2. queue[a].data \in Data /\ nobody \in [Fields -> Sources]
      BY <2>1 DEF Entries, Sources
    <2>3. new(a) \in Rows
      <3> HIDE DEF nobody
      <3>. QED BY <2>2, NewRow
    <2>4. /\ [queue[a] EXCEPT !.status = "accepted"] \in Entries
          /\ [queue[a] EXCEPT !.status = "accepted"].status = "accepted"
      BY <2>1 DEF Entries, Statuses
    <2>. QED BY <2>3, <2>4, RowType
  <1>3. /\ row' \in [Assignments -> Rows \cup {None}]
        /\ queue' \in [Assignments -> Entries \cup {None}]
    <2> HIDE DEF new
    <2>. QED BY <1>1, <1>2 DEF TypeOK
  <1>4. choice' \in OfField(Values)
    BY <1>1 DEF TypeOK, OfField, NoConflicts
  <1>5. TypeOK'
    BY <1>1, <1>3, <1>4 DEF TypeOK
  <1>6. ASSUME NEW a \in Assignments
        PROVE  Held(row'[a], choice'[a], updates'[a])
    <2>1. CASE a \in taken
      <3>1. \A f \in Fields : choice'[a][f] = None /\ updates'[a][f] = None
        BY <1>1, <2>1 DEF AllHeld, Held, NoConflicts
      <3>2. row'[a].accepted /\ \A f \in Fields : row'[a].source[f] # "user"
        BY <1>1, <1>2, <2>1, NoneAssumption
      <3>. QED BY <3>1, <3>2 DEF Held
    <2>2. CASE a \notin taken
      <3>1. row'[a] = row[a] /\ choice'[a] = choice[a] /\ updates'[a] = updates[a]
        BY <1>1, <2>2
      <3>. QED BY <1>1, <3>1 DEF AllHeld
    <2>. QED BY <2>1, <2>2
  <1>7. OneHome'
    <2> SUFFICES ASSUME NEW a \in Assignments \ halfDone, row'[a] # None
                 PROVE  queue'[a] = None \/ queue'[a].status \in {"accepted", "merged"}
      BY <1>1 DEF OneHome
    <2>1. CASE a \in taken
      BY <1>1, <1>2, <2>1
    <2>2. CASE a \notin taken
      <3>1. row'[a] = row[a] /\ queue'[a] = queue[a]
        BY <1>1, <2>2
      <3>. QED BY <1>1, <3>1 DEF OneHome
    <2>. QED BY <2>1, <2>2
  <1>8. ConflictStoresAgree'
    BY <1>1 DEF ConflictStoresAgree
  <1>. QED BY <1>5, <1>6, <1>7, <1>8 DEF IInv, AllHeld

(* One field gets a value with its mark and, when the source becomes the   *)
(* user, keeps the mark; the request for it is that value or dropped.      *)
LEMMA FieldKeeps ==
  ASSUME IInv, NEW a \in Assignments, row[a] # None, NEW f \in Fields,
         NEW v \in Values, NEW s \in Sources, NEW M \in SUBSET Fields,
         NEW asked \in {v, None},
         M \in {row[a].modified, row[a].modified \cup {f}, row[a].modified \ {f}},
         s = "user" \/ asked # None \/ updates'[a][f] # None => f \in M,
         ~row[a].accepted /\ f \in M /\ f \in TieredFields => s = "user",
         row' = [row EXCEPT ![a].val[f] = v, ![a].source[f] = s, ![a].modified = M],
         choice' = [choice EXCEPT ![a][f] = asked],
         \A b \in Assignments, g \in Fields : updates'[b][g] \in {updates[b][g], None}
  PROVE  /\ row' \in [Assignments -> Rows \cup {None}]
         /\ choice' \in OfField(Values)
         /\ AllHeld'
         /\ row' = [row EXCEPT ![a] = row'[a]]
  <1>1. TypeOK /\ AllHeld
    BY DEF IInv
  <1>2. row[a] \in Rows /\ row \in [Assignments -> Rows \cup {None}]
    BY <1>1 DEF TypeOK
  <1>3. /\ row' \in [Assignments -> Rows \cup {None}]
        /\ row' = [row EXCEPT ![a] = row'[a]]
        /\ row'[a] \in Rows
        /\ row'[a].val = [row[a].val EXCEPT ![f] = v]
        /\ row'[a].source = [row[a].source EXCEPT ![f] = s]
        /\ row'[a].modified = M /\ row'[a].accepted = row[a].accepted
    <2> DEFINE n == [row[a] EXCEPT !.val[f] = v, !.source[f] = s, !.modified = M]
    <2>1. /\ n \in Rows /\ n.val = [row[a].val EXCEPT ![f] = v]
          /\ n.source = [row[a].source EXCEPT ![f] = s] /\ n.modified = M
          /\ n.accepted = row[a].accepted
      BY <1>2, RowType DEF Rows, Data
    <2>2. row' = [row EXCEPT ![a] = n]
      BY <1>2 DEF Rows
    <2> HIDE DEF n
    <2>3. row'[a] = n
      BY <1>2, <2>2
    <2>4. row' \in [Assignments -> Rows \cup {None}]
      BY <1>2, <2>1, <2>2
    <2>. QED BY <2>1, <2>2, <2>3, <2>4
  <1>4. /\ choice' \in OfField(Values)
        /\ choice'[a] = [choice[a] EXCEPT ![f] = asked]
        /\ \A b \in Assignments \ {a} : choice'[b] = choice[b]
    BY <1>1 DEF TypeOK, OfField
  <1>5. ASSUME NEW g \in Fields
        PROVE  /\ row'[a].source[g] = "user" => g \in M
               /\ choice'[a][g] # None => g \in M /\ row'[a].val[g] = choice'[a][g]
               /\ updates'[a][g] # None => g \in M
               /\ ~row[a].accepted /\ g \in M /\ g \in TieredFields =>
                    row'[a].source[g] = "user"
    <2>1. /\ row[a].source[g] = "user" => g \in row[a].modified
          /\ choice[a][g] # None => g \in row[a].modified /\ row[a].val[g] = choice[a][g]
          /\ updates[a][g] # None => g \in row[a].modified
          /\ ~row[a].accepted /\ g \in row[a].modified /\ g \in TieredFields =>
               row[a].source[g] = "user"
      BY <1>1 DEF AllHeld, Held
    <2>2. /\ row[a].val \in [Fields -> Values]
          /\ row[a].source \in [Fields -> Sources]
          /\ choice[a] \in [Fields -> Values \cup {None}]
      BY <1>1, <1>2, RowType DEF TypeOK, OfField, Data
    <2>3. CASE g = f
      BY <1>3, <1>4, <2>2, <2>3
    <2>4. CASE g # f
      BY <1>3, <1>4, <2>1, <2>2, <2>4
    <2>. QED BY <2>3, <2>4
  <1>6. row'[a] # None
    BY <1>3, RowType
  <1>7. Held(row'[a], choice'[a], updates'[a])
    BY <1>3, <1>5, <1>6 DEF Held
  <1>8. ASSUME NEW b \in Assignments \ {a}
        PROVE  Held(row'[b], choice'[b], updates'[b])
    <2>1. Held(row[b], choice[b], updates[b])
      BY <1>1 DEF AllHeld
    <2>2. row'[b] = row[b]
      BY <1>2, <1>3
    <2>. QED BY <1>4, <2>1, <2>2 DEF Held
  <1>. QED BY <1>3, <1>4, <1>7, <1>8 DEF AllHeld

(* The user changes a field, or marks the task complete.                   *)
LEMMA EditKeeps ==
  ASSUME IInv, NEW a \in Assignments, NEW f \in Fields, NEW v \in Values,
         Edit(a, f, v) \/ MarkComplete(a, f, v)
  PROVE  IInv'
  <1>1. TypeOK /\ OneHome /\ ConflictStoresAgree
    BY DEF IInv
  <1>2. row[a] # None
    BY DEF Edit, MarkComplete, Edited
  <1>3. row[a] \in Rows
    BY <1>1, <1>2 DEF TypeOK
  <1>4. PICK s \in Sources : Edited(a, f, v, s) /\ (s = "user" \/ f \in StatusFields)
    BY <1>3, RowType DEF Edit, MarkComplete, Sources
  <1>5. /\ row' = [row EXCEPT ![a].val[f] = v, ![a].source[f] = s,
                              ![a].modified = row[a].modified \cup {f}]
        /\ choice' = [choice EXCEPT ![a][f] = v]
        /\ UNCHANGED <<engine, fetched, verdict, queue, memory, pending, updates, preference,
                       halfDone, rolledBack>>
    BY <1>1, <1>4 DEF Edited, syncVars, conflictVars, TypeOK
  <1> DEFINE M == row[a].modified \cup {f}
  <1>6. M \in SUBSET Fields /\ f \in M
    BY <1>3, RowType
  <1>7. /\ row' \in [Assignments -> Rows \cup {None}] /\ choice' \in OfField(Values)
        /\ AllHeld' /\ row' = [row EXCEPT ![a] = row'[a]]
    <2>1. \A b \in Assignments, g \in Fields : updates'[b][g] \in {updates[b][g], None}
      BY <1>5
    <2>2. f \in TieredFields => s = "user"
      BY <1>4, ConstantsAssumption
    <2>3. M \in {row[a].modified, row[a].modified \cup {f}, row[a].modified \ {f}}
      OBVIOUS
    <2>4. row' = [row EXCEPT ![a].val[f] = v, ![a].source[f] = s, ![a].modified = M]
      BY <1>5
    <2>5. v \in {v, None} /\ choice' = [choice EXCEPT ![a][f] = v]
      BY <1>5
    <2> HIDE DEF M
    <2>. QED BY <1>2, <1>6, <2>1, <2>2, <2>3, <2>4, <2>5, FieldKeeps
  <1>8. TypeOK'
    BY <1>1, <1>5, <1>7 DEF TypeOK
  <1>9. OneHome' /\ ConflictStoresAgree'
    BY <1>1, <1>2, <1>5, <1>7 DEF OneHome, ConflictStoresAgree
  <1>. QED BY <1>7, <1>8, <1>9 DEF IInv

(* The user settles a conflict that is shown.  Of a connected app the map  *)
(* of the resolver has it, so the case that sets no source arises only     *)
(* without an engine, where the mark stays.                                *)
LEMMA ResolveKeeps ==
  ASSUME IInv, NEW a \in Assignments, NEW f \in Fields,
         NEW side \in {"local", "canvas"}, NEW remember \in BOOLEAN,
         ResolveConflict(a, f, side, remember)
  PROVE  IInv'
  <1> DEFINE known == memory[a][f] # None
             v == Resolvable(a, f)[side]
             s == IF known THEN SourceOf(side) ELSE row[a].source[f]
             M == IF ~known THEN row[a].modified
                  ELSE IF side = "canvas" THEN row[a].modified \ {f}
                  ELSE row[a].modified \cup {f}
             asked == IF side = "canvas" THEN None ELSE v
  <1>1. TypeOK /\ AllHeld /\ OneHome /\ ConflictStoresAgree
    BY DEF IInv
  <1>2. /\ updates[a][f] # None
        /\ updates' = [updates EXCEPT ![a][f] = None]
        /\ choice' = [choice EXCEPT ![a][f] = asked]
        /\ UNCHANGED <<engine, fetched, verdict, queue, halfDone, rolledBack>>
    BY DEF ResolveConflict, syncVars
  <1>3. /\ row[a] # None /\ f \in row[a].modified
        /\ engine => known
    BY <1>1, <1>2 DEF AllHeld, Held, ConflictStoresAgree
  <1>4. row[a] \in Rows
    BY <1>1, <1>3 DEF TypeOK
  <1>5. v \in Values /\ v # None
    <2>1. Resolvable(a, f) \in Conflicts
      BY <1>1, <1>2 DEF Resolvable, TypeOK, OfField
    <2>. QED BY <2>1, ConstantsAssumption DEF Conflicts
  <1>6. row' = [row EXCEPT ![a].val[f] = v, ![a].source[f] = s, ![a].modified = M]
    <2>1. CASE known
      BY <1>1, <2>1 DEF ResolveConflict, TypeOK
    <2>2. CASE ~known
      <3>1. row' = [row EXCEPT ![a].val[f] = v, ![a].modified = row[a].modified]
        BY <1>1, <1>3, <2>2 DEF ResolveConflict, TypeOK
      <3>2. row[a] = [row[a] EXCEPT !.source[f] = row[a].source[f]]
        BY <1>4, RowType DEF Rows
      <3>3. [row[a] EXCEPT !.val[f] = v, !.modified = row[a].modified] =
            [row[a] EXCEPT !.val[f] = v, !.source[f] = row[a].source[f],
                           !.modified = row[a].modified]
        <4> HIDE DEF v
        <4>. QED BY <1>4, <3>2, RowType DEF Rows, Data
      <3>4. s = row[a].source[f] /\ M = row[a].modified
        BY <2>2
      <3> HIDE DEF v, s, M
      <3>. QED BY <3>1, <3>3, <3>4
    <2>. QED BY <2>1, <2>2
  <1>7. /\ s \in Sources /\ M \in SUBSET Fields
        /\ M \in {row[a].modified, row[a].modified \cup {f}, row[a].modified \ {f}}
        /\ asked \in {v, None}
        /\ s = "user" \/ asked # None => f \in M
        /\ ~row[a].accepted /\ f \in M /\ f \in TieredFields => s = "user"
    <2>1. row[a].source[f] \in Sources /\ SourceOf(side) \in Sources
      BY <1>4, RowType DEF SourceOf, Sources
    <2>2. ~row[a].accepted /\ f \in row[a].modified /\ f \in TieredFields =>
            row[a].source[f] = "user"
      BY <1>1, <1>3 DEF AllHeld, Held
    <2>. QED BY <1>3, <1>4, <2>1, <2>2, RowType DEF SourceOf
  <1>8. \A b \in Assignments, g \in Fields :
          updates'[b][g] = IF b = a /\ g = f THEN None ELSE updates[b][g]
    BY <1>1, <1>2 DEF TypeOK, OfField
  <1>9. /\ row' \in [Assignments -> Rows \cup {None}] /\ choice' \in OfField(Values)
        /\ AllHeld' /\ row' = [row EXCEPT ![a] = row'[a]]
    <2>1. \A b \in Assignments, g \in Fields : updates'[b][g] \in {updates[b][g], None}
      BY <1>8
    <2>2. s = "user" \/ asked # None \/ updates'[a][f] # None => f \in M
      BY <1>7, <1>8
    <2> HIDE DEF known, v, s, M, asked
    <2>. QED BY <1>2, <1>3, <1>5, <1>6, <1>7, <2>1, <2>2, FieldKeeps
  <1>10. /\ memory' \in OfField(Conflicts) /\ pending' \in OfField(Conflicts)
         /\ preference' \in OfField({"canvas", "local"})
         /\ \A b \in Assignments, g \in Fields : b # a \/ g # f =>
              memory'[b][g] = memory[b][g] /\ pending'[b][g] = pending[b][g]
    <2>1. CASE known
      <3>1. /\ memory' = [memory EXCEPT ![a][f] = None]
            /\ pending' = [pending EXCEPT ![a][f] = None]
            /\ preference' \in {preference, [preference EXCEPT ![a][f] = side]}
        BY <2>1 DEF ResolveConflict, ResolvedInResolver
      <3>2. side \in {"canvas", "local"} /\ TypeOK
        BY <1>1
      <3> HIDE DEF known, v, s, M, asked
      <3>3. preference' \in OfField({"canvas", "local"})
        <4>1. CASE preference' = preference
          BY <3>2, <4>1 DEF TypeOK
        <4>2. CASE preference' = [preference EXCEPT ![a][f] = side]
          BY <3>2, <4>2 DEF TypeOK, OfField
        <4>. QED BY <3>1, <4>1, <4>2
      <3>4. memory' \in OfField(Conflicts) /\ pending' \in OfField(Conflicts)
        BY <3>1, <3>2 DEF TypeOK, OfField
      <3>5. \A b \in Assignments, g \in Fields : b # a \/ g # f =>
              memory'[b][g] = memory[b][g] /\ pending'[b][g] = pending[b][g]
        BY <3>1, <3>2 DEF TypeOK, OfField
      <3>. QED BY <3>3, <3>4, <3>5
    <2>2. CASE ~known
      <3>1. UNCHANGED <<memory, pending, preference>>
        BY <2>2 DEF ResolveConflict
      <3>. QED BY <1>1, <3>1 DEF TypeOK
    <2>. QED BY <2>1, <2>2
  <1>11. TypeOK'
    <2>1. updates' \in OfField(Conflicts)
      BY <1>1, <1>2 DEF TypeOK, OfField
    <2>. QED BY <1>1, <1>2, <1>9, <1>10, <2>1 DEF TypeOK
  <1>12. OneHome'
    BY <1>1, <1>2, <1>3, <1>9 DEF OneHome
  <1>13. ConflictStoresAgree'
    BY <1>1, <1>2, <1>8, <1>10 DEF ConflictStoresAgree
  <1>. QED BY <1>9, <1>11, <1>12, <1>13 DEF IInv

(* A task is deleted, with its conflicts and preferences.                  *)
LEMMA DeleteKeeps ==
  ASSUME IInv, NEW a \in Assignments, DeleteTask(a)
  PROVE  IInv'
  <1>1. TypeOK /\ AllHeld /\ OneHome /\ ConflictStoresAgree
    BY DEF IInv
  <1>2. /\ row' = [row EXCEPT ![a] = None]
        /\ memory' = [memory EXCEPT ![a] = NoConflicts[a]]
        /\ pending' = [pending EXCEPT ![a] = NoConflicts[a]]
        /\ updates' = [updates EXCEPT ![a] = NoConflicts[a]]
        /\ preference' = [preference EXCEPT ![a] = NoConflicts[a]]
        /\ choice' = [choice EXCEPT ![a] = NoConflicts[a]]
        /\ UNCHANGED <<engine, fetched, verdict, queue, halfDone, rolledBack>>
    BY DEF DeleteTask, syncVars
  <1>3. \A f \in Fields : NoConflicts[a][f] = None
    BY DEF NoConflicts
  <1>4. TypeOK'
    BY <1>1, <1>2 DEF TypeOK, OfField, NoConflicts
  <1>5. AllHeld'
    BY <1>1, <1>2, <1>3 DEF TypeOK, OfField, AllHeld, Held
  <1>6. OneHome' /\ ConflictStoresAgree'
    BY <1>1, <1>2, <1>3 DEF TypeOK, OfField, OneHome, ConflictStoresAgree
  <1>. QED BY <1>4, <1>5, <1>6 DEF IInv

(* A preference ends.                                                      *)
LEMMA PreferenceEndKeeps ==
  ASSUME IInv, NEW a \in Assignments, NEW f \in Fields, PreferenceEnds(a, f)
  PROVE  IInv'
  <1>1. TypeOK /\ AllHeld /\ OneHome /\ ConflictStoresAgree
    BY DEF IInv
  <1>2. /\ preference' = [preference EXCEPT ![a][f] = None]
        /\ UNCHANGED <<engine, fetched, verdict, queue, row, memory, pending, updates,
                       choice, halfDone, rolledBack>>
    BY DEF PreferenceEnds, syncVars, conflictVars, ghostVars
  <1>3. TypeOK'
    BY <1>1, <1>2 DEF TypeOK, OfField
  <1>. QED BY <1>1, <1>2, <1>3 DEF IInv, AllHeld, Held, OneHome, ConflictStoresAgree

-----------------------------------------------------------------------------
(* The inductive invariant.                                                *)

(* It holds at first: nothing is asked for, shown or the user's.           *)
LEMMA InitIInv ==
  ASSUME Init
  PROVE  IInv
  <1>1. NoConflicts \in OfField(Conflicts) /\ NoConflicts \in OfField(Values)
        /\ NoConflicts \in OfField({"canvas", "local"})
        /\ \A a \in Assignments, f \in Fields : NoConflicts[a][f] = None
    BY DEF NoConflicts, OfField
  <1>2. LegacyRows \subseteq Rows
    BY DEF LegacyRows, Rows, SyncedSource, Sources
  <1>3. /\ row \in [Assignments -> LegacyRows \cup {None}]
        /\ queue = [a \in Assignments |-> None]
        /\ engine = FALSE /\ fetched = None /\ verdict = NoVerdict
        /\ halfDone = {} /\ rolledBack = FALSE
        /\ memory = NoConflicts /\ pending = NoConflicts /\ updates = NoConflicts
        /\ preference = NoConflicts /\ choice = NoConflicts
    BY DEF Init
  <1>4. TypeOK
    BY <1>1, <1>2, <1>3, NoVerdictType DEF TypeOK
  <1>5. AllHeld
    <2> SUFFICES ASSUME NEW a \in Assignments, NEW f \in Fields, row[a] # None
                 PROVE  row[a].source[f] # "user" /\ row[a].modified = {}
      BY <1>1, <1>3 DEF AllHeld, Held
    <2>1. row[a] \in LegacyRows
      BY <1>3
    <2>. QED BY <2>1, NoneAssumption DEF LegacyRows, SyncedSource
  <1>6. OneHome /\ ConflictStoresAgree
    BY <1>1, <1>3 DEF OneHome, ConflictStoresAgree
  <1>. QED BY <1>4, <1>5, <1>6 DEF IInv

(* Every step keeps it.                                                    *)
LEMMA NextIInv ==
  ASSUME IInv, [Next]_vars
  PROVE  IInv'
  <1>1. CASE Synchronisation
    <2>1. CASE Fetches \/ SyncEndsEarly \/ Connect
      BY <2>1, QuietSyncStep
    <2>2. ASSUME NEW failed \in SUBSET Assignments, CommitSucceeds(failed)
          PROVE  IInv'
      BY <2>2, CommitKeeps
    <2>3. CASE CommitRollsBack
      BY <2>3, RollbackKeeps
    <2>4. ASSUME NEW graded \in SUBSET Assignments, Restart(graded)
          PROVE  IInv'
      BY <2>4, RestartKeeps
    <2>. QED BY <1>1, <2>1, <2>2, <2>3, <2>4 DEF Synchronisation, Fetches
  <1>2. CASE BulkAccept
    BY <1>2, BulkAcceptKeeps
  <1>3. ASSUME NEW a \in Assignments, Decision(a)
        PROVE  IInv'
    BY <1>3, DecisionKeeps
  <1>4. ASSUME NEW a \in Assignments, DeleteTask(a)
        PROVE  IInv'
    BY <1>4, DeleteKeeps
  <1>5. ASSUME NEW a \in Assignments, NEW f \in Fields, Change(a, f)
        PROVE  IInv'
    <2>1. ASSUME NEW v \in Values, Edit(a, f, v) \/ MarkComplete(a, f, v)
          PROVE  IInv'
      BY <2>1, EditKeeps
    <2>2. ASSUME NEW side \in {"local", "canvas"}, NEW remember \in BOOLEAN,
                 ResolveConflict(a, f, side, remember)
          PROVE  IInv'
      BY <2>2, ResolveKeeps
    <2>3. CASE PreferenceEnds(a, f)
      BY <2>3, PreferenceEndKeeps
    <2>. QED BY <1>5, <2>1, <2>2, <2>3 DEF Change
  <1>6. CASE UNCHANGED vars
    <2>1. UNCHANGED <<engine, fetched, verdict, queue, row, memory, pending, updates, preference,
                      choice, halfDone, rolledBack>>
      BY <1>6 DEF vars, syncVars, conflictVars, ghostVars
    <2>. QED BY <2>1 DEF IInv, TypeOK, AllHeld, Held, OneHome, ConflictStoresAgree
  <1>. QED BY <1>1, <1>2, <1>3, <1>4, <1>5, <1>6 DEF Next

(* The strengthening of the invariants is inductive.                       *)
LEMMA Invariance == Spec => []IInv
  <1>1. Init => IInv
    BY InitIInv
  <1>2. IInv /\ [Next]_vars => IInv'
    BY NextIInv
  <1>. QED BY <1>1, <1>2, PTL DEF Spec

-----------------------------------------------------------------------------
(* The theorems.                                                           *)

(* The tables, the resolver's map and the queue hold what TypeOK says.     *)
THEOREM TypeCorrect == Spec => []TypeOK
  <1>1. IInv => TypeOK
    BY DEF IInv
  <1>. QED BY <1>1, Invariance, PTL

(* What the user asked for stands, through syncs, rollbacks, restarts and  *)
(* the resolution of conflicts.                                            *)
THEOREM ChoicesKept == Spec => []ChoicesStand
  <1>1. IInv => ChoicesStand
    BY DEF IInv, AllHeld, Held, ChoicesStand
  <1>. QED BY <1>1, Invariance, PTL

(* No assignment is in the task list and, undecided or refused, in the     *)
(* queue, unless a crash cut its acceptance in half.                       *)
THEOREM NeverInBothPlaces == Spec => []OneHome
  <1>1. IInv => OneHome
    BY DEF IInv
  <1>. QED BY <1>1, Invariance, PTL

(* The three stores of conflicts agree on what is shown.                   *)
THEOREM StoresAgree == Spec => []ConflictStoresAgree
  <1>1. IInv => ConflictStoresAgree
    BY DEF IInv
  <1>. QED BY <1>1, Invariance, PTL

(* A decided entry of the queue is never undecided again, nor lost.        *)
THEOREM DecisionsStay == Spec => DecisionsFinal
  <1> DEFINE Final == \A a \in Assignments :
               queue[a] # None =>
                 /\ queue'[a] # None
                 /\ queue'[a].status = queue[a].status \/ queue[a].status = "pending"
  <1>1. ASSUME IInv, [Next]_vars
        PROVE  Final
    <2>1. TypeOK
      BY <1>1 DEF IInv
    <2>2. \A a \in Assignments : queue[a] # None => queue[a] \in Entries
      BY <2>1 DEF TypeOK
    <2>3. CASE UNCHANGED queue
      BY <2>3
    <2>4. ASSUME NEW failed \in SUBSET Assignments, CommitSucceeds(failed)
          PROVE  Final
      <3>1. ASSUME NEW a \in Assignments, queue[a] # None
            PROVE  Queued(a) # None /\ Queued(a).status = queue[a].status
        <4>1. fetched[a] \in Data
          BY <2>1, <2>4 DEF TypeOK, CommitSucceeds
        <4>2. Queued(a) \in Entries
          BY <2>2, <3>1, <4>1 DEF Queued, Entries
        <4>. QED BY <3>1, <4>2, NoneAssumption DEF Queued
      <3>. QED BY <2>4, <3>1 DEF CommitSucceeds
    <2>5. ASSUME NEW a \in Assignments, NEW status \in Statuses,
                 Pending(a), Resolved(a, status)
          PROVE  Final
      <3>1. queue[a] \in Entries /\ queue[a].status = "pending"
        BY <2>2, <2>5 DEF Pending
      <3>2. [queue[a] EXCEPT !.status = status] \in Entries
        BY <3>1 DEF Entries
      <3>. QED BY <2>1, <2>5, <3>1, <3>2, NoneAssumption DEF Resolved, TypeOK
    <2>6. CASE BulkAccept
      <3>1. ASSUME NEW a \in Assignments, Pending(a)
            PROVE  [queue[a] EXCEPT !.status = "accepted"] # None
        <4>1. [queue[a] EXCEPT !.status = "accepted"] \in Entries
          BY <2>2, <3>1 DEF Pending, Entries, Statuses
        <4>. QED BY <4>1, NoneAssumption
      <3>. QED BY <2>6, <3>1 DEF BulkAccept, Pending
    <2>7. ASSUME NEW a \in Assignments, Decision(a)
          PROVE  Final
      <3>1. UNCHANGED queue \/ \E status \in Statuses : Pending(a) /\ Resolved(a, status)
        BY <2>7 DEF Decision, Accept, Merge, Reject, DecisionCutInHalf, Statuses
      <3>. QED BY <2>3, <2>5, <3>1
    <2>8. ASSUME Synchronisation
          PROVE  Final
      <3>1. UNCHANGED queue \/ \E failed \in SUBSET Assignments : CommitSucceeds(failed)
        BY <2>8 DEF Synchronisation, Fetch, Connect, CommitRollsBack, SyncEndsEarly, Restart
      <3>. QED BY <2>3, <2>4, <3>1
    <2>9. ASSUME NEW a \in Assignments, NEW f \in Fields, Change(a, f)
          PROVE  UNCHANGED queue
      BY <2>9 DEF Change, Edit, MarkComplete, Edited, ResolveConflict, PreferenceEnds
    <2>10. ASSUME NEW a \in Assignments, DeleteTask(a)
           PROVE  UNCHANGED queue
      BY <2>10 DEF DeleteTask
    <2>. QED BY <1>1, <2>3, <2>6, <2>7, <2>8, <2>9, <2>10 DEF Next, vars
  <1>2. IInv /\ [Next]_vars => [Final]_vars
    BY <1>1
  <1>3. DecisionsFinal <=> [][Final]_vars
    BY DEF DecisionsFinal
  <1> HIDE DEF Final
  <1>. QED BY <1>2, <1>3, Invariance, PTL DEF Spec

(* A committed sync hides no difference from the user, but that of a type  *)
(* about which the tiers decide.                                           *)
THEOREM DifferencesReported == Spec => DifferencesShown
  <1> DEFINE Commit == \E failed \in SUBSET Assignments : CommitSucceeds(failed)
             Shown == \A a \in Assignments, f \in Fields :
               row[a] # None /\ Owned(row[a], f) /\ row'[a].val[f] # fetched[a][f] =>
                 \/ updates'[a][f] = [local |-> row'[a].val[f], canvas |-> fetched[a][f]]
                 \/ preference[a][f] # None
                 \/ f \in TieredFields /\ Verdict(a, f) # "conflict"
  <1>1. ASSUME IInv, Commit
        PROVE  Shown
    <2>1. PICK failed \in SUBSET Assignments : CommitSucceeds(failed)
      BY <1>1
    <2>2. TypeOK /\ AllHeld /\ fetched # None
      BY <1>1, <2>1 DEF IInv, CommitSucceeds
    <2> SUFFICES ASSUME NEW a \in Assignments, NEW f \in Fields, row[a] # None,
                        Owned(row[a], f), row'[a].val[f] # fetched[a][f], preference[a][f] = None,
                        f \in TieredFields => Verdict(a, f) = "conflict"
                 PROVE  updates'[a][f] = [local |-> row'[a].val[f], canvas |-> fetched[a][f]]
      OBVIOUS
    <2>3. row'[a].val[f] = row[a].val[f]
      <3>1. row'[a] = IF a \in failed THEN row[a] ELSE CommittedRow(a)
        BY <2>1 DEF CommitSucceeds
      <3>2. preference[a][f] # "canvas"
        BY <2>2, NoneAssumption DEF TypeOK, OfField
      <3>3. f \in TieredFields => row[a].accepted \/ row[a].source[f] = "user"
        BY <2>2 DEF AllHeld, Held, Owned
      <3>. QED BY <2>2, <3>1, <3>2, <3>3, CommittedRowKeeps
    <2>4. InConflict(a, f)
      BY <2>3 DEF InConflict, OpenToUser, Differs
    <2>. QED BY <2>1, <2>3, <2>4 DEF CommitSucceeds, Reported
  <1>2. IInv /\ [Next]_vars => [Commit => Shown]_vars
    BY <1>1
  <1>3. DifferencesShown <=> [][Commit => Shown]_vars
    BY DEF DifferencesShown
  <1> HIDE DEF Commit, Shown
  <1>. QED BY <1>2, <1>3, Invariance, PTL DEF Spec
=============================================================================
