----------------------------- MODULE TaskReview -----------------------------
(***************************************************************************)
(* What the user decides about Canvas assignments, and what the next       *)
(* synchronisations make of it.  A full sync puts new assignments into the *)
(* queue (canvas_task_queue); the user accepts, rejects or merges them;    *)
(* the commit phase (orchestrator/SyncCommitPhase.ts) then updates the     *)
(* rows of the table tasks, and the SyncConflictResolver finds the fields  *)
(* in which a row the user edited and Canvas differ.  Such a conflict is   *)
(* kept three times: in the resolver's map, in pending_sync_conflicts,     *)
(* from which a new resolver loads its map, and as an unresolved row of    *)
(* sync_updates, which is what the Updates page shows.                     *)
(*                                                                         *)
(* One action is one command, one IPC handler or one phase of a sync: all  *)
(* of them run without an await between their statements.  The commit is a *)
(* transaction; accepting and merging are two statements on their own.     *)
(*                                                                         *)
(* Bounds and simplifications: one sync at a time and no new connection    *)
(* during one (SyncEngine has those); a preference for all entities and    *)
(* the resolution of all conflicts at once are not modelled (no caller in  *)
(* the user interface); a conflict of a deleted row leaves the state (the  *)
(* code keeps it under the old id, which no later row has).                *)
(*                                                                         *)
(* A definition that directly precedes another and is used nowhere is a    *)
(* mutant of it (PROJECT.json names them).                                 *)
(***************************************************************************)
EXTENDS FiniteSets

CONSTANTS
  Assignments,
  Fields,      (* the fields for which users and Canvas can differ          *)
  StatusFields,(* of these, the ones a commit writes to an accepted row:    *)
               (* is_completed; title, due_at and task_type are the others  *)
  TieredFields,(* task_type: what Canvas has is a guess from the text, with *)
               (* a tier and a confidence, which decide first               *)
  Values,
  Completed,   (* the value of the status fields that a grade implies       *)
  None         (* no value, no conflict, no preference, no row, no data     *)

ASSUME ConstantsAssumption ==
  /\ StatusFields \subseteq Fields
  /\ TieredFields \subseteq Fields \ StatusFields
  /\ Completed \in Values
  /\ None \notin Values

VARIABLES
  engine,      (* a SyncEngine and its resolver exist (Canvas is connected) *)
  fetched,     (* the data of the sync between its fetch and its commit     *)
  verdict,     (* what the tiers fetched with it say against those of a row *)
  queue,       (* canvas_task_queue: [status, data], or None                *)
  row,         (* tasks: [accepted, val, source, modified], or None         *)
  memory,      (* pendingConflicts of the resolver: [local, canvas] or None *)
  pending,     (* pending_sync_conflicts                                    *)
  updates,     (* the unresolved conflict rows of sync_updates              *)
  preference,  (* sync_preferences: "canvas", "local" or None               *)
  choice,      (* ghost: the value the user last asked for, until the user  *)
               (* asks for that of Canvas                                   *)
  halfDone,    (* ghost: assignments whose decision was cut in half         *)
  rolledBack   (* ghost: the resolver met a transaction that rolled back    *)

syncVars     == <<engine, fetched, verdict>>
conflictVars == <<memory, pending, updates>>
ghostVars    == <<choice, halfDone, rolledBack>>
vars == <<syncVars, queue, row, conflictVars, preference, ghostVars>>

Data        == [Fields -> Values]
Statuses    == {"pending", "accepted", "rejected", "merged"}
Entries     == [status : Statuses, data : Data]
Sources     == {"canvas", "user", "tiered", None}
Verdicts    == {"canvas", "local", "conflict"}
Rows        == [accepted : BOOLEAN, val : Data,
                source : [Fields -> Sources], modified : SUBSET Fields]
Conflicts   == [local : Values, canvas : Values]
NoConflicts == [a \in Assignments |-> [f \in Fields |-> None]]
OfField(S)  == [Assignments -> [Fields -> S \cup {None}]]

ASSUME NoneAssumption == None \notin Entries \cup Rows \cup Conflicts \cup {"user", "canvas", "tiered"}

(* What a row that the sync itself has written says of its fields' sources.*)
SyncedSource == [f \in Fields |-> IF f \in TieredFields THEN "tiered" ELSE None]

(* A row from before the queue existed has no acceptance_method; nobody    *)
(* touched its fields yet.                                                 *)
LegacyRows == [accepted : {FALSE}, val : Data,
               source : {SyncedSource, [f \in Fields |-> None]}, modified : {{}}]

NoVerdict == [a \in Assignments |-> "canvas"]

Init ==
  /\ engine = FALSE
  /\ fetched = None /\ verdict = NoVerdict
  /\ queue = [a \in Assignments |-> None]
  /\ row \in [Assignments -> LegacyRows \cup {None}]
  /\ memory = NoConflicts /\ pending = NoConflicts /\ updates = NoConflicts
  /\ preference = NoConflicts
  /\ choice = NoConflicts
  /\ halfDone = {}
  /\ rolledBack = FALSE

-----------------------------------------------------------------------------
(* The synchronisation.                                                    *)

(* Canvas may answer anything each time, and the classification of its     *)
(* texts may beat the one a row keeps, or not.                             *)
Fetch(data, says) ==
  /\ engine /\ fetched = None
  /\ fetched' = data
  /\ verdict' = says
  /\ UNCHANGED <<engine, queue, row, conflictVars, preference, ghostVars>>

(* detectConflicts.  A field is the user's if its source says so or it was *)
(* modified locally; the resolver has a say only where the two differ.     *)
OwnedBySource(r, f) == r.source[f] = "user"
Owned(r, f) == r.source[f] = "user" \/ f \in r.modified

Differs(a, f) == Owned(row[a], f) /\ row[a].val[f] # fetched[a][f]

(* handleTaskTypeConflict: a type whose source is the user stays, one      *)
(* without tiers gives way, and tiers are compared with tiers: a better    *)
(* one wins, a worse one or an equal one that is no surer loses, and a     *)
(* surer one of the same tier or a worse is left to the other rules.       *)
Verdict(a, f) ==
  IF row[a].source[f] = "user" THEN "local"
  ELSE IF row[a].source[f] = "tiered" THEN verdict[a]
  ELSE "canvas"

OpenToUser(a, f) ==
  Differs(a, f) /\ (f \in TieredFields => Verdict(a, f) = "conflict")

InConflictOnce(a, f) ==
  OpenToUser(a, f) /\ preference[a][f] = None /\ memory[a][f] = None
InConflict(a, f) == OpenToUser(a, f) /\ preference[a][f] = None

KeptLocal(a, f) ==
  \/ OpenToUser(a, f) /\ preference[a][f] # "canvas"
  \/ /\ f \in TieredFields /\ Verdict(a, f) = "local"
     /\ row[a].val[f] # fetched[a][f]

(* What a store of conflicts holds once the commit has reported its own:   *)
(* one per field, renewed; those that are no conflicts any more stay.      *)
Reported(store) ==
  [a \in Assignments |-> [f \in Fields |->
     IF row[a] # None /\ InConflict(a, f)
     THEN [local |-> row[a].val[f], canvas |-> fetched[a][f]]
     ELSE store[a][f]]]

(* commitAcceptedTask and commitLegacyTask: of an accepted row only the    *)
(* status fields are written; a legacy row is replaced, its field_sources  *)
(* included, and counts as accepted from then on.                          *)
Written(a, f) ==
  /\ f \in StatusFields \/ ~row[a].accepted
  /\ ~KeptLocal(a, f)

CommittedRow(a) ==
  [row[a] EXCEPT
     !.accepted = TRUE,
     !.val = [f \in Fields |-> IF Written(a, f) THEN fetched[a][f] ELSE row[a].val[f]],
     !.source = IF row[a].accepted THEN @ ELSE SyncedSource]

(* The four decisions for an assignment without a row: a queue entry keeps *)
(* its status, whatever it is.                                             *)
QueuedAgain(a) == [status |-> "pending", data |-> fetched[a]]
Queued(a) ==
  [status |-> IF queue[a] = None THEN "pending" ELSE queue[a].status,
   data |-> fetched[a]]

(* The transaction commits.  An assignment in failed met an error of its   *)
(* own, after the conflicts were reported.                                 *)
CommitSucceeds(failed) ==
  /\ engine /\ fetched # None
  /\ fetched' = None /\ verdict' = NoVerdict
  /\ memory' = Reported(memory)
  /\ pending' = Reported(pending)
  /\ updates' = Reported(updates)
  /\ row' = [a \in Assignments |->
               IF row[a] = None \/ a \in failed THEN row[a] ELSE CommittedRow(a)]
  /\ queue' = [a \in Assignments |->
                 IF row[a] # None \/ a \in failed THEN queue[a] ELSE Queued(a)]
  /\ choice' = [a \in Assignments |-> [f \in Fields |->
                  IF preference[a][f] = "canvas" THEN None ELSE choice[a][f]]]
  /\ UNCHANGED <<engine, preference, halfDone, rolledBack>>

(* The transaction rolls back: the tables are as before, the map is not.   *)
CommitRollsBack ==
  /\ engine /\ fetched # None
  /\ fetched' = None /\ verdict' = NoVerdict
  /\ memory' = Reported(memory)
  /\ rolledBack' = TRUE
  /\ UNCHANGED <<engine, queue, row, pending, updates, preference, choice, halfDone>>

(* Aborted, or failed, before the commit.                                  *)
SyncEndsEarly ==
  /\ fetched # None
  /\ fetched' = None /\ verdict' = NoVerdict
  /\ UNCHANGED <<engine, queue, row, conflictVars, preference, ghostVars>>
-----------------------------------------------------------------------------
(* The user's decisions on the queue.                                      *)

EditableFields == Fields \ StatusFields

PendingOrDecided(a) == queue[a] # None
Pending(a) == queue[a] # None /\ queue[a].status = "pending"

Resolved(a, status) == queue' = [queue EXCEPT ![a].status = status]

(* The INSERT of accepting and the UPDATE of merging: mine are the fields  *)
(* that get v, edited by the user or kept from the user's own task; a      *)
(* merge notes the source of the others too, accepting does not.  With a   *)
(* row in place the unique external_id fails both.                         *)
RowMade(a, mine, v, source) ==
  /\ row[a] = None
  /\ row' = [row EXCEPT ![a] =
       [accepted |-> TRUE,
        val      |-> [f \in Fields |-> IF f \in mine THEN v ELSE queue[a].data[f]],
        source   |-> [f \in Fields |-> IF f \in mine THEN "user"
                                       ELSE IF f \in EditableFields THEN source ELSE None],
        modified |-> mine]]
  /\ choice' = [choice EXCEPT ![a] = [f \in Fields |-> IF f \in mine THEN v ELSE None]]

Accept(a, mine, v) ==
  /\ Pending(a)
  /\ RowMade(a, mine, v, None)
  /\ Resolved(a, "accepted")
  /\ UNCHANGED <<syncVars, conflictVars, preference, halfDone, rolledBack>>

Merge(a, mine, v) ==
  /\ Pending(a)
  /\ RowMade(a, mine, v, "canvas")
  /\ Resolved(a, "merged")
  /\ UNCHANGED <<syncVars, conflictVars, preference, halfDone, rolledBack>>

(* The process ends: what is in memory is lost.                            *)
ProcessEnds ==
  /\ engine' = FALSE
  /\ fetched' = None /\ verdict' = NoVerdict
  /\ memory' = NoConflicts
  /\ rolledBack' = FALSE
  /\ UNCHANGED <<pending, updates, preference>>

(* It ends between the two statements of accepting or merging, or a        *)
(* statement after the first one fails.                                    *)
DecisionCutInHalf(a, mine, v, source) ==
  /\ Pending(a)
  /\ RowMade(a, mine, v, source)
  /\ halfDone' = halfDone \cup {a}
  /\ ProcessEnds \/ UNCHANGED <<syncVars, conflictVars, preference, rolledBack>>
  /\ UNCHANGED queue

(* One transaction; an entry whose row exists is skipped.                  *)
BulkAccept ==
  LET taken == {a \in Assignments : Pending(a) /\ row[a] = None} IN
  /\ taken # {}
  /\ row' = [a \in Assignments |->
       IF a \in taken
       THEN [accepted |-> TRUE, val |-> queue[a].data,
             source |-> [f \in Fields |-> None], modified |-> {}]
       ELSE row[a]]
  /\ queue' = [a \in Assignments |->
       IF a \in taken THEN [queue[a] EXCEPT !.status = "accepted"] ELSE queue[a]]
  /\ choice' = [a \in Assignments |-> IF a \in taken THEN NoConflicts[a] ELSE choice[a]]
  /\ UNCHANGED <<syncVars, conflictVars, preference, halfDone, rolledBack>>

Reject(a) ==
  /\ Pending(a)
  /\ Resolved(a, "rejected")
  /\ UNCHANGED <<syncVars, row, conflictVars, preference, ghostVars>>

-----------------------------------------------------------------------------
(* The user's edits of a row.                                              *)

Edited(a, f, v, source) ==
  /\ row[a] # None
  /\ row' = [row EXCEPT ![a].val[f] = v, ![a].source[f] = source,
                        ![a].modified = @ \cup {f}]
  /\ choice' = [choice EXCEPT ![a][f] = v]
  /\ UNCHANGED <<syncVars, queue, conflictVars, preference, halfDone, rolledBack>>

(* UpdateTaskCommand marks the field twice, MarkTaskCompleteCommand only   *)
(* in local_modified_fields.                                               *)
Edit(a, f, v) == f \in EditableFields /\ Edited(a, f, v, "user")

MarkComplete(a, f, v) ==
  /\ row[a] # None
  /\ f \in StatusFields
  /\ Edited(a, f, v, row[a].source[f])

DeleteTask(a) ==
  /\ row[a] # None
  /\ row' = [row EXCEPT ![a] = None]
  /\ memory' = [memory EXCEPT ![a] = NoConflicts[a]]
  /\ pending' = [pending EXCEPT ![a] = NoConflicts[a]]
  /\ updates' = [updates EXCEPT ![a] = NoConflicts[a]]
  /\ preference' = [preference EXCEPT ![a] = NoConflicts[a]]
  /\ choice' = [choice EXCEPT ![a] = NoConflicts[a]]
  /\ UNCHANGED <<syncVars, queue, halfDone, rolledBack>>

-----------------------------------------------------------------------------
(* Resolving a conflict that the Updates page shows, and what remembering  *)
(* the choice leaves.                                                      *)

(* The handler takes the conflict from the resolver's map, or from the row *)
(* of sync_updates when the map has none.                                  *)
Resolvable(a, f) == IF memory[a][f] # None THEN memory[a][f] ELSE updates[a][f]

(* With a resolver whose map has the conflict, the conflict leaves map and *)
(* table and the field gets a source; without, the value is all there is.  *)
ResolvedInResolver(a, f, side, remember) ==
  /\ memory' = [memory EXCEPT ![a][f] = None]
  /\ pending' = [pending EXCEPT ![a][f] = None]
  /\ preference' = IF remember THEN [preference EXCEPT ![a][f] = side] ELSE preference

SourceIsSide(side) == side
SourceOf(side) == IF side = "canvas" THEN "canvas" ELSE "user"

ResolveConflict(a, f, side, remember) ==
  LET known == memory[a][f] # None
      v     == Resolvable(a, f)[side]
      r     == row[a]
  IN
  /\ updates[a][f] # None
  /\ IF known
     THEN /\ ResolvedInResolver(a, f, side, remember)
          /\ row' = [row EXCEPT ![a].val[f] = v, ![a].source[f] = SourceOf(side),
                       ![a].modified = IF side = "canvas" THEN @ \ {f} ELSE @ \cup {f}]
     ELSE /\ row' = [row EXCEPT ![a].val[f] = v,
                       ![a].modified = IF engine /\ side = "canvas" THEN @ \ {f} ELSE @]
          /\ UNCHANGED <<memory, pending, preference>>
  /\ updates' = [updates EXCEPT ![a][f] = None]
  /\ choice' = [choice EXCEPT ![a][f] = IF side = "canvas" THEN None ELSE v]
  /\ UNCHANGED <<syncVars, queue, halfDone, rolledBack>>

(* Deleted by the user, or expired and deleted when next consulted.        *)
PreferenceEnds(a, f) ==
  /\ preference[a][f] # None
  /\ preference' = [preference EXCEPT ![a][f] = None]
  /\ UNCHANGED <<syncVars, queue, row, conflictVars, ghostVars>>

(* A new engine has a new resolver, which loads its map from the table.    *)
ConnectWithEmptyMap ==
  /\ fetched = None
  /\ engine' = TRUE
  /\ rolledBack' = FALSE
  /\ UNCHANGED <<fetched, verdict, queue, row, conflictVars, preference, choice, halfDone>>
Connect ==
  /\ fetched = None
  /\ engine' = TRUE
  /\ memory' = pending
  /\ rolledBack' = FALSE
  /\ UNCHANGED <<fetched, verdict, queue, row, pending, updates, preference, choice, halfDone>>

(* The next start of the app completes every task that has a grade.        *)
Restart(graded) ==
  LET completes(a, f) ==
        a \in graded /\ f \in StatusFields /\ row[a].val[f] # Completed
  IN
  /\ \A a \in graded : row[a] # None
  /\ ProcessEnds
  /\ row' = [a \in Assignments |->
       IF a \in graded
       THEN [row[a] EXCEPT !.val = [f \in Fields |-> IF completes(a, f) THEN Completed ELSE @[f]]]
       ELSE row[a]]
  /\ choice' = [a \in Assignments |-> [f \in Fields |->
                  IF completes(a, f) THEN None ELSE choice[a][f]]]
  /\ UNCHANGED <<queue, halfDone>>

-----------------------------------------------------------------------------

Synchronisation ==
  \/ \E data \in [Assignments -> Data], says \in [Assignments -> Verdicts] : Fetch(data, says)
  \/ \E failed \in SUBSET Assignments : CommitSucceeds(failed)
  \/ Connect \/ CommitRollsBack \/ SyncEndsEarly
  \/ \E graded \in SUBSET Assignments : Restart(graded)

Decision(a) ==
  \/ \E mine \in SUBSET EditableFields, v \in Values :
       \/ Accept(a, mine, v) \/ Merge(a, mine, v)
       \/ \E source \in {None, "canvas"} : DecisionCutInHalf(a, mine, v, source)
  \/ Reject(a)

Change(a, f) ==
  \/ \E v \in Values : Edit(a, f, v) \/ MarkComplete(a, f, v)
  \/ \E side \in {"local", "canvas"}, remember \in BOOLEAN : ResolveConflict(a, f, side, remember)
  \/ PreferenceEnds(a, f)

Next ==
  \/ Synchronisation
  \/ BulkAccept
  \/ \E a \in Assignments : Decision(a) \/ DeleteTask(a)
  \/ \E a \in Assignments, f \in Fields : Change(a, f)

Spec == Init /\ [][Next]_vars

-----------------------------------------------------------------------------
(* Properties.                                                             *)

TypeOK ==
  /\ engine \in BOOLEAN
  /\ fetched \in [Assignments -> Data] \cup {None}
  /\ verdict \in [Assignments -> Verdicts]
  /\ queue \in [Assignments -> Entries \cup {None}]
  /\ row \in [Assignments -> Rows \cup {None}]
  /\ memory \in OfField(Conflicts) /\ pending \in OfField(Conflicts)
  /\ updates \in OfField(Conflicts)
  /\ preference \in OfField({"canvas", "local"})
  /\ choice \in OfField(Values)
  /\ halfDone \subseteq Assignments
  /\ rolledBack \in BOOLEAN

(* A value the user asked for stays until the user asks for another one,   *)
(* or a grade completes the task when the app starts: no sequence of       *)
(* syncs, rollbacks, restarts and resolutions of other conflicts lets      *)
(* Canvas overwrite it.                                                    *)
ChoicesStand ==
  \A a \in Assignments, f \in Fields :
    choice[a][f] # None => row[a] # None /\ row[a].val[f] = choice[a][f]

(* An assignment is either in the task list or awaiting or refused in the  *)
(* queue, except for the one decision that a crash or an error cut in half.*)
OneHome ==
  \A a \in Assignments \ halfDone :
    row[a] # None => queue[a] = None \/ queue[a].status \in {"accepted", "merged"}

(* An entry leaves the state pending once and for all: no sync, whatever   *)
(* became of the row, puts it before the user again or loses it.           *)
DecisionsFinal ==
  [][\A a \in Assignments :
       queue[a] # None =>
         /\ queue'[a] # None
         /\ queue'[a].status = queue[a].status \/ queue[a].status = "pending"]_vars

(* What the Updates page offers is also in the table, with these values,   *)
(* and the resolver of a connected app knows it, with these values unless  *)
(* it met a rollback: so a resolution finds the conflict, applies what was *)
(* shown, and is remembered when asked.                                    *)
ConflictStoresAgree ==
  \A a \in Assignments, f \in Fields :
    updates[a][f] # None =>
      /\ pending[a][f] = updates[a][f]
      /\ engine => memory[a][f] # None
      /\ engine /\ ~rolledBack => memory[a][f] = updates[a][f]

(* After a sync that committed, each field of the user's that differs from *)
(* what Canvas had is in a conflict that is shown with these two values,   *)
(* or the user has a remembered choice for it.  Only of the type may one   *)
(* stay silent: where the tiers do not say conflict.                       *)
DifferencesShown ==
  [][(\E failed \in SUBSET Assignments : CommitSucceeds(failed)) =>
       \A a \in Assignments, f \in Fields :
         row[a] # None /\ Owned(row[a], f) /\ row'[a].val[f] # fetched[a][f] =>
           \/ updates'[a][f] = [local |-> row'[a].val[f], canvas |-> fetched[a][f]]
           \/ preference[a][f] # None
           \/ f \in TieredFields /\ Verdict(a, f) # "conflict"]_vars

(* docs/USER-GUIDE.md says of a remembered choice that "the same decision  *)
(* auto-applies on future syncs".                                          *)
RememberedChoiceApplies ==
  [][CommitSucceeds({}) =>
       \A a \in Assignments, f \in Fields :
         row[a] # None /\ preference[a][f] = "canvas" => row'[a].val[f] = fetched[a][f]]_vars
=============================================================================
