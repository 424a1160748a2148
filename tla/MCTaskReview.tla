---------------------------- MODULE MCTaskReview ----------------------------
(***************************************************************************)
(* One assignment with a title, a type and a completion.  TLC does not go  *)
(* on from the states that StaysSmall leaves out, though it checks them.   *)
(***************************************************************************)
EXTENDS TaskReview

CONSTANT CanvasType  (* the one type that Canvas is taken to have *)

(* The fields of an assignment that the user or a conflict concerns.       *)
Touched(a) ==
  {f \in Fields :
     \/ row[a] # None /\ f \in row[a].modified
     \/ memory[a][f] # None \/ pending[a][f] # None \/ preference[a][f] # None}

(* A row that keeps tiers.                                                 *)
KeepsTiers(a) ==
  row[a] # None /\ \E f \in TieredFields : row[a].source[f] = "tiered"

(* The other two fields are touched together as they please, but not       *)
(* beside a type that is touched, or has tiers.                            *)
TypeTouchedAlone ==
  \A a \in Assignments :
    \/ Touched(a) \subseteq TieredFields
    \/ Touched(a) \cap TieredFields = {} /\ ~KeepsTiers(a)

(* A row's type may be any; Canvas's is one, and the tiers say something   *)
(* of the rows that keep some (no other row asks them).                    *)
CanvasTypeStays ==
  fetched # None =>
    \A a \in Assignments :
      /\ \A f \in TieredFields : fetched[a][f] = CanvasType
      /\ verdict[a] # "canvas" => KeepsTiers(a)

StaysSmall == TypeTouchedAlone /\ CanvasTypeStays
=============================================================================
