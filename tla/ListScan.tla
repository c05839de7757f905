------------------------------ MODULE ListScan ------------------------------
(***************************************************************************)
(* A check of src/pkg/internal/checkup/checkup.go that reads lists of the  *)
(* cluster, the list of storage classes first: a sequence of loops, each   *)
(* over the items of a list from its first on. Extended by StorageSurvey   *)
(* and VMIAudit.                                                           *)
(***************************************************************************)
EXTENDS Naturals, Sequences

VARIABLES
    classes,        \* the list of storage classes, as the API server returns it
    step,           \* the call or loop the check is at
    i               \* the item the loop is at

(* A loop begins with the first item of its list.                          *)
Goto(next) == step' = next /\ i' = 1

AtMostOne(set) == \A c, d \in set : c = d
=============================================================================
