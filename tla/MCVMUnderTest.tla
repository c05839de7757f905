--------------------------- MODULE MCVMUnderTest ---------------------------
(* A golden image PVC with and without a configured class, and a snapshot. *)
EXTENDS VMUnderTest

CONSTANTS s1, s2

ThreeInputs ==
    {[golden |-> {"pvc"}, imageClass |-> s1, configured |-> s2, smartClone |-> FALSE],
     [golden |-> {"pvc", "snapshot"}, imageClass |-> s1, configured |-> None, smartClone |-> TRUE],
     [golden |-> {"snapshot"}, imageClass |-> None, configured |-> s2, smartClone |-> TRUE]}
=============================================================================
