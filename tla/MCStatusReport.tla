--------------------------- MODULE MCStatusReport ---------------------------
(* Three processes on one ConfigMap, and a user with one spec at the edge  *)
(* of what is legal and one beyond it.                                     *)
EXTENDS StatusReport, TLC

Edge == [timeout |-> "ok", vmiTimeout |-> "ok", numOfVMs |-> 100, numOfDataVolumes |-> 10,
         skipTeardown |-> "false"]

Beyond == [Edge EXCEPT !.numOfDataVolumes = 11]

TwoSpecs == {Edge, Beyond}

Symmetry == Permutations(Processes)
=============================================================================
