------------------------------ MODULE MCSystem ------------------------------
(* The whole program in clusters that reach every kind of end of Run.      *)
EXTENDS System

Plain == [defaultSC |-> "one", configuredSC |-> FALSE, golden |-> {"pvc"}, nilSC |-> FALSE,
          smartClone |-> TRUE, gate |-> TRUE, gc |-> FALSE, foreign |-> {}]

NilSC == [Plain EXCEPT !.nilSC = TRUE]

SafeWorlds == {Plain, NilSC}
NilSCWorld == {NilSC}
(* Bound: at most two checks fail softly.                                  *)
FewFailures == Cardinality(errStr) <= 2

LiveWorlds == {NilSC, [Plain EXCEPT !.gate = FALSE], [Plain EXCEPT !.defaultSC = "none"],
               [Plain EXCEPT !.defaultSC = "many", !.smartClone = FALSE, !.gate = FALSE]}
=============================================================================
