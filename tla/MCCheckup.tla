----------------------------- MODULE MCCheckup ------------------------------
(* Checkup in a few clusters, each there for a path or a hazard of its own.*)
EXTENDS Checkup

Plain == [defaultSC |-> "one", configuredSC |-> FALSE, golden |-> {"pvc"}, nilSC |-> FALSE,
          smartClone |-> TRUE, gate |-> TRUE, gc |-> FALSE, foreign |-> {}]

(* Another checkup runs, or has run, in the same namespace.                *)
Shared == {[Plain EXCEPT !.foreign = {o}] : o \in {"checkupDV", "hotplugDV", "vmim"}}

HostAssisted == [Plain EXCEPT !.smartClone = FALSE]
SnapshotOnly == [Plain EXCEPT !.golden = {"snapshot"}, !.gc = TRUE]
NilSC        == [Plain EXCEPT !.nilSC = TRUE]
NoGate       == [Plain EXCEPT !.gate = FALSE]
Configured   == [Plain EXCEPT !.defaultSC = "none", !.configuredSC = TRUE, !.golden = {}]
NoSC         == [Plain EXCEPT !.defaultSC = "none"]
ManySC       == [Plain EXCEPT !.defaultSC = "many"]

AllWorlds == {Plain, HostAssisted, SnapshotOnly, NilSC, NoGate, Configured, NoSC, ManySC}
             \cup Shared
=============================================================================
