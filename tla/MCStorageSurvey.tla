-------------------------- MODULE MCStorageSurvey --------------------------
(* Every list of up to three classes, and of up to two of the profiles that*)
(* differ in what the checks look at.                                      *)
EXTENDS StorageSurvey

CONSTANTS csi, bucket

UpTo(n, kinds) == UNION {[1..k -> kinds] : k \in 0..n}

AllClassLists == UpTo(3, AnnotatedClass)

Shared(provisioner, strategy) ==
    [sc |-> TRUE, provisioner |-> provisioner, strategy |-> strategy, sets |-> {"RWO", "RWX"}, spec |-> FALSE]

Kinds ==
    {Shared(csi, strategy) : strategy \in {"unset", "copy", "snapshot", "csi-clone"}} \cup
    {Shared(NoProvisioner, "unset"),
     [Shared(bucket, "unset") EXCEPT !.sets = {}],
     [Shared(csi, "unset") EXCEPT !.sets = {}, !.spec = TRUE],
     [Shared(csi, "csi-clone") EXCEPT !.sets = {"RWO"}],
     [Shared(csi, "snapshot") EXCEPT !.sc = FALSE]}

SomeProfileLists == UpTo(2, Kinds)
=============================================================================
