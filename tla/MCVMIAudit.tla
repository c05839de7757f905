----------------------------- MODULE MCVMIAudit -----------------------------
(* Every list of up to three classes, and VMs with up to two volumes, of   *)
(* the first class of the list or no claim.                                *)
EXTENDS VMIAudit, TLC

UpTo(n, kinds) == UNION {[1..k -> kinds] : k \in 0..n}

Kinds == {c \in ProvisionedClass : c.unset => ~c.virt /\ ~c.name}

AllClassLists == UpTo(3, Kinds)

Volumes ==
    {[claim |-> TRUE, driver |-> driver, class |-> 1] : driver \in {"rbd", "efs"}} \cup
    {[claim |-> FALSE, driver |-> "other", class |-> 0]}

SomeVolumeLists == UpTo(2, Volumes)

Symmetry == Permutations(VMs)
=============================================================================
