---------------------------- MODULE BootVerdict -----------------------------
(***************************************************************************)
(* What checkConcurrentVMIBoot promises: every VM gets one outcome, in any *)
(* order, and only then one verdict, "pass" if all of them booted.         *)
(***************************************************************************)
CONSTANT Workers

VARIABLES
    boot,       \* outcome of each VM
    result      \* the verdict

Init ==
    /\ boot = [w \in Workers |-> "none"]
    /\ result = "none"

(* A VM's outcome is settled, once.                                        *)
Settle(w) ==
    /\ boot[w] = "none"
    /\ \E o \in {"booted", "failed"} : boot' = [boot EXCEPT ![w] = o]
    /\ UNCHANGED result

Announce ==
    /\ result = "none"
    /\ \A w \in Workers : boot[w] # "none"
    /\ result' = IF \A w \in Workers : boot[w] = "booted" THEN "pass" ELSE "fail"
    /\ UNCHANGED boot

Next == Announce \/ \E w \in Workers : Settle(w)

Spec == Init /\ [][Next]_<<boot, result>>
=============================================================================
