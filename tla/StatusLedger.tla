---------------------------- MODULE StatusLedger ----------------------------
(***************************************************************************)
(* What the ConfigMap of a checkup promises its readers, whoever else      *)
(* writes it: a report of a completion is stored only over the untouched   *)
(* start report of the same process, no edit of the user is lost under a   *)
(* report, and a success never stands beside the results of another run.   *)
(***************************************************************************)
CONSTANTS
    Processes,      \* the processes that were ever started on the ConfigMap
    Specs,          \* what users may write into its spec keys
    None

VARIABLES
    spec,           \* what the spec keys say
    success,        \* the process whose success is reported, or None
    results,        \* the process whose results are reported, or None
    claimed,        \* the processes whose start report was stored
    current,        \* the one whose start report is the last word, or None
    completed       \* the processes whose final report was stored

vars == <<spec, success, results, claimed, current, completed>>

Init ==
    /\ spec \in Specs
    /\ success = None /\ results = None
    /\ claimed = {} /\ current = None /\ completed = {}

(* A start report may overtake another; one that was not acknowledged ends *)
(* its process. The reports of an earlier run stay until it completes.     *)
Claim(p) ==
    /\ p \notin claimed
    /\ claimed' = claimed \cup {p}
    /\ current' \in {p, None}
    /\ UNCHANGED <<spec, success, results, completed>>

(* A failure may leave the results of an earlier run where they are.       *)
Complete(p) ==
    /\ current = p
    /\ current' = None
    /\ completed' = completed \cup {p}
    /\ \/ success' = p /\ results' = p
       \/ success' = None /\ results' \in {p, results}
    /\ UNCHANGED <<spec, claimed>>

(* The process failed to report, or was killed.                            *)
Abandon ==
    /\ current' = None
    /\ UNCHANGED <<spec, success, results, claimed, completed>>

(* The user changes the spec, or applies the ConfigMap anew.               *)
Edit ==
    /\ spec' \in Specs
    /\ current' = None
    /\ \/ UNCHANGED <<success, results>>
       \/ success' = None /\ results' = None
    /\ UNCHANGED <<claimed, completed>>

Next == (\E p \in Processes : Claim(p) \/ Complete(p)) \/ Abandon \/ Edit

Spec == Init /\ [][Next]_vars
=============================================================================
