---------------------------- MODULE PollContract ----------------------------
(***************************************************************************)
(* What the checks assume of a poll: it passes by looking at the cluster at*)
(* a moment when the condition holds and the deadline has not passed, or it*)
(* fails, and it does not go on for ever.                                  *)
(***************************************************************************)
VARIABLES
    object,         \* what the condition would find: "pending", "holds" or "broken"
    expired,        \* the deadline has passed
    verdict         \* "polling", "pass" or "fail"

vars == <<object, expired, verdict>>

Init ==
    /\ object \in {"pending", "holds", "broken"}
    /\ expired \in BOOLEAN
    /\ verdict = "polling"

Pass ==
    /\ verdict = "polling" /\ object = "holds" /\ ~expired
    /\ verdict' = "pass"
    /\ UNCHANGED <<object, expired>>

Fail ==
    /\ verdict = "polling"
    /\ verdict' = "fail"
    /\ UNCHANGED <<object, expired>>

World ==
    /\ object' \in {"pending", "holds", "broken"}
    /\ expired => expired'
    /\ UNCHANGED verdict

Next == Pass \/ Fail \/ World

Spec == Init /\ [][Next]_vars /\ WF_vars(Pass \/ Fail)
=============================================================================
