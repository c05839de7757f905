------------------------------ MODULE WaitLoop ------------------------------
(***************************************************************************)
(* PollImmediateWithContext of the vendored k8s.io/apimachinery wait       *)
(* package, which every check that waits calls with an interval of five    *)
(* seconds, the vmiTimeout or a minute, and the context of the run. The    *)
(* caller runs the condition, a request under the context; a goroutine of  *)
(* its own, the poller, sends it ticks over an unbuffered channel and      *)
(* closes that at the timeout.                                             *)
(***************************************************************************)
CONSTANT
    Timeouts        \* the kinds of timeout: a timeout of zero is none

ASSUME TimeoutsAssumption == Timeouts \subseteq {"zero", "positive"}

VARIABLES
    timeout,
    object,         \* what the condition would find in the cluster
    expired,        \* the deadline of the context has passed
    caller,         \* what the caller is at
    last,           \* it has seen the channel closed
    answer,         \* the answer of its request
    result,         \* what PollImmediateWithContext returned
    poller,         \* what the goroutine is at
    fired,          \* its timer has fired
    cancelled,      \* its context was cancelled
    (* history *)
    refused,        \* a request was refused
    broken,         \* the object was broken at some time
    stable          \* the condition has held ever since the timer fired

envVars    == <<timeout, object, expired>>
callerVars == <<caller, last, answer, result>>
pollerVars == <<poller, fired, cancelled>>
histVars   == <<refused, broken, stable>>
vars == <<envVars, callerVars, pollerVars, histVars>>

Objects == {"pending", "holds", "broken"}

TypeOK ==
    /\ timeout \in Timeouts
    /\ object \in Objects /\ expired \in BOOLEAN
    /\ caller \in {"immediate", "answered", "select", "condition", "returned"}
    /\ last \in BOOLEAN
    /\ answer \in Objects \cup {"none", "error"}
    /\ result \in {"none", "ok", "error", "timeout"}
    /\ poller \in {"notStarted", "select", "exited"}
    /\ fired \in BOOLEAN /\ cancelled \in BOOLEAN
    /\ answer # "none" <=> caller = "answered"
    /\ result # "none" <=> caller = "returned"
    /\ refused \in BOOLEAN /\ broken \in BOOLEAN /\ stable \in BOOLEAN

Init ==
    /\ timeout \in Timeouts
    /\ object \in Objects /\ expired \in BOOLEAN
    /\ caller = "immediate" /\ last = FALSE /\ answer = "none" /\ result = "none"
    /\ poller = "notStarted" /\ fired = FALSE /\ cancelled = FALSE
    /\ refused = FALSE /\ broken = (object = "broken") /\ stable = FALSE
-----------------------------------------------------------------------------
(* The deferred cancel.                                                    *)
Return(r) ==
    /\ caller' = "returned" /\ result' = r
    /\ cancelled' = (poller # "notStarted")
    /\ UNCHANGED last

(* The request of the condition is answered, which may take its time: what *)
(* it found may have changed when the caller goes on.                      *)
Answered ==
    /\ caller \in {"immediate", "condition"}
    /\ ~expired
    /\ answer' \in {object, "error"}
    /\ refused' = (refused \/ answer' = "error")
    /\ caller' = "answered"
    /\ UNCHANGED <<envVars, last, result, pollerVars, broken, stable>>

(* Bug: the request ignores the context.                                   *)
BugExpired ==
    /\ caller \in {"immediate", "condition"}
    /\ expired
    /\ answer' = object
    /\ caller' = "answered"
    /\ UNCHANGED <<envVars, last, result, pollerVars, histVars>>

(* Under a context that has expired it fails.                              *)
Expired ==
    /\ caller \in {"immediate", "condition"}
    /\ expired
    /\ answer' = "error"
    /\ caller' = "answered"
    /\ UNCHANGED <<envVars, last, result, pollerVars, histVars>>

(* Bug: an answer is kept.                                                 *)
BugGoOn ==
    /\ caller = "answered" /\ answer = "pending"
    /\ ~last
    /\ poller = "notStarted" => ~expired
    /\ caller' = "select"
    /\ poller' = IF poller = "notStarted" THEN "select" ELSE poller
    /\ UNCHANGED <<envVars, last, answer, result, fired, cancelled, histVars>>

(* The condition does not hold: back to the loop, or into it.              *)
GoOn ==
    /\ caller = "answered" /\ answer = "pending"
    /\ ~last
    /\ poller = "notStarted" => ~expired
    /\ caller' = "select" /\ answer' = "none"
    /\ poller' = IF poller = "notStarted" THEN "select" ELSE poller
    /\ UNCHANGED <<envVars, last, result, fired, cancelled, histVars>>

(* The condition ends the loop: it holds, it returned an error, or it does *)
(* not hold and the loop is over.                                          *)
Conclude ==
    /\ caller = "answered"
    /\ CASE answer = "holds"                -> Return("ok")
         [] answer \in {"broken", "error"}  -> Return("error")
         [] OTHER                           -> /\ last \/ (poller = "notStarted" /\ expired)
                                               /\ Return("timeout")
    /\ answer' = "none"
    /\ UNCHANGED <<envVars, poller, fired, histVars>>

(* Bug: the condition is not run once more.                                *)
BugReceiveClose ==
    /\ caller = "select" /\ poller = "exited"
    /\ Return("timeout")
    /\ UNCHANGED <<envVars, answer, poller, fired, histVars>>

(* The channel is closed; the condition is run once more.                  *)
ReceiveClose ==
    /\ caller = "select" /\ poller = "exited"
    /\ caller' = "condition" /\ last' = TRUE
    /\ UNCHANGED <<envVars, answer, result, pollerVars, histVars>>

(* The select takes any case that is ready: after the deadline the         *)
(* condition may still run.                                                *)
ContextDone ==
    /\ caller = "select" /\ expired
    /\ Return("timeout")
    /\ UNCHANGED <<envVars, answer, poller, fired, histVars>>
-----------------------------------------------------------------------------
(* The poller.                                                             *)

(* A tick finds the caller in its select, or is dropped.                   *)
Tick ==
    /\ poller = "select"
    /\ caller = "select"
    /\ caller' = "condition"
    /\ UNCHANGED <<envVars, last, answer, result, pollerVars, histVars>>

Fire ==
    /\ poller = "select" /\ timeout # "zero" /\ ~fired
    /\ fired' = TRUE
    /\ stable' = (object = "holds")
    /\ UNCHANGED <<envVars, callerVars, poller, cancelled, refused, broken>>

PollerExit ==
    /\ poller = "select" /\ (fired \/ cancelled)
    /\ poller' = "exited"
    /\ UNCHANGED <<envVars, callerVars, fired, cancelled, histVars>>
-----------------------------------------------------------------------------
(* The cluster, which never sees that it is polled, and the clock.         *)
Change(o) ==
    /\ object # o /\ object' = o
    /\ broken' = (broken \/ o = "broken")
    /\ stable' = (stable /\ o = "holds")
    /\ UNCHANGED <<timeout, expired, callerVars, pollerVars, refused>>

Deadline ==
    /\ ~expired /\ expired' = TRUE
    /\ UNCHANGED <<timeout, object, callerVars, pollerVars, histVars>>

Caller == Expired \/ GoOn \/ Conclude \/ ReceiveClose \/ ContextDone

Next == Caller \/ Answered \/ Tick \/ Fire \/ PollerExit \/ Deadline \/ (\E o \in Objects : Change(o))

(* Goroutines are scheduled, and time passes. A request may hang until the *)
(* deadline, and no tick has to find the caller ready.                     *)
Spec ==
    /\ Init /\ [][Next]_vars
    /\ WF_vars(Caller) /\ WF_vars(PollerExit) /\ WF_vars(Deadline)
-----------------------------------------------------------------------------
(* A poll fails only for a reason. It gives up early for a refused request,*)
(* however short the disturbance, or an object that was broken. It runs    *)
(* into its timeout only if it has one, and has then looked once more      *)
(* after the timer fired: a condition that holds from then on is never     *)
(* missed, however the ticks were dropped. And it leaves no goroutine that *)
(* does not know: a checkup polls a dozen times, and once for each         *)
(* concurrent VM.                                                          *)
EndIsOrderly ==
    /\ result = "error" => refused \/ broken \/ expired
    /\ result = "timeout" => expired \/ (timeout = "positive" /\ fired /\ ~stable)
    /\ caller = "returned" /\ poller = "select" => cancelled

(* The loop, its ticks and its two clocks keep the contract of a poll: it  *)
(* passes only on what was seen before the deadline, and it ends.          *)
Contract ==
    INSTANCE PollContract WITH
        verdict <- IF result = "ok" \/ answer = "holds" THEN "pass"
                   ELSE IF result \in {"error", "timeout"} THEN "fail" ELSE "polling"

KeepsContract == Contract!Spec
=============================================================================
