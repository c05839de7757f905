---------------------------- MODULE WaitLoopProofs ----------------------------
(***************************************************************************)
(* Proofs about WaitLoop for every set of timeouts a poll may be given:    *)
(* how it ends, and that each of its steps is one its callers assume.      *)
(***************************************************************************)
EXTENDS WaitLoop, TLAPS

(* What the condition answered has its cause in the cluster or the clock.  *)
AnswersHaveCauses ==
    /\ object = "broken" \/ answer = "broken" => broken
    /\ answer = "error" => refused \/ expired

(* The timer fires only in a poll that has a timeout, and the condition has*)
(* held ever since only if it holds.                                       *)
TimerFires ==
    /\ fired => timeout = "positive"
    /\ stable => object = "holds"

(* The poller ends by its timer, or because the caller has returned.       *)
PollerEnds ==
    /\ poller = "exited" => fired \/ cancelled
    /\ cancelled => caller = "returned"

(* The last look comes after the timer, and one that finds the condition   *)
(* not to hold shows that it has not held ever since.                      *)
LastLook ==
    /\ last => fired /\ poller = "exited"
    /\ last /\ answer = "pending" => ~stable

(* How a poll ends, strengthened to hold of every step of it.              *)
IInv ==
    /\ TypeOK
    /\ AnswersHaveCauses
    /\ TimerFires
    /\ PollerEnds
    /\ LastLook
    /\ EndIsOrderly
-----------------------------------------------------------------------------
(* No goroutine, timer or tick is there at first.                          *)
LEMMA InitIInv == Init => IInv
  BY TimeoutsAssumption
     DEF Init, IInv, TypeOK, Objects, AnswersHaveCauses, TimerFires, PollerEnds, LastLook,
         EndIsOrderly

(* Every step keeps the invariant: the caller's, the poller's, the         *)
(* cluster's and the clock's.                                              *)
LEMMA NextKeeps == IInv /\ [Next]_vars => IInv'
<1> USE TimeoutsAssumption
    DEF IInv, TypeOK, Objects, AnswersHaveCauses, TimerFires, PollerEnds, LastLook, EndIsOrderly,
        envVars, callerVars, pollerVars, histVars
<1> SUFFICES ASSUME IInv, [Next]_vars PROVE IInv'
  OBVIOUS
<1>1. CASE Expired
  BY <1>1 DEF Expired
<1>2. CASE GoOn
  BY <1>2 DEF GoOn
<1>3. CASE Conclude
  BY <1>3 DEF Conclude, Return
<1>4. CASE ReceiveClose
  BY <1>4 DEF ReceiveClose
<1>5. CASE ContextDone
  BY <1>5 DEF ContextDone, Return
<1>6. CASE Answered
  BY <1>6 DEF Answered
<1>7. CASE Tick
  BY <1>7 DEF Tick
<1>8. CASE Fire
  BY <1>8 DEF Fire
<1>9. CASE PollerExit
  BY <1>9 DEF PollerExit
<1>10. CASE Deadline
  BY <1>10 DEF Deadline
<1>11. ASSUME NEW o \in Objects, Change(o) PROVE IInv'
  <2>1. /\ object' = o
        /\ (object' = "broken" => broken') /\ (broken => broken')
        /\ stable' => stable /\ object' = "holds"
        /\ broken' \in BOOLEAN /\ stable' \in BOOLEAN
    BY <1>11 DEF Change
  <2>2. UNCHANGED <<timeout, expired, caller, last, answer, result, poller, fired, cancelled,
                    refused>>
    BY <1>11 DEF Change
  <2> QED
    BY <2>1, <2>2
<1>12. CASE UNCHANGED vars
  BY <1>12 DEF vars
<1> QED
  BY <1>1, <1>2, <1>3, <1>4, <1>5, <1>6, <1>7, <1>8, <1>9, <1>10, <1>11, <1>12 DEF Next, Caller

(* The invariant holds in every state a poll reaches.                      *)
THEOREM Inductive == Spec => []IInv
  BY InitIInv, NextKeeps, PTL DEF Spec

(* The variables of a poll keep their types.                               *)
THEOREM TypeCorrect == Spec => []TypeOK
<1>1. IInv => TypeOK
  BY DEF IInv
<1> QED
  BY <1>1, Inductive, PTL

(* PollImmediateWithContext gives up early only for a refused request or a *)
(* broken object, runs into a timeout only if it has one and has looked    *)
(* once more after it, and tells its goroutine when it returns.            *)
THEOREM EndCorrect == Spec => []EndIsOrderly
<1>1. IInv => EndIsOrderly
  BY DEF IInv
<1> QED
  BY <1>1, Inductive, PTL
-----------------------------------------------------------------------------
(* Each step of the loop is one of the contract or leaves it alone: the    *)
(* request that finds the condition to hold is the moment the poll passes. *)
LEMMA StepRefines == IInv /\ [Next]_vars => [Contract!Next]_Contract!vars
<1> USE DEF IInv, TypeOK, Objects, envVars, callerVars, pollerVars, histVars,
        Contract!Next, Contract!vars, Contract!Pass, Contract!Fail, Contract!World
<1> SUFFICES ASSUME IInv, [Next]_vars PROVE [Contract!Next]_Contract!vars
  OBVIOUS
<1>1. CASE Expired
  BY <1>1 DEF Expired
<1>2. CASE GoOn
  BY <1>2 DEF GoOn
<1>3. CASE Conclude
  BY <1>3 DEF Conclude, Return
<1>4. CASE ReceiveClose
  BY <1>4 DEF ReceiveClose
<1>5. CASE ContextDone
  BY <1>5 DEF ContextDone, Return
<1>6. CASE Answered
  BY <1>6 DEF Answered
<1>7. CASE Tick
  BY <1>7 DEF Tick
<1>8. CASE Fire
  BY <1>8 DEF Fire
<1>9. CASE PollerExit
  BY <1>9 DEF PollerExit
<1>10. CASE Deadline
  BY <1>10 DEF Deadline
<1>11. CASE \E o \in Objects : Change(o)
  BY <1>11 DEF Change
<1>12. CASE UNCHANGED vars
  BY <1>12 DEF vars
<1> QED
  BY <1>1, <1>2, <1>3, <1>4, <1>5, <1>6, <1>7, <1>8, <1>9, <1>10, <1>11, <1>12 DEF Next, Caller

(* The safety part of KeepsContract: a poll passes only by looking at the  *)
(* cluster at a moment when the condition holds and the deadline has not   *)
(* passed, and its verdict is final. That it ends needs the fairness of    *)
(* Spec and is left to the run.                                            *)
THEOREM StepsKeepContract == Spec => Contract!Init /\ [][Contract!Next]_Contract!vars
<1>1. Init => Contract!Init
  BY DEF Init, Objects, Contract!Init
<1> QED
  BY <1>1, StepRefines, Inductive, PTL DEF Spec
===============================================================================
