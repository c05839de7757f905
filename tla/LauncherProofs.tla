--------------------------- MODULE LauncherProofs ---------------------------
(***************************************************************************)
(* Proofs of the safety properties of Launcher, for every number of        *)
(* results and every interleaving of failures, panics and kills.           *)
(***************************************************************************)
EXTENDS Launcher, TLAPS

(* Nothing is known to have failed, and nothing was reported, before the   *)
(* call that could fail has returned.                                      *)
Phases ==
    /\ pc \in {"start", "setup", "run"} => reasons = {} /\ ~tornDown
    /\ pc = "teardown" => reasons \subseteq {"run"}
    /\ pc = "report" => "report" \notin reasons
    /\ pc \notin {"exit", "exited"} => ~cm.done
    /\ pc # "exited" => exit = "none"
    /\ pc \in {"start", "setup"} => results = 0 /\ cluster = "clean"
    /\ pc = "exit" => cm.done \/ "report" \in reasons

(* While Teardown is still to be decided it has not been called unless the *)
(* mode wants it called.                                                   *)
TeardownDecided ==
    pc = "teardown" /\ ShouldSkipTeardown(reasons) => ~tornDown

(* What a process without a failure has made sure of before it exits.      *)
CleanUnlessFailed ==
    pc \in {"report", "exit"} /\ reasons \subseteq {"report"} /\ mode # "always"
        => cluster = "clean"

(* A persisted completion carries all errors and the final results.        *)
DoneIsComplete ==
    cm.done => /\ cm.reasons = reasons \ {"report"}
               /\ cm.succeeded <=> cm.reasons = {}
               /\ cm.results = results

(* The inductive invariant.                                                *)
IInv ==
    /\ TypeOK
    /\ Phases
    /\ TeardownDecided
    /\ CleanUnlessFailed
    /\ DoneIsComplete
    /\ SkipModeHonoured
    /\ ExitZeroIsEarned
    /\ ResultsOutliveFailures

-----------------------------------------------------------------------------
(* Every variable keeps its type: the reasons stay within the four calls   *)
(* of launcher.Run that can fail and the results within their bound.       *)
THEOREM TypeCorrect == Spec => []TypeOK
<1> USE NumResultsAssumption DEF NumResultsAssumption
<1>1. Init => TypeOK
  <2>1. 0 \in 0..NumResults
    OBVIOUS
  <2>2. EmptyConfigMap \in ConfigMaps
    BY <2>1 DEF ConfigMaps, EmptyConfigMap
  <2> QED
    BY <2>1, <2>2 DEF Init, TypeOK, PCs
<1>2. TypeOK /\ [Next]_vars => TypeOK'
  <2> SUFFICES ASSUME TypeOK, [Next]_vars PROVE TypeOK'
    OBVIOUS
  <2> USE DEF TypeOK, PCs, Causes, ConfigMaps
  <2>1. ASSUME NEW o \in ReportOutcomes, FirstReport(o) PROVE TypeOK'
    BY <2>1 DEF FirstReport, Stored, StartedReport
  <2>2. ASSUME NEW o \in Outcomes, Setup(o) PROVE TypeOK'
    BY <2>2 DEF Setup
  <2>3. ASSUME NEW o \in ReportOutcomes, FinalReport(o) PROVE TypeOK'
    BY <2>3 DEF FinalReport, Stored, FinalStatus
  <2>4. CASE Exit
    BY <2>4 DEF Exit
  <2>5. CASE CheckStep
    BY <2>5 DEF CheckStep
  <2>6. CASE RunPanics
    BY <2>6 DEF RunPanics
  <2>7. ASSUME NEW o \in Outcomes, RunReturns(o) PROVE TypeOK'
    BY <2>7 DEF RunReturns
  <2>8. CASE SkipTeardown
    BY <2>8 DEF SkipTeardown
  <2>9. CASE TeardownStep
    BY <2>9 DEF TeardownStep
  <2>10. ASSUME NEW o \in Outcomes, TeardownReturns(o) PROVE TypeOK'
    BY <2>10 DEF TeardownReturns
  <2>11. CASE Kill
    BY <2>11 DEF Kill
  <2>12. CASE PodDeleted
    BY <2>12 DEF PodDeleted
  <2>13. CASE UNCHANGED vars
    BY <2>13 DEF vars
  <2> QED
    BY <2>1, <2>2, <2>3, <2>4, <2>5, <2>6, <2>7, <2>8, <2>9, <2>10, <2>11, <2>12, <2>13
       DEF Next, LauncherSteps, CheckupSteps, TeardownSteps
<1> QED
  BY <1>1, <1>2, PTL DEF Spec

(* The process has done nothing at first.                                  *)
LEMMA InitIInv == Init /\ TypeOK => IInv
BY DEF Init, IInv, EmptyConfigMap, Phases, TeardownDecided, CleanUnlessFailed,
       DoneIsComplete, SkipModeHonoured, ExitZeroIsEarned,
       ResultsOutliveFailures

(* The reports of the process: they decide what the ConfigMap says.        *)
LEMMA ReportPreserves ==
    ASSUME IInv, TypeOK', NEW o \in ReportOutcomes, FirstReport(o) \/ FinalReport(o)
    PROVE  IInv'
<1> USE DEF IInv, TypeOK, ConfigMaps
<1>1. CASE FirstReport(o)
  BY <1>1 DEF FirstReport, Stored, StartedReport, Phases, TeardownDecided,
     CleanUnlessFailed, DoneIsComplete, SkipModeHonoured, ExitZeroIsEarned,
     ResultsOutliveFailures
<1>2. CASE FinalReport(o)
  <2> USE <1>2 DEF FinalReport, Stored, FinalStatus
  <2>1. Phases'
    BY DEF Phases
  <2>2. TeardownDecided'
    BY DEF TeardownDecided
  <2>3. CleanUnlessFailed'
    BY DEF CleanUnlessFailed
  <2>4. DoneIsComplete'
    BY DEF DoneIsComplete, Phases
  <2>5. SkipModeHonoured'
    BY DEF SkipModeHonoured
  <2>6. ExitZeroIsEarned'
    BY DEF ExitZeroIsEarned, Phases
  <2>7. ResultsOutliveFailures'
    BY DEF ResultsOutliveFailures, Phases
  <2> QED
    BY <2>1, <2>2, <2>3, <2>4, <2>5, <2>6, <2>7
<1> QED
  BY <1>1, <1>2

(* Teardown, whether called or skipped.                                    *)
LEMMA TeardownPreserves ==
    ASSUME IInv, TypeOK', TeardownSteps
    PROVE  IInv'
<1> USE DEF IInv, TypeOK, Modes
<1>1. CASE SkipTeardown
  BY <1>1 DEF SkipTeardown, ShouldSkipTeardown, Phases, TeardownDecided,
     CleanUnlessFailed, DoneIsComplete, SkipModeHonoured, ExitZeroIsEarned,
     ResultsOutliveFailures
<1>2. CASE TeardownStep
  BY <1>2 DEF TeardownStep, ShouldSkipTeardown, Phases, TeardownDecided,
     CleanUnlessFailed, DoneIsComplete, SkipModeHonoured, ExitZeroIsEarned,
     ResultsOutliveFailures
<1>3. ASSUME NEW o \in Outcomes, TeardownReturns(o) PROVE IInv'
  BY <1>3 DEF TeardownReturns, ShouldSkipTeardown, Phases, TeardownDecided,
     CleanUnlessFailed, DoneIsComplete, SkipModeHonoured, ExitZeroIsEarned,
     ResultsOutliveFailures
<1> QED
  BY <1>1, <1>2, <1>3 DEF TeardownSteps

(* The remaining steps: Setup, Run, the exit, and what ends a pod.         *)
LEMMA OtherStepsPreserve ==
    ASSUME IInv, TypeOK',
           (\E o \in Outcomes : Setup(o)) \/ Exit \/ CheckupSteps \/ Kill \/ PodDeleted
    PROVE  IInv'
<1> USE DEF IInv, TypeOK, Modes, Phases, TeardownDecided, CleanUnlessFailed,
            DoneIsComplete, SkipModeHonoured, ExitZeroIsEarned,
            ResultsOutliveFailures
<1>1. ASSUME NEW o \in Outcomes, Setup(o) PROVE IInv'
  BY <1>1 DEF Setup
<1>2. CASE Exit
  BY <1>2 DEF Exit
<1>3. CASE CheckStep
  BY <1>3 DEF CheckStep
<1>4. CASE RunPanics
  BY <1>4 DEF RunPanics
<1>5. ASSUME NEW o \in Outcomes, RunReturns(o) PROVE IInv'
  BY <1>5 DEF RunReturns
<1>6. CASE Kill
  BY <1>6 DEF Kill
<1>7. CASE PodDeleted
  BY <1>7 DEF PodDeleted
<1> QED
  BY <1>1, <1>2, <1>3, <1>4, <1>5, <1>6, <1>7 DEF CheckupSteps

(* The inductive invariant: each phase of the launcher knows what was      *)
(* appended to the failure reasons before it.                              *)
THEOREM Inductive == Spec => []IInv
<1>1. IInv /\ TypeOK' /\ [Next]_vars => IInv'
  <2> SUFFICES ASSUME IInv, TypeOK', [Next]_vars PROVE IInv'
    OBVIOUS
  <2>1. ASSUME NEW o \in ReportOutcomes, FirstReport(o) \/ FinalReport(o) PROVE IInv'
    BY <2>1, ReportPreserves
  <2>2. CASE TeardownSteps
    BY <2>2, TeardownPreserves
  <2>3. CASE (\E o \in Outcomes : Setup(o)) \/ Exit \/ CheckupSteps \/ Kill \/ PodDeleted
    BY <2>3, OtherStepsPreserve
  <2>4. CASE UNCHANGED vars
    BY <2>4 DEF vars, IInv, TypeOK, Phases, TeardownDecided, ShouldSkipTeardown,
       CleanUnlessFailed, DoneIsComplete, SkipModeHonoured, ExitZeroIsEarned,
       ResultsOutliveFailures
  <2> QED
    BY <2>1, <2>2, <2>3, <2>4 DEF Next, LauncherSteps
<1> QED
  BY <1>1, InitIInv, TypeCorrect, PTL DEF Spec

(* An exit code of 0 was earned: everything was persisted and torn down.   *)
THEOREM ExitZeroCorrect == Spec => []ExitZeroIsEarned
<1>1. IInv => ExitZeroIsEarned
  BY DEF IInv
<1> QED
  BY <1>1, Inductive, PTL

(* The persisted failure reasons are all the reasons there were.           *)
THEOREM PersistedReasonsCorrect == Spec => []PersistedReasonsAreComplete
<1>1. IInv => PersistedReasonsAreComplete
  BY DEF IInv, DoneIsComplete, PersistedReasonsAreComplete
<1> QED
  BY <1>1, Inductive, PTL

(* What the checks found is reported however the run of them ended, unless *)
(* the report itself fails.                                                *)
THEOREM ResultsCorrect == Spec => []ResultsOutliveFailures
<1>1. IInv => ResultsOutliveFailures
  BY DEF IInv
<1> QED
  BY <1>1, Inductive, PTL

(* skipTeardown means what it says, whatever failed.                       *)
THEOREM SkipModeCorrect == Spec => []SkipModeHonoured
<1>1. IInv => SkipModeHonoured
  BY DEF IInv
<1> QED
  BY <1>1, Inductive, PTL

(* After a persisted completion this process changes nothing more.         *)
THEOREM CompletionIsLastCorrect == Spec => CompletionIsLast
<1>1. IInv /\ [Next]_vars => [cm.done /\ pc # "exited" => UNCHANGED <<cm, cluster, results, tornDown>>]_vars
  <2> SUFFICES ASSUME IInv, Next, cm.done, pc # "exited"
               PROVE  UNCHANGED <<cm, cluster, results, tornDown>>
    BY DEF vars
  <2>1. pc = "exit"
    BY DEF IInv, Phases
  <2> QED
    BY <2>1 DEF Next, LauncherSteps, CheckupSteps, TeardownSteps, FirstReport, Setup,
       FinalReport, Exit, CheckStep, RunPanics, RunReturns, SkipTeardown, TeardownStep,
       TeardownReturns, Kill, PodDeleted
<1> QED
  BY <1>1, Inductive, PTL DEF Spec, CompletionIsLast
=============================================================================
