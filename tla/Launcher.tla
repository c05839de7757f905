------------------------------ MODULE Launcher ------------------------------
(***************************************************************************)
(* The life of one checkup process, from the first report to its exit:     *)
(* src/pkg/internal/launcher/launcher.go, the two reporters below it       *)
(* (src/pkg/internal/reporter and the vendored kiagnose reporter) and the  *)
(* exit code that src/cmd/main.go makes of the result.                     *)
(*                                                                         *)
(* The checkup itself is abstract here: while it runs it records results   *)
(* and leaves objects in the cluster, then returns, fails or panics.       *)
(* Checkup.tla has its steps and System.tla puts the two together.         *)
(***************************************************************************)
EXTENDS Naturals

CONSTANT NumResults     \* bound on the results one run can record

ASSUME NumResultsAssumption == NumResults \in Nat \ {0}

VARIABLES
    pc,         \* where Run of the launcher is
    mode,       \* skipTeardown of the configuration
    panicking,  \* Run of the checkup panicked: only deferred calls still run
    reasons,    \* runStatus.FailureReason, by the call each error came from
    results,    \* how many results the checkup has recorded
    cluster,    \* whether objects of this run that Teardown deletes exist
    tornDown,   \* whether Teardown was called
    cm,         \* what the user-supplied ConfigMap says
    exit        \* how the process ended

vars == <<pc, mode, panicking, reasons, results, cluster, tornDown, cm, exit>>

Modes    == {"unset", "never", "onfailure", "always"}
Causes   == {"setup", "run", "teardown", "report"}
PCs      == {"start", "setup", "run", "teardown", "report", "exit", "exited"}
Outcomes == {"ok", "error"}

(* An update of the ConfigMap is stored, refused, or stored without the    *)
(* client learning of it.                                                  *)
ReportOutcomes == {"ok", "refused", "unacked"}

ConfigMaps == [start : BOOLEAN, done : BOOLEAN, succeeded : BOOLEAN,
               reasons : SUBSET Causes, results : 0..NumResults]

EmptyConfigMap == [start |-> FALSE, done |-> FALSE, succeeded |-> FALSE,
                   reasons |-> {}, results |-> 0]

TypeOK ==
    /\ pc \in PCs
    /\ mode \in Modes
    /\ panicking \in BOOLEAN
    /\ reasons \in SUBSET Causes
    /\ results \in 0..NumResults
    /\ cluster \in {"clean", "dirty"}
    /\ tornDown \in BOOLEAN
    /\ cm \in ConfigMaps
    /\ exit \in {"none", "ok", "error", "panic", "killed"}

Init ==
    /\ pc = "start"
    /\ mode \in Modes
    /\ panicking = FALSE
    /\ reasons = {}
    /\ results = 0
    /\ cluster = "clean"
    /\ tornDown = FALSE
    /\ cm = EmptyConfigMap
    /\ exit = "none"

-----------------------------------------------------------------------------
(* Bug: the first report fills in every field, the completion included.    *)
BugStartedReport ==
    [cm EXCEPT !.start = TRUE, !.done = TRUE, !.succeeded = TRUE, !.results = results]

(* What Reporter.Report writes. The first report has no completion time.   *)
StartedReport == [cm EXCEPT !.start = TRUE]

(* Bug: only a failed Run makes the checkup fail.                          *)
BugFinalStatus(rs) ==
    [cm EXCEPT !.done = TRUE, !.succeeded = ("run" \notin rs), !.reasons = rs,
               !.results = results]

(* Bug: a checkup that failed is reported without its results.             *)
BugFinalStatusOfFailure(rs) ==
    [cm EXCEPT !.done = TRUE, !.succeeded = (rs = {}), !.reasons = rs,
               !.results = IF rs = {} THEN results ELSE @]

(* The second one derives Succeeded from the failure reasons collected so  *)
(* far and adds the results.                                               *)
FinalStatus(rs) ==
    [cm EXCEPT !.done = TRUE, !.succeeded = (rs = {}), !.reasons = rs, !.results = results]

Stored(o, written) == IF o = "refused" THEN cm ELSE written

(* The start report fails: Run returns its error and nothing is deferred.  *)
FirstReport(o) ==
    /\ pc = "start"
    /\ cm' = Stored(o, StartedReport)
    /\ IF o = "ok"
       THEN pc' = "setup" /\ UNCHANGED exit
       ELSE pc' = "exited" /\ exit' = "error"
    /\ UNCHANGED <<mode, panicking, reasons, results, cluster, tornDown>>

(* A failed Setup returns before Teardown is deferred.                     *)
Setup(o) ==
    /\ pc = "setup"
    /\ IF o = "ok"
       THEN pc' = "run" /\ UNCHANGED reasons
       ELSE pc' = "report" /\ reasons' = reasons \cup {"setup"}
    /\ UNCHANGED <<mode, panicking, results, cluster, tornDown, cm, exit>>

(* One check of the running checkup: a result is recorded, objects may be  *)
(* created (the abstraction of Checkup.tla).                               *)
CheckStep ==
    /\ pc = "run"
    /\ results' \in {results, results + 1} \cap (0..NumResults)
    /\ cluster' \in {"clean", "dirty"}
    /\ UNCHANGED <<pc, mode, panicking, reasons, tornDown, cm, exit>>

RunReturns(o) ==
    /\ pc = "run"
    /\ pc' = "teardown"
    /\ reasons' = IF o = "ok" THEN reasons ELSE reasons \cup {"run"}
    /\ UNCHANGED <<mode, panicking, results, cluster, tornDown, cm, exit>>

(* A panic of Run unwinds through the same deferred calls, with nothing    *)
(* appended to the failure reasons.                                        *)
RunPanics ==
    /\ pc = "run"
    /\ pc' = "teardown"
    /\ panicking' = TRUE
    /\ UNCHANGED <<mode, reasons, results, cluster, tornDown, cm, exit>>

(* Bug: the test of "onfailure" is inverted.                               *)
BugShouldSkipTeardown(failures) ==
    \/ mode = "onfailure" /\ failures = {}
    \/ mode = "always"

ShouldSkipTeardown(failures) ==
    \/ mode = "onfailure" /\ failures # {}
    \/ mode = "always"

SkipTeardown ==
    /\ pc = "teardown"
    /\ ShouldSkipTeardown(reasons)
    /\ pc' = "report"
    /\ UNCHANGED <<mode, panicking, reasons, results, cluster, tornDown, cm, exit>>

(* One deletion of Teardown, which attempts all of them.                   *)
TeardownStep ==
    /\ pc = "teardown"
    /\ ~ShouldSkipTeardown(reasons)
    /\ tornDown' = TRUE
    /\ cluster' \in {cluster, "clean"}
    /\ UNCHANGED <<pc, mode, panicking, reasons, results, cm, exit>>

(* Teardown returns no error only when every deletion was acknowledged.    *)
TeardownReturns(o) ==
    /\ pc = "teardown"
    /\ ~ShouldSkipTeardown(reasons)
    /\ tornDown' = TRUE
    /\ IF o = "ok"
       THEN cluster' = "clean" /\ UNCHANGED reasons
       ELSE cluster' \in {cluster, "clean"} /\ reasons' = reasons \cup {"teardown"}
    /\ pc' = "report"
    /\ UNCHANGED <<mode, panicking, results, cm, exit>>

(* Bug: the error of the final report is dropped.                          *)
BugFinalReport(o) ==
    /\ pc = "report"
    /\ cm' = Stored(o, FinalStatus(reasons))
    /\ pc' = "exit"
    /\ UNCHANGED <<mode, panicking, reasons, results, cluster, tornDown, exit>>

(* The deferred report, registered first and so run last.                  *)
FinalReport(o) ==
    /\ pc = "report"
    /\ cm' = Stored(o, FinalStatus(reasons))
    /\ reasons' = IF o = "ok" THEN reasons ELSE reasons \cup {"report"}
    /\ pc' = "exit"
    /\ UNCHANGED <<mode, panicking, results, cluster, tornDown, exit>>

(* failureReason and main: log.Fatalf on an error, a crash on a panic.     *)
Exit ==
    /\ pc = "exit"
    /\ pc' = "exited"
    /\ exit' = IF panicking THEN "panic" ELSE IF reasons = {} THEN "ok" ELSE "error"
    /\ UNCHANGED <<mode, panicking, reasons, results, cluster, tornDown, cm>>

(* The pod is evicted or deleted at any moment.                            *)
Kill ==
    /\ pc # "exited"
    /\ pc' = "exited"
    /\ exit' = "killed"
    /\ UNCHANGED <<mode, panicking, reasons, results, cluster, tornDown, cm>>

(* The finished pod is deleted, and with it what it owns in the cluster.   *)
PodDeleted ==
    /\ pc = "exited"
    /\ cluster' \in {cluster, "clean"}
    /\ UNCHANGED <<pc, mode, panicking, reasons, results, tornDown, cm, exit>>

CheckupSteps == CheckStep \/ RunPanics \/ \E o \in Outcomes : RunReturns(o)

TeardownSteps ==
    SkipTeardown \/ TeardownStep \/ \E o \in Outcomes : TeardownReturns(o)

LauncherSteps ==
    \/ \E o \in ReportOutcomes : FirstReport(o)
    \/ \E o \in Outcomes : Setup(o)
    \/ \E o \in ReportOutcomes : FinalReport(o)
    \/ Exit

Next == LauncherSteps \/ CheckupSteps \/ TeardownSteps \/ Kill \/ PodDeleted

Spec == Init /\ [][Next]_vars

(* The launcher is one goroutine that nothing but its own calls can hold;  *)
(* Run ends because its context has a deadline, and Teardown because it is *)
(* five requests with no loop.                                             *)
Fairness ==
    /\ WF_vars(LauncherSteps)
    /\ WF_vars(RunPanics \/ \E o \in Outcomes : RunReturns(o))
    /\ WF_vars(SkipTeardown \/ \E o \in Outcomes : TeardownReturns(o))

FairSpec == Spec /\ Fairness

-----------------------------------------------------------------------------
(* A process that exits with 0 has persisted a successful completion, and  *)
(* unless it was told to keep them its objects are gone: an error of any   *)
(* of the four calls must survive both deferred functions up to main.      *)
ExitZeroIsEarned ==
    exit = "ok" =>
        /\ cm.done /\ cm.succeeded /\ cm.results = results
        /\ mode # "always" => cluster = "clean"

(* A persisted completion carries every error that occurred but that of    *)
(* the report itself, the errors of Teardown included, and declares        *)
(* success exactly when there is none: the final report must be the last   *)
(* deferred call to run, with the error of Run already appended.           *)
PersistedReasonsAreComplete ==
    cm.done => /\ cm.reasons = reasons \ {"report"}
               /\ cm.succeeded <=> cm.reasons = {}

(* However Run ends, after all checks, by an error, its deadline or a      *)
(* panic, what its checks found until then is in the completion: the       *)
(* deferred report must read the results after Run, and whatever failed. A *)
(* process that was not killed leaves no completion only if the final      *)
(* report failed, which its exit code shows, or if it could not report its *)
(* start, and then it has touched nothing.                                 *)
ResultsOutliveFailures ==
    /\ cm.done => cm.results = results
    /\ exit \in {"ok", "error", "panic"} =>
          \/ cm.done
          \/ "report" \in reasons /\ exit # "ok"
          \/ reasons = {} /\ exit = "error" /\ results = 0 /\ cluster = "clean"

(* Objects are kept only where skipTeardown asks for it: "always" never    *)
(* tears down, "never" always does once Run was entered, and "onfailure"   *)
(* exactly when Run did not fail. A killed process promises nothing.       *)
SkipModeHonoured ==
    (pc \in {"report", "exit"} /\ "setup" \notin reasons) =>
        (tornDown <=> \/ mode \in {"unset", "never"}
                      \/ mode = "onfailure" /\ "run" \notin reasons)

(* Once the ConfigMap says the checkup completed, this process changes     *)
(* neither the cluster nor the results nor the ConfigMap any more: whoever *)
(* waits for the completion sees the final state.                          *)
CompletionIsLast ==
    [][cm.done /\ pc # "exited" => UNCHANGED <<cm, cluster, results, tornDown>>]_vars

(* A checkup marked as started is eventually marked as completed, unless   *)
(* its process is killed or one of its reports fails: whatever Run and     *)
(* Teardown do, a panic included, does not leave it "in progress".         *)
StartedIsCompleted ==
    cm.start ~> \/ cm.done
                \/ exit = "killed"
                \/ "report" \in reasons
                \/ exit = "error" /\ reasons = {}   \* the start report failed
=============================================================================
