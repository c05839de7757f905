---------------------------- MODULE StatusReport ----------------------------
(***************************************************************************)
(* The ConfigMap between several processes of the checkup and a user who   *)
(* edits it. A process reads and writes it four times: ReadWithDefaults of *)
(* src/pkg/internal/config adds defaults, the vendored kiagnose config     *)
(* reads it again and refuses it when it is in use, and the reporter of    *)
(* src/pkg/internal/reporter stores a start and a final report. Every      *)
(* write sends back the object that was read, and the API server refuses   *)
(* it when the object has changed since (resourceVersion).                 *)
(***************************************************************************)
EXTENDS Integers

CONSTANTS
    Processes,      \* jobs started on the ConfigMap, one after the other or not
    Specs,          \* what users may write into its spec keys
    None,
    MaxEdits        \* bound on the edits of the user

(* What the spec keys say once defaults have been filled in; "bad" and     *)
(* numbers out of range stand for values that do not parse as well.        *)
SpecType ==
    [timeout : {"ok", "bad"}, vmiTimeout : {"ok", "bad"}, numOfVMs : Int,
     numOfDataVolumes : Int, skipTeardown : {"onfailure", "always", "never", "true", "false", "bad"}]

ASSUME NoneAssumption == None \notin Processes
ASSUME SpecsAssumption == Specs \subseteq SpecType
ASSUME EditsAssumption == MaxEdits \in Nat

VARIABLES
    cm,             \* the ConfigMap as the API server has it
    pc,             \* the next request of each process
    copy,           \* the ConfigMap as each process last read or wrote it
    exit,           \* how each process ended
    edits,          \* number of edits so far
    (* history *)
    claimed,        \* processes whose start report was stored
    completed,      \* processes whose final report was stored
    disturbed,      \* processes that were reporting when another start report, an edit or the
                    \* defaults missing after an edit were stored
    late            \* processes that began while the ConfigMap was in use

procVars == <<pc, copy, exit>>
histVars == <<claimed, completed, disturbed, late>>
vars == <<cm, procVars, edits, histVars>>

Owner == Processes \cup {None}

(* defaulted: has the label and the timeout of ReadWithDefaults. start,    *)
(* done, results: the process that wrote the start timestamp, the          *)
(* completion with succeeded, and the result keys.                         *)
ConfigMaps ==
    [version : Nat, spec : Specs, defaulted : BOOLEAN, start : Owner, done : Owner,
     succeeded : BOOLEAN, results : Owner]

PCs == {"begin", "getDefaults", "putDefaults", "check", "getStart", "putStart", "run",
        "putFinal", "exited"}

(* Only "ok" is exit code 0.                                               *)
Exits == {"none", "ok", "failed", "fault", "conflict", "inUse", "illegal", "killed"}

TypeOK ==
    /\ cm \in ConfigMaps
    /\ pc \in [Processes -> PCs]
    /\ copy \in [Processes -> ConfigMaps]
    /\ exit \in [Processes -> Exits]
    /\ \A p \in Processes : pc[p] = "exited" <=> exit[p] # "none"
    /\ edits \in 0..MaxEdits
    /\ claimed \in SUBSET Processes /\ completed \in SUBSET Processes
    /\ disturbed \in SUBSET Processes /\ late \in SUBSET Processes

(* As the user applied it.                                                 *)
Fresh(spec, version) ==
    [version |-> version, spec |-> spec, defaulted |-> FALSE, start |-> None, done |-> None,
     succeeded |-> FALSE, results |-> None]

Init ==
    /\ \E spec \in Specs : cm = Fresh(spec, 0)
    /\ pc = [p \in Processes |-> "begin"]
    /\ copy = [p \in Processes |-> cm]
    /\ exit = [p \in Processes |-> "none"]
    /\ edits = 0
    /\ claimed = {} /\ completed = {} /\ disturbed = {} /\ late = {}
-----------------------------------------------------------------------------
(* Requests.                                                               *)

Goto(p, next) == pc' = [pc EXCEPT ![p] = next] /\ UNCHANGED exit

Exit(p, why) ==
    /\ pc' = [pc EXCEPT ![p] = "exited"]
    /\ exit' = [exit EXCEPT ![p] = why]

Get(p) == copy' = [copy EXCEPT ![p] = cm]

Answers == {"ok", "refused", "unacked", "conflict"}

(* The error that the answer to an update is returned as.                  *)
Error(a) == IF a = "conflict" THEN "conflict" ELSE "fault"

(* An update is stored if nobody has written the object since it was read; *)
(* one that changes nothing leaves the version as it is.                   *)
Update(p, new, a) ==
    /\ a = "conflict" <=> copy[p].version # cm.version
    /\ cm' = IF a \notin {"ok", "unacked"} \/ new = cm
             THEN cm ELSE [new EXCEPT !.version = cm.version + 1]

(* The processes whose start report is the last word on the ConfigMap.     *)
Reporting == {p \in Processes : pc[p] \in {"run", "putFinal"} /\ copy[p].version = cm.version}
-----------------------------------------------------------------------------
(* config.ReadWithDefaults and config.New.                                 *)

(* The environment, and the UID of the pod if it is not part of it.        *)
Begin(p, a) ==
    /\ pc[p] = "begin"
    /\ IF a = "ok" THEN Goto(p, "getDefaults") ELSE Exit(p, "fault")
    /\ late' = IF cm.start # None THEN late \cup {p} ELSE late
    /\ UNCHANGED <<cm, copy, edits, claimed, completed, disturbed>>

GetDefaults(p, a) ==
    /\ pc[p] = "getDefaults"
    /\ IF a = "ok" THEN Get(p) /\ Goto(p, "putDefaults") ELSE Exit(p, "fault") /\ UNCHANGED copy
    /\ UNCHANGED <<cm, edits, histVars>>

(* Bug: the defaults are written together with a mark of the attempt, so   *)
(* that the write changes the object every time.                           *)
BugPutDefaults(p, a) ==
    /\ pc[p] = "putDefaults"
    /\ a = "conflict" <=> copy[p].version # cm.version
    /\ cm' = IF a \in {"ok", "unacked"}
             THEN [copy[p] EXCEPT !.defaulted = TRUE, !.version = cm.version + 1] ELSE cm
    /\ IF a = "ok" THEN Goto(p, "check") ELSE Exit(p, Error(a))
    /\ UNCHANGED <<copy, edits, histVars>>

(* The label and the default timeout, in use or not.                       *)
PutDefaults(p, a) ==
    /\ pc[p] = "putDefaults"
    /\ Update(p, [copy[p] EXCEPT !.defaulted = TRUE], a)
    /\ IF a = "ok" THEN Goto(p, "check") ELSE Exit(p, Error(a))
    /\ disturbed' = IF cm' # cm /\ edits > 0 THEN disturbed \cup Reporting ELSE disturbed
    /\ UNCHANGED <<copy, edits, claimed, completed, late>>

(* The timeout and parameters that the two parsers accept.                 *)
Legal(spec) ==
    /\ spec.timeout # "bad" /\ spec.vmiTimeout # "bad"
    /\ spec.numOfVMs \in 1..100
    /\ spec.numOfDataVolumes \in 0..10
    /\ spec.skipTeardown # "bad"

(* Bug: a ConfigMap with a completed report is free again.                 *)
BugInUse == cm.start # None /\ cm.done = None

InUse == cm.start # None

(* The second read; the ConfigMap is in use once it has a start timestamp. *)
Check(p, a) ==
    /\ pc[p] = "check"
    /\ IF a # "ok" THEN Exit(p, "fault")
       ELSE IF InUse THEN Exit(p, "inUse")
       ELSE IF ~Legal(cm.spec) THEN Exit(p, "illegal") ELSE Goto(p, "getStart")
    /\ UNCHANGED <<cm, copy, edits, histVars>>
-----------------------------------------------------------------------------
(* The reporter.                                                           *)

(* The first report reads the ConfigMap once more, but does not look at it.*)
GetStart(p, a) ==
    /\ pc[p] = "getStart"
    /\ IF a = "ok" THEN Get(p) /\ Goto(p, "putStart") ELSE Exit(p, "fault") /\ UNCHANGED copy
    /\ UNCHANGED <<cm, edits, histVars>>

PutStart(p, a) ==
    /\ pc[p] = "putStart"
    /\ Update(p, [copy[p] EXCEPT !.start = p], a)
    /\ IF a = "ok"
       THEN copy' = [copy EXCEPT ![p] = cm'] /\ Goto(p, "run")
       ELSE Exit(p, Error(a)) /\ UNCHANGED copy
    /\ IF cm' # cm
       THEN claimed' = claimed \cup {p} /\ disturbed' = disturbed \cup Reporting
       ELSE UNCHANGED <<claimed, disturbed>>
    /\ UNCHANGED <<edits, completed, late>>

(* Bug: an early return passes over the final report and its exit.         *)
BugRun(p) ==
    /\ pc[p] = "run"
    /\ Goto(p, "exited")
    /\ UNCHANGED <<cm, copy, edits, histVars>>

(* Setup, Run and Teardown.                                                *)
Run(p) ==
    /\ pc[p] = "run"
    /\ Goto(p, "putFinal")
    /\ UNCHANGED <<cm, copy, edits, histVars>>

(* A run that failed before its first check recorded nothing; then the     *)
(* result keys are left as they are.                                       *)
FinalReport(p, outcome) ==
    [copy[p] EXCEPT !.done = p, !.succeeded = (outcome = "success"),
                    !.results = IF outcome = "failedEarly" THEN @ ELSE p]

(* Bug: a final report that finds a conflict reads the object again.       *)
BugPutFinal(p, outcome, a) ==
    /\ pc[p] = "putFinal"
    /\ a # "conflict"
    /\ cm' = IF a = "refused" THEN cm
             ELSE [cm EXCEPT !.done = p, !.version = @ + 1, !.results = p,
                             !.succeeded = (outcome = "success")]
    /\ IF a # "ok" THEN Exit(p, "fault")
       ELSE IF outcome = "success" THEN Exit(p, "ok") ELSE Exit(p, "failed")
    /\ completed' = IF cm' # cm THEN completed \cup {p} ELSE completed
    /\ UNCHANGED <<copy, edits, claimed, disturbed, late>>

(* Sent with the resourceVersion of the start report, once.                *)
PutFinal(p, outcome, a) ==
    /\ pc[p] = "putFinal"
    /\ Update(p, FinalReport(p, outcome), a)
    /\ IF a # "ok" THEN Exit(p, Error(a))
       ELSE IF outcome = "success" THEN Exit(p, "ok") ELSE Exit(p, "failed")
    /\ completed' = IF cm' # cm THEN completed \cup {p} ELSE completed
    /\ UNCHANGED <<copy, edits, claimed, disturbed, late>>

Kill(p) ==
    /\ pc[p] \notin {"begin", "exited"}
    /\ Exit(p, "killed")
    /\ UNCHANGED <<cm, copy, edits, histVars>>
-----------------------------------------------------------------------------
(* The user: changes the spec, takes the start timestamp out to make the   *)
(* ConfigMap usable again, or replaces it as a whole.                      *)
UserEdit(new) ==
    /\ edits < MaxEdits
    /\ edits' = edits + 1
    /\ cm' = [new EXCEPT !.version = cm.version + 1]
    /\ disturbed' = disturbed \cup Reporting
    /\ late' = IF new.start = None THEN {} ELSE late
    /\ UNCHANGED <<procVars, claimed, completed>>

User ==
    \/ \E spec \in Specs : UserEdit([cm EXCEPT !.spec = spec]) \/ UserEdit(Fresh(spec, 0))
    \/ UserEdit([cm EXCEPT !.start = None])

Process(p) ==
    \/ \E a \in {"ok", "refused"} : Begin(p, a) \/ GetDefaults(p, a) \/ Check(p, a) \/ GetStart(p, a)
    \/ \E a \in Answers : PutDefaults(p, a) \/ PutStart(p, a)
    \/ \E a \in Answers, o \in {"success", "failed", "failedEarly"} : PutFinal(p, o, a)
    \/ Run(p)

Next == (\E p \in Processes : Process(p) \/ Kill(p)) \/ User

Spec == Init /\ [][Next]_vars
-----------------------------------------------------------------------------
(* A report that was started and never completed is explained by a request *)
(* that failed, a kill, or a write that came between and made the final    *)
(* report a conflict: a user's edit or another start report. In particular *)
(* an exit with 0, or for the failures of the run alone, follows a stored  *)
(* completion. Checkups that are refused because the ConfigMap is in use   *)
(* do not disturb the one that uses it, although they write it, as long as *)
(* the user has not taken the defaults away.                               *)
LostReportIsExplained ==
    \A p \in claimed \ completed :
        pc[p] = "exited" =>
            exit[p] \in {"fault", "killed"} \/ (exit[p] = "conflict" /\ p \in disturbed)

(* A process that began while the ConfigMap was in use never reports on    *)
(* it, unless the user has reopened it since: the test and the report are  *)
(* two requests, but what the test found stays.                            *)
BusyIsRespected == late \cap claimed = {}

(* The process whose start report is the last word, if there is one.       *)
LastWord == IF Reporting = {} THEN None ELSE CHOOSE p \in Reporting : TRUE

(* The processes together keep the promise of the ledger: no report takes  *)
(* an edit back, though each sends the whole object as it was read, and    *)
(* the results beside a success are those of the process that reported it. *)
Ledger ==
    INSTANCE StatusLedger WITH
        spec <- cm.spec,
        success <- IF cm.succeeded THEN cm.done ELSE None,
        results <- cm.results,
        current <- LastWord

KeepsLedger == Ledger!Spec
=============================================================================
