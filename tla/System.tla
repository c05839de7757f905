------------------------------- MODULE System -------------------------------
(***************************************************************************)
(* The whole program: src/pkg/mainflow.go makes a launcher (Launcher.tla)  *)
(* run a checkup (Checkup.tla) under a context with a deadline. The        *)
(* launcher's view of the checkup, a number of results and a cluster that  *)
(* is clean or dirty, is here computed from the checkup's own state.       *)
(***************************************************************************)
EXTENDS Naturals, FiniteSets

CONSTANT Worlds     \* as in Checkup

VARIABLES
    lpc, mode, panicking, reasons, tornDown, cm, exit,          \* Launcher
    world, expired, cpc, ret, results, errStr, cluster, stopped, under, snapshotOK, tdFailed,
                                                                \* Checkup
    podGone     \* the pod of the checkup was deleted

launcherVars == <<lpc, mode, panicking, reasons, tornDown, cm, exit>>
checkupVars  == <<world, expired, cpc, ret, results, errStr, cluster, stopped, under,
                  snapshotOK, tdFailed>>
vars == <<launcherVars, checkupVars, podGone>>

C == INSTANCE Checkup WITH pc <- cpc

ASSUME WorldsAssumption == Worlds \subseteq C!WorldType

Ours == {o \in C!Objects : cluster[o] = "ours"}

(* What the launcher sees of the checkup.                                  *)
NumResults  == Cardinality(C!Fields)
Recorded    == Cardinality({f \in C!Fields : results[f] # {}})
TrackedLeft == IF Ours \cap C!Tracked = {} THEN "clean" ELSE "dirty"

L == INSTANCE Launcher WITH pc <- lpc, results <- Recorded, cluster <- TrackedLeft

Init == C!Init /\ L!Init /\ podGone = FALSE

-----------------------------------------------------------------------------
(* The launcher's own steps. Setup of this checkup has nothing to do.      *)
LauncherStep ==
    /\ UNCHANGED <<checkupVars, podGone>>
    /\ L!LauncherSteps \/ L!SkipTeardown
    /\ "setup" \notin reasons'

(* checkup.Run(ctx), called and returned from.                             *)
Running ==
    /\ lpc = "run"
    /\ C!Run
    /\ UNCHANGED <<launcherVars, podGone>>

(* Bug: a Run that was aborted is taken for one that passed.               *)
BugRunReturned ==
    /\ ret # "none"
    /\ UNCHANGED <<checkupVars, podGone>>
    /\ CASE ret = "panic"  -> L!RunPanics
         [] ret = "failed" -> L!RunReturns("error")
         [] OTHER          -> L!RunReturns("ok")

RunReturned ==
    /\ ret # "none"
    /\ UNCHANGED <<checkupVars, podGone>>
    /\ CASE ret = "panic" -> L!RunPanics
         [] ret = "ok"    -> L!RunReturns("ok")
         [] OTHER         -> L!RunReturns("error")

(* checkup.Teardown(context.Background()), called and returned from.       *)
TearingDown ==
    /\ lpc = "teardown"
    /\ ~L!ShouldSkipTeardown(reasons)
    /\ C!Teardown
    /\ tornDown' = TRUE
    /\ UNCHANGED <<lpc, mode, panicking, reasons, cm, exit, podGone>>

(* Bug: the error of Teardown is only logged.                              *)
BugTeardownReturned ==
    /\ lpc = "teardown" /\ cpc = "tornDown"
    /\ lpc' = "report"
    /\ UNCHANGED <<mode, panicking, reasons, tornDown, cm, exit, checkupVars, podGone>>

TeardownReturned ==
    /\ lpc = "teardown" /\ cpc = "tornDown"
    /\ lpc' = "report"
    /\ reasons' = IF tdFailed THEN reasons \cup {"teardown"} ELSE reasons
    /\ UNCHANGED <<mode, panicking, tornDown, cm, exit, checkupVars, podGone>>

Killed ==
    /\ UNCHANGED <<checkupVars, podGone>>
    /\ L!Kill

ClusterStep == C!Env /\ UNCHANGED <<launcherVars, podGone>>

(* Bug: the DataVolume of the PVC check has no owner.                      *)
BugPodOwned == {"vm", "vmi", "bootVM", "hotplugDV", "hotplugPVC"}

(* The VM under test, the VMs of the concurrent check and the DataVolumes  *)
(* are owned by the pod; what they own goes with them.                     *)
PodOwned == {"vm", "vmi", "bootVM", "checkupDV", "checkupPVC", "hotplugDV", "hotplugPVC"}

(* The Job or its pod is deleted, and the garbage collector follows.       *)
PodDeleted ==
    /\ lpc = "exited" /\ ~podGone
    /\ podGone' = TRUE
    /\ cluster' = [o \in C!Objects |-> IF o \in Ours \cap PodOwned THEN "absent" ELSE cluster[o]]
    /\ UNCHANGED <<launcherVars, world, expired, cpc, ret, results, errStr, stopped, under,
                   snapshotOK, tdFailed>>

Next ==
    \/ LauncherStep \/ Running \/ RunReturned \/ TearingDown \/ TeardownReturned
    \/ Killed \/ ClusterStep \/ PodDeleted

Spec == Init /\ [][Next]_vars

(* The process runs as in Launcher, its requests are answered, and polls   *)
(* end by the deadline at the latest. Nobody has to delete the pod, and no *)
(* controller of the cluster has to do anything.                           *)
Fairness ==
    /\ WF_vars(LauncherStep) /\ WF_vars(RunReturned)
    /\ WF_vars(lpc = "run" /\ C!Requests /\ UNCHANGED <<launcherVars, podGone>>)
    /\ WF_vars(lpc = "run" /\ expired /\ C!Polls /\ UNCHANGED <<launcherVars, podGone>>)
    /\ WF_vars(TearingDown) /\ WF_vars(TeardownReturned)
    /\ WF_vars(C!Deadline /\ UNCHANGED <<launcherVars, podGone>>)

FairSpec == Spec /\ Fairness

-----------------------------------------------------------------------------
(* The program implements the launcher's view of it: in particular a       *)
(* Teardown that reports no error has left none of the objects it is       *)
(* responsible for, and a completion that was persisted is final.          *)
RefinesLauncher == L!Spec

(* A success that a user reads in the ConfigMap, of a process that did not *)
(* crash, is a Run that completed every check without a failure and a      *)
(* Teardown that was skipped on demand or left nothing of its own.         *)
ReportedSuccessIsEarned ==
    cm.succeeded /\ ~panicking =>
        /\ ret = "ok"
        /\ \A f \in C!Mandatory : results[f] # {} /\ "fail" \notin results[f]
        /\ mode # "always" => Ours \cap C!Tracked = {}

(* However the process ended, deleting its pod leaves at most a snapshot   *)
(* and its restore, and a migration until KubeVirt has noticed that its    *)
(* instance is gone; with a Teardown that succeeded, only the migration.   *)
PodTakesTheRest ==
    podGone =>
        /\ Ours \subseteq {"snapshot", "restore", "vmim"}
        /\ tornDown /\ exit # "killed" /\ "teardown" \notin reasons => Ours \subseteq {"vmim"}

(* A checkup marked as started is eventually marked as completed: now with *)
(* a Run that ends because of its deadline and not by assumption.          *)
StartedIsCompleted == L!StartedIsCompleted

(* ------- what the documents say and the code does otherwise -------      *)

(* docs/vanilla-k8s-guide.md, status.succeeded: "`true` if all checks      *)
(* passed".                                                                *)
SucceededMeansAllPassed == cm.succeeded => ret = "ok"
=============================================================================
