---------------------------- MODULE SystemProofs -----------------------------
(***************************************************************************)
(* Proofs about the whole program: System implements Launcher, and what    *)
(* the invariants of Checkup and Launcher say together of a reported       *)
(* success and of what is left in the cluster.                             *)
(***************************************************************************)
EXTENDS System, FiniteSetTheorems, TLAPS

(* The two components with what is proved of them.                         *)
CP == INSTANCE CheckupProofs WITH pc <- cpc
LP == INSTANCE LauncherProofs WITH pc <- lpc, results <- Recorded, cluster <- TrackedLeft

(* Where the checkup is while the launcher is before, in and after Run.    *)
Phases ==
    /\ lpc \in L!PCs /\ "setup" \notin reasons /\ panicking \in BOOLEAN
    /\ lpc # "exited" => exit = "none"
    /\ podGone => lpc = "exited"
    /\ lpc \in {"start", "setup"} => ret = "none"
    /\ lpc \in {"start", "setup", "run"} => ~panicking /\ reasons = {} /\ ~tornDown
    /\ lpc \in {"teardown", "report", "exit"} =>
          /\ ret # "none"
          /\ panicking \/ ret = "ok" \/ "run" \in reasons

(* Teardown of the checkup was called exactly if the launcher wanted it    *)
(* to be, and goes on only as long as the launcher waits for it.           *)
TeardownCalled ==
    /\ cpc \in C!TeardownPCs \cup {"tornDown"} => tornDown
    /\ lpc = "teardown" => "teardown" \notin reasons
    /\ lpc = "teardown" /\ tornDown => ~L!ShouldSkipTeardown(reasons)
    /\ lpc = "report" => tornDown \/ L!ShouldSkipTeardown(reasons)

(* A Teardown that the launcher takes for one without an error.            *)
TornDownIsClean ==
    lpc \in {"report", "exit", "exited"} /\ tornDown /\ exit # "killed" /\ "teardown" \notin reasons
        => Ours \cap C!Tracked = {}

(* The garbage collector leaves nothing that anything could come back of.  *)
PodTakesOwned == podGone => Ours \cap PodOwned = {}

(* The inductive invariant.                                                *)
IInv ==
    /\ CP!IInv
    /\ Phases /\ TeardownCalled /\ TornDownIsClean /\ PodTakesOwned
-----------------------------------------------------------------------------
(* C and CP are instances of the same definitions.                         *)
LEMMA SameWorlds == Worlds \subseteq CP!WorldType
BY WorldsAssumption DEF WorldsAssumption, C!WorldType, CP!WorldType

(* A step of the checkup in System is one of the checkup alone.            *)
LEMMA SameInit == C!Init => CP!Init
BY DEF C!Init, CP!Init, C!Fields, CP!Fields, C!Objects, CP!Objects, C!Tracked, CP!Tracked

LEMMA SameEnv == C!Env => CP!Env
BY DEF C!Env, CP!Env, C!Deadline, CP!Deadline, C!Provision, CP!Provision, C!Collect, CP!Collect,
   C!StartVMI, CP!StartVMI, C!EndVMI, CP!EndVMI, C!CollectMigration, CP!CollectMigration,
   C!Volumes, CP!Volumes, C!EnvFrame, CP!EnvFrame, C!Exists, CP!Exists, C!RunPCs, CP!RunPCs,
   C!cluVars, CP!cluVars, C!checkVars, CP!checkVars, C!ctlVars, CP!ctlVars, C!repVars,
   CP!repVars, C!locVars, CP!locVars

LEMMA SameTeardown == C!Teardown => CP!Teardown
BY DEF C!Teardown, CP!Teardown, C!BeginTeardown, CP!BeginTeardown, C!Deletions, CP!Deletions,
   C!TeardownDelete, CP!TeardownDelete, C!Answers, CP!Answers, C!Without, CP!Without, C!Owned,
   CP!Owned, C!Objects, CP!Objects, C!Tracked, CP!Tracked, C!cluVars, CP!cluVars, C!repVars,
   CP!repVars, C!locVars, CP!locVars

LEMMA SameVolumeChecks == C!VolumeChecks => CP!VolumeChecks
BY DEF C!VolumeChecks, CP!VolumeChecks, C!CheckVersions, CP!CheckVersions,
   C!CheckDefaultStorageClass, CP!CheckDefaultStorageClass, C!CheckStorageProfiles,
   CP!CheckStorageProfiles, C!CheckGoldenImages, CP!CheckGoldenImages, C!CheckVMIs,
   CP!CheckVMIs, C!Survey, CP!Survey, C!CreatePVC, CP!CreatePVC, C!DeletePVC, CP!DeletePVC,
   C!SkipPVC, CP!SkipPVC, C!GoldenImagePanics, CP!GoldenImagePanics, C!NoStorageClass,
   CP!NoStorageClass, C!Reads, CP!Reads, C!Answers, CP!Answers, C!Objects, CP!Objects,
   C!Tracked, CP!Tracked, C!Goto, CP!Goto, C!Return, CP!Return, C!OrAbort, CP!OrAbort, C!Frame,
   CP!Frame, C!repVars, CP!repVars, C!cluVars, CP!cluVars, C!locVars, CP!locVars, C!Say, CP!Say,
   C!Fail, CP!Fail, C!Record, CP!Record, C!InTime, CP!InTime, C!Exists, CP!Exists, C!Create,
   CP!Create, C!Delete, CP!Delete, C!Without, CP!Without, C!Owned, CP!Owned, C!Poll, CP!Poll,
   C!Skip, CP!Skip

LEMMA SameVMChecks == C!VMChecks => CP!VMChecks
BY DEF C!VMChecks, CP!VMChecks, C!SkipBoot, CP!SkipBoot, C!ReportSnapshotClone,
   CP!ReportSnapshotClone, C!SkipWithoutVM, CP!SkipWithoutVM, C!ReadCloneType, CP!ReadCloneType,
   C!MigrationSkipReason, CP!MigrationSkipReason, C!CreateVM, CP!CreateVM, C!CreateHotplugDV,
   CP!CreateHotplugDV, C!HotplugVolume, CP!HotplugVolume, C!UnplugVolume, CP!UnplugVolume,
   C!PatchVM, CP!PatchVM, C!CreateMigration, CP!CreateMigration, C!NoStorageClass,
   CP!NoStorageClass, C!NoGoldenImage, CP!NoGoldenImage, C!Reads, CP!Reads, C!Answers,
   CP!Answers, C!Goto, CP!Goto, C!Return, CP!Return, C!OrAbort, CP!OrAbort, C!Frame, CP!Frame,
   C!repVars, CP!repVars, C!cluVars, CP!cluVars, C!locVars, CP!locVars, C!Say, CP!Say, C!Fail,
   CP!Fail, C!Record, CP!Record, C!InTime, CP!InTime, C!Exists, CP!Exists, C!Create, CP!Create,
   C!Skip, CP!Skip

LEMMA SameSnapshotChecks == C!SnapshotChecks => CP!SnapshotChecks
BY DEF C!SnapshotChecks, CP!SnapshotChecks, C!SkipWithoutVM, CP!SkipWithoutVM, C!SkipRestore,
   CP!SkipRestore, C!CreateSnapshot, CP!CreateSnapshot, C!StopVM, CP!StopVM, C!CreateRestore,
   CP!CreateRestore, C!ValidateVMSnapshot, CP!ValidateVMSnapshot, C!ValidateVMRestore,
   CP!ValidateVMRestore, C!Reads, CP!Reads, C!Answers, CP!Answers, C!Goto, CP!Goto, C!Return,
   CP!Return, C!OrAbort, CP!OrAbort, C!Frame, CP!Frame, C!repVars, CP!repVars, C!cluVars,
   CP!cluVars, C!locVars, CP!locVars, C!Say, CP!Say, C!Fail, CP!Fail, C!Record, CP!Record,
   C!InTime, CP!InTime, C!Exists, CP!Exists, C!Create, CP!Create, C!Skip, CP!Skip

LEMMA SameConcurrentChecks == C!ConcurrentChecks => CP!ConcurrentChecks
BY DEF C!ConcurrentChecks, CP!ConcurrentChecks, C!SkipConcurrent, CP!SkipConcurrent,
   C!CreateConcurrentVM, CP!CreateConcurrentVM, C!DeleteConcurrentVM, CP!DeleteConcurrentVM,
   C!NoStorageClass, CP!NoStorageClass, C!NoGoldenImage, CP!NoGoldenImage, C!Answers,
   CP!Answers, C!Objects, CP!Objects, C!Tracked, CP!Tracked, C!Goto, CP!Goto, C!Return,
   CP!Return, C!OrAbort, CP!OrAbort, C!Frame, CP!Frame, C!repVars, CP!repVars, C!cluVars,
   CP!cluVars, C!locVars, CP!locVars, C!Say, CP!Say, C!Fail, CP!Fail, C!Record, CP!Record,
   C!InTime, CP!InTime, C!Exists, CP!Exists, C!Create, CP!Create, C!Delete, CP!Delete,
   C!Without, CP!Without, C!Owned, CP!Owned, C!Poll, CP!Poll, C!Skip, CP!Skip

LEMMA SamePolls == C!Polls => CP!Polls
BY DEF C!Polls, CP!Polls, C!WaitForPVCBound, CP!WaitForPVCBound, C!WaitForVMIBoot,
   CP!WaitForVMIBoot, C!WaitForPlug, CP!WaitForPlug, C!WaitForUnplug, CP!WaitForUnplug,
   C!WaitForMigration, CP!WaitForMigration, C!WaitForVMSnapshotReady, CP!WaitForVMSnapshotReady,
   C!WaitForStop, CP!WaitForStop, C!WaitForVMRestoreComplete, CP!WaitForVMRestoreComplete,
   C!WaitForConcurrentBoot, CP!WaitForConcurrentBoot, C!Poll, CP!Poll, C!Goto, CP!Goto,
   C!Return, CP!Return, C!Frame, CP!Frame, C!repVars, CP!repVars, C!cluVars, CP!cluVars,
   C!locVars, CP!locVars, C!Say, CP!Say, C!Fail, CP!Fail, C!Record, CP!Record, C!Exists,
   CP!Exists

LEMMA SameRun == C!Run => CP!Run
BY SameVolumeChecks, SameVMChecks, SameSnapshotChecks, SameConcurrentChecks, SamePolls
   DEF C!Run, CP!Run, C!Requests, CP!Requests, C!Finish, CP!Finish, C!Return, CP!Return, C!Frame,
   CP!Frame, C!repVars, CP!repVars, C!cluVars, CP!cluVars, C!locVars, CP!locVars
-----------------------------------------------------------------------------
(* The environment creates nothing that Teardown or the garbage collector  *)
(* has to delete where there was nothing before, and takes no trace away.  *)
LEMMA EnvTracked ==
    ASSUME IInv, C!Env
    PROVE  /\ Ours \cap C!Tracked = {} <=> Ours' \cap C!Tracked = {}
           /\ Ours \cap PodOwned = {} => Ours' \cap PodOwned = {}
<1> USE DEF Ours, PodOwned, C!Objects, C!Tracked, C!Exists, C!EnvFrame
<1>1. cluster \in [C!Objects -> {"absent", "ours", "foreign"}]
  BY DEF IInv, CP!IInv, CP!TypeOK, CP!Objects, CP!Tracked
<1>2. CASE C!Deadline
  BY <1>2 DEF C!Deadline, C!cluVars
<1>3. ASSUME NEW v \in C!Volumes, C!Provision(v[1], v[2])
      PROVE  /\ Ours \cap C!Tracked = {} <=> Ours' \cap C!Tracked = {}
             /\ Ours \cap PodOwned = {} => Ours' \cap PodOwned = {}
  BY <1>1, <1>3 DEF C!Provision, C!Volumes
<1>4. ASSUME NEW v \in C!Volumes, C!Collect(v[1], v[2])
      PROVE  /\ Ours \cap C!Tracked = {} <=> Ours' \cap C!Tracked = {}
             /\ Ours \cap PodOwned = {} => Ours' \cap PodOwned = {}
  BY <1>1, <1>4 DEF C!Collect, C!Volumes
<1>5. CASE C!StartVMI
  BY <1>1, <1>5 DEF C!StartVMI
<1>6. CASE C!EndVMI \/ C!CollectMigration
  BY <1>1, <1>6 DEF C!EndVMI, C!CollectMigration
<1> QED
  BY <1>2, <1>3, <1>4, <1>5, <1>6 DEF C!Env

(* Neither Teardown nor the garbage collector creates anything.            *)
LEMMA DeletionsOnly ==
    ASSUME IInv, C!Teardown \/ PodDeleted
    PROVE  Ours' \subseteq Ours
<1>1. cluster \in [C!Objects -> {"absent", "ours", "foreign"}]
  BY DEF IInv, CP!IInv, CP!TypeOK, CP!Objects, CP!Tracked, C!Objects, C!Tracked
<1>2. CASE C!Teardown
  BY <1>1, <1>2 DEF C!Teardown, C!BeginTeardown, C!Deletions, C!TeardownDelete, C!Without, C!cluVars, Ours
<1>3. CASE PodDeleted
  BY <1>1, <1>3 DEF PodDeleted, Ours
<1> QED
  BY <1>2, <1>3

(* The checkup's own invariant, also while the launcher moves and when the *)
(* pod is deleted.                                                         *)
LEMMA CheckupKept ==
    ASSUME IInv, [Next]_vars
    PROVE  CP!IInv'
<1>1. CASE UNCHANGED checkupVars
  <2>1. UNCHANGED CP!vars
    BY <1>1 DEF checkupVars, CP!vars, CP!ctlVars, CP!repVars, CP!cluVars, CP!locVars
  <2> QED
    BY <2>1, SameWorlds, CP!NextKeeps DEF IInv
<1>2. CASE C!Run \/ C!Teardown \/ C!Env
  <2>1. CP!Next
    BY <1>2, SameRun, SameTeardown, SameEnv DEF CP!Next
  <2> QED
    BY <2>1, SameWorlds, CP!NextKeeps DEF IInv
<1>3. CASE PodDeleted
  <2>1. cluster' \in [CP!Objects -> {"absent", "ours", "foreign"}]
        /\ \A o \in CP!Objects :
              cluster'[o] = IF cluster[o] = "ours" /\ o \in PodOwned THEN "absent" ELSE cluster[o]
    BY <1>3 DEF PodDeleted, Ours, IInv, CP!IInv, CP!TypeOK, CP!Objects, CP!Tracked, C!Objects, C!Tracked
  <2>2. UNCHANGED <<world, expired, cpc, ret, results, errStr, stopped, under, snapshotOK, tdFailed>>
    BY <1>3 DEF PodDeleted
  <2>3. CP!TypeOK' /\ CP!Reports'
    BY <2>1, <2>2 DEF IInv, CP!IInv, CP!TypeOK, CP!Reports, CP!RetTells, CP!FailuresAreNoted,
       CP!PlainChecks, CP!VMChecked, CP!SnapshotChecked, CP!Going
  <2>4. CP!Objective'
    BY <2>1, <2>2 DEF IInv, CP!IInv, CP!TypeOK, CP!Objective, CP!Ownership, CP!Gone, CP!RestoreIsSafe,
       CP!OwnVolume, CP!Objects, CP!Tracked, PodOwned
  <2> QED
    BY <2>3, <2>4 DEF CP!IInv
<1> QED
  BY <1>1, <1>2, <1>3 DEF Next, LauncherStep, Running, RunReturned, TearingDown, TeardownReturned, Killed,
     ClusterStep, vars

(* Both parts are in their initial states.                                 *)
LEMMA InitIInv == Init => IInv
<1> SUFFICES ASSUME Init PROVE IInv
  OBVIOUS
<1>1. CP!IInv
  BY SameWorlds, SameInit, CP!InitIInv DEF Init
<1>2. Phases
  BY DEF Init, C!Init, L!Init, Phases, L!PCs
<1>3. TeardownCalled /\ TornDownIsClean /\ PodTakesOwned
  BY DEF Init, C!Init, L!Init, TeardownCalled, TornDownIsClean, PodTakesOwned, C!TeardownPCs
<1> QED
  BY <1>1, <1>2, <1>3 DEF IInv

(* What the invariant of the checkup says of a Teardown without an error.  *)
LEMMA TeardownLeavesNothing ==
    ASSUME IInv, cpc = "tornDown", ~tdFailed
    PROVE  Ours \cap C!Tracked = {}
BY DEF IInv, CP!IInv, CP!Objective, CP!Gone, CP!Ownership, CP!TeardownPCs, CP!Tracked, Ours, C!Tracked

(* The steps of the launcher that leave the checkup alone.                 *)
LEMMA LauncherKeeps ==
    ASSUME IInv, LauncherStep \/ RunReturned \/ TeardownReturned \/ Killed
    PROVE  Phases' /\ TeardownCalled' /\ TornDownIsClean' /\ PodTakesOwned'
<1> USE DEF IInv, Phases, TeardownCalled, TornDownIsClean, PodTakesOwned, L!PCs
<1>1. UNCHANGED <<checkupVars, podGone, mode>> /\ Ours' = Ours
  BY DEF LauncherStep, RunReturned, TeardownReturned, Killed, L!LauncherSteps, L!FirstReport, L!Setup,
     L!FinalReport, L!Exit, L!SkipTeardown, L!RunPanics, L!RunReturns, L!Kill, checkupVars, Ours
<1>2. CASE LauncherStep
  BY <1>1, <1>2 DEF LauncherStep, L!LauncherSteps, L!FirstReport, L!Setup, L!FinalReport, L!Exit,
     L!SkipTeardown, L!ShouldSkipTeardown, checkupVars
<1>3. CASE RunReturned
  <2>1. ret \in {"ok", "failed", "aborted", "panic"}
    BY <1>3 DEF RunReturned, CP!IInv, CP!TypeOK
  <2>2. CASE ret = "panic"
    BY <1>1, <1>3, <2>2 DEF RunReturned, L!RunPanics, L!ShouldSkipTeardown, checkupVars
  <2>3. CASE ret = "ok"
    BY <1>1, <1>3, <2>3 DEF RunReturned, L!RunReturns, L!ShouldSkipTeardown, checkupVars
  <2>4. CASE ret \in {"failed", "aborted"}
    BY <1>1, <1>3, <2>4 DEF RunReturned, L!RunReturns, L!ShouldSkipTeardown, checkupVars
  <2> QED
    BY <2>1, <2>2, <2>3, <2>4
<1>4. CASE TeardownReturned
  BY <1>1, <1>4, TeardownLeavesNothing DEF TeardownReturned, C!TeardownPCs, checkupVars
<1>5. CASE Killed
  BY <1>1, <1>5 DEF Killed, L!Kill, checkupVars
<1> QED
  BY <1>2, <1>3, <1>4, <1>5

(* Every step of the program keeps the invariant.                          *)
LEMMA NextKeeps == IInv /\ [Next]_vars => IInv'
<1> SUFFICES ASSUME IInv, [Next]_vars PROVE IInv'
  OBVIOUS
<1>1. CP!IInv'
  BY CheckupKept
<1>2. CASE LauncherStep \/ RunReturned \/ TeardownReturned \/ Killed
  BY <1>1, <1>2, LauncherKeeps DEF IInv
<1>3. CASE Running
  <2>1. UNCHANGED launcherVars /\ podGone' = podGone /\ lpc = "run"
    BY <1>3 DEF Running
  <2>2. cpc' \notin C!TeardownPCs \cup {"tornDown"}
    BY <1>3, SameRun, CP!RunMoves, SameWorlds DEF Running, CP!RunPCs, C!TeardownPCs
  <2> QED
    BY <1>1, <2>1, <2>2 DEF IInv, Phases, TeardownCalled, TornDownIsClean, PodTakesOwned, launcherVars
<1>4. CASE TearingDown
  <2>1. UNCHANGED <<lpc, mode, panicking, reasons, exit, podGone>> /\ lpc = "teardown" /\ tornDown'
        /\ ~L!ShouldSkipTeardown(reasons)
    BY <1>4 DEF TearingDown
  <2>2. ret' = ret
    BY <1>4, SameTeardown, CP!TeardownMoves, SameWorlds DEF TearingDown
  <2> QED
    BY <1>1, <2>1, <2>2 DEF IInv, Phases, TeardownCalled, TornDownIsClean, PodTakesOwned,
       L!ShouldSkipTeardown
<1>5. CASE ClusterStep
  <2>1. UNCHANGED launcherVars /\ podGone' = podGone
    BY <1>5 DEF ClusterStep
  <2>2. UNCHANGED <<cpc, ret>>
    BY <1>5, SameEnv, CP!EnvMoves, SameWorlds DEF ClusterStep
  <2>3. /\ Ours \cap C!Tracked = {} <=> Ours' \cap C!Tracked = {}
        /\ Ours \cap PodOwned = {} => Ours' \cap PodOwned = {}
    BY <1>5, EnvTracked DEF ClusterStep
  <2> QED
    BY <1>1, <2>1, <2>2, <2>3 DEF IInv, Phases, TeardownCalled, TornDownIsClean, PodTakesOwned,
       launcherVars, L!ShouldSkipTeardown
<1>6. CASE PodDeleted
  <2>1. UNCHANGED launcherVars /\ UNCHANGED <<cpc, ret>> /\ lpc = "exited"
    BY <1>6 DEF PodDeleted
  <2>2. Ours' \subseteq Ours
    BY <1>6, DeletionsOnly
  <2>3. Ours' \cap PodOwned = {}
    BY <1>6 DEF PodDeleted, Ours
  <2> QED
    BY <1>1, <2>1, <2>2, <2>3 DEF IInv, Phases, TeardownCalled, TornDownIsClean, PodTakesOwned,
       launcherVars, L!ShouldSkipTeardown
<1>7. CASE UNCHANGED vars
  BY <1>1, <1>7 DEF vars, launcherVars, checkupVars, Ours, IInv, Phases, TeardownCalled, TornDownIsClean,
     PodTakesOwned, L!ShouldSkipTeardown
<1> QED
  BY <1>2, <1>3, <1>4, <1>5, <1>6, <1>7 DEF Next

(* The launcher and its checkup stay in step, and what is gone stays gone. *)
THEOREM Inductive == Spec => []IInv
BY InitIInv, NextKeeps, PTL DEF Spec
-----------------------------------------------------------------------------
(* The refinement of Launcher. It counts the fields that have a result.    *)

LEMMA FieldsFinite == IsFiniteSet(C!Fields) /\ NumResults \in Nat \ {0}
<1>1. IsFiniteSet({})
  BY FS_EmptySet
<1>2. IsFiniteSet({"versions"} \cup {"defaultSC"} \cup {"pvcBound"} \cup {"surveys"})
  BY <1>1, FS_Singleton, FS_Union
<1>3. IsFiniteSet({"boot"} \cup {"clone"} \cup {"hotplug"} \cup {"migration"})
  BY <1>1, FS_Singleton, FS_Union
<1>4. IsFiniteSet({"snapshot"} \cup {"restore"} \cup {"concurrent"})
  BY <1>1, FS_Singleton, FS_Union
<1>5. C!Fields = ({"versions"} \cup {"defaultSC"} \cup {"pvcBound"} \cup {"surveys"})
                 \cup ({"boot"} \cup {"clone"} \cup {"hotplug"} \cup {"migration"})
                 \cup ({"snapshot"} \cup {"restore"} \cup {"concurrent"})
  BY DEF C!Fields
<1>6. IsFiniteSet(C!Fields)
  BY <1>2, <1>3, <1>4, <1>5, FS_Union
<1>7. C!Fields # {}
  BY DEF C!Fields
<1> QED
  BY <1>6, <1>7, FS_CardinalityType, FS_EmptySet DEF NumResults

(* One verdict makes at most one field more.                               *)
LEMMA CountOne ==
    ASSUME IInv, C!Run
    PROVE  Recorded' \in {Recorded, Recorded + 1} \cap (0..NumResults)
<1> DEFINE Has == {f \in C!Fields : results[f] # {}}
<1>1. Has \in SUBSET C!Fields /\ Has' \in SUBSET C!Fields
  OBVIOUS
<1>2. IsFiniteSet(Has) /\ IsFiniteSet(Has') /\ Cardinality(Has') <= Cardinality(C!Fields)
  BY <1>1, FieldsFinite, FS_Subset
<1>3. Cardinality(Has) \in Nat /\ Cardinality(Has') \in Nat
  BY <1>2, FS_CardinalityType
<1>4. Has' = Has \/ \E f \in C!Fields : Has' = Has \cup {f}
  <2>1. results \in [CP!Fields -> SUBSET CP!Marks] /\ C!Fields = CP!Fields
    BY DEF IInv, CP!IInv, CP!TypeOK, C!Fields, CP!Fields
  <2>2. results' = results \/ \E f \in CP!Fields, m \in CP!Marks : CP!Record(f, m)
    BY SameRun, SameWorlds, CP!RunRecords
  <2>3. ASSUME NEW f \in CP!Fields, NEW m \in CP!Marks, CP!Record(f, m)
        PROVE  Has' = Has \cup {f}
    <3>1. results' = [results EXCEPT ![f] = results[f] \cup {m}]
      BY <2>3 DEF CP!Record
    <3>2. \A g \in C!Fields : results'[g] # {} <=> results[g] # {} \/ g = f
      BY <2>1, <3>1
    <3> QED
      BY <2>1, <3>2
  <2> QED
    BY <2>1, <2>2, <2>3
<1>5. Cardinality(Has') \in {Cardinality(Has), Cardinality(Has) + 1}
  BY <1>2, <1>4, FS_AddElement
<1> QED
  BY <1>2, <1>3, <1>5, FieldsFinite DEF Recorded, NumResults

(* Every step is one of the launcher, or none.                             *)
LEMMA StepRefines ==
    ASSUME IInv, [Next]_vars
    PROVE  [L!Next]_L!vars
<1> USE DEF L!Next, L!CheckupSteps, L!TeardownSteps, L!Outcomes
<1>1. CASE LauncherStep
  BY <1>1 DEF LauncherStep
<1>2. CASE Running
  <2>1. Recorded' \in {Recorded, Recorded + 1} \cap (0..NumResults)
    BY <1>2, CountOne DEF Running
  <2>2. TrackedLeft' \in {"clean", "dirty"}
    BY DEF TrackedLeft
  <2>3. L!CheckStep
    BY <1>2, <2>1, <2>2 DEF Running, L!CheckStep, launcherVars
  <2> QED
    BY <2>3
<1>3. CASE RunReturned
  <2>1. ret \in {"ok", "failed", "aborted", "panic"}
    BY <1>3 DEF RunReturned, IInv, CP!IInv, CP!TypeOK
  <2>2. L!RunPanics \/ L!RunReturns("ok") \/ L!RunReturns("error")
    <3>1. CASE ret = "panic"
      BY <1>3, <3>1 DEF RunReturned
    <3>2. CASE ret = "ok"
      BY <1>3, <3>2 DEF RunReturned
    <3>3. CASE ret \in {"failed", "aborted"}
      BY <1>3, <3>3 DEF RunReturned
    <3> QED
      BY <2>1, <3>1, <3>2, <3>3
  <2> QED
    BY <2>2
<1>4. CASE TearingDown
  <2>1. results' = results
    BY <1>4, SameTeardown, SameWorlds, CP!TeardownMoves DEF TearingDown
  <2>2. Recorded' = Recorded
    BY <2>1 DEF Recorded
  <2>3. TrackedLeft' \in {TrackedLeft, "clean"}
    BY <1>4, DeletionsOnly DEF TearingDown, TrackedLeft
  <2>4. L!TeardownStep
    BY <1>4, <2>2, <2>3 DEF TearingDown, L!TeardownStep
  <2> QED
    BY <2>4
<1>5. CASE TeardownReturned
  <2>1. tornDown = TRUE /\ ~L!ShouldSkipTeardown(reasons)
    BY <1>5 DEF TeardownReturned, IInv, TeardownCalled
  <2>2. Recorded' = Recorded /\ TrackedLeft' = TrackedLeft
    BY <1>5 DEF TeardownReturned, checkupVars, Recorded, TrackedLeft, Ours
  <2>3. ~tdFailed => TrackedLeft = "clean"
    BY <1>5, TeardownLeavesNothing DEF TeardownReturned, TrackedLeft
  <2>4. L!TeardownReturns(IF tdFailed THEN "error" ELSE "ok")
    BY <1>5, <2>1, <2>2, <2>3 DEF TeardownReturned, L!TeardownReturns
  <2> QED
    BY <2>4
<1>6. CASE Killed
  BY <1>6 DEF Killed
<1>7. CASE ClusterStep
  <2>1. results' = results
    BY <1>7, SameEnv, SameWorlds, CP!EnvMoves DEF ClusterStep
  <2>2. Recorded' = Recorded
    BY <2>1 DEF Recorded
  <2>3. TrackedLeft' = TrackedLeft
    BY <1>7, EnvTracked DEF ClusterStep, TrackedLeft
  <2> QED
    BY <1>7, <2>2, <2>3 DEF ClusterStep, launcherVars, L!vars
<1>8. CASE PodDeleted
  <2>1. Recorded' = Recorded
    BY <1>8 DEF PodDeleted, Recorded
  <2>2. TrackedLeft' \in {TrackedLeft, "clean"}
    BY <1>8, DeletionsOnly DEF TrackedLeft
  <2>3. L!PodDeleted
    BY <1>8, <2>1, <2>2 DEF PodDeleted, L!PodDeleted, launcherVars
  <2> QED
    BY <2>3
<1>9. CASE UNCHANGED vars
  BY <1>9 DEF vars, launcherVars, checkupVars, L!vars, Recorded, TrackedLeft, Ours
<1> QED
  BY <1>1, <1>2, <1>3, <1>4, <1>5, <1>6, <1>7, <1>8, <1>9 DEF Next

(* The program with its checkup implements the launcher, in every cluster. *)
THEOREM RefinesLauncherCorrect == Spec => RefinesLauncher
<1>1. Init => L!Init
  BY DEF Init
<1> QED
  BY <1>1, StepRefines, Inductive, PTL DEF Spec, RefinesLauncher, L!Spec

(* Hence what is proved of the launcher holds of the program.              *)
LEMMA SameLauncher == L!Spec => LP!Spec
<1>1. L!Init => LP!Init
  BY DEF L!Init, LP!Init, L!Modes, LP!Modes, L!EmptyConfigMap, LP!EmptyConfigMap
<1>2. [L!Next]_L!vars => [LP!Next]_LP!vars
  BY DEF L!Next, LP!Next, L!vars, LP!vars, L!CheckupSteps, LP!CheckupSteps, L!TeardownSteps,
     LP!TeardownSteps, L!LauncherSteps, LP!LauncherSteps, L!Outcomes, LP!Outcomes, L!ReportOutcomes,
     LP!ReportOutcomes, L!FirstReport, LP!FirstReport, L!Setup, LP!Setup, L!FinalReport, LP!FinalReport,
     L!Exit, LP!Exit, L!CheckStep, LP!CheckStep, L!RunPanics, LP!RunPanics, L!RunReturns, LP!RunReturns,
     L!SkipTeardown, LP!SkipTeardown, L!TeardownStep, LP!TeardownStep, L!TeardownReturns,
     LP!TeardownReturns, L!Kill, LP!Kill, L!PodDeleted, LP!PodDeleted, L!Stored, LP!Stored,
     L!StartedReport, LP!StartedReport, L!FinalStatus, LP!FinalStatus, L!ShouldSkipTeardown,
     LP!ShouldSkipTeardown
<1> QED
  BY <1>1, <1>2, PTL DEF L!Spec, LP!Spec

(* The launcher's types, through the refinement.                           *)
LEMMA LauncherTypes == Spec => []LP!TypeOK
<1>1. LP!Spec => []LP!TypeOK
  BY FieldsFinite, LP!TypeCorrect
<1> QED
  BY <1>1, RefinesLauncherCorrect, SameLauncher, PTL DEF RefinesLauncher

(* A success is persisted with the final report, of a Run without an error.*)
SuccessIsFinal ==
    cm.succeeded =>
        /\ lpc \in {"exit", "exited"}
        /\ panicking \/ ret = "ok"
        /\ mode # "always" => Ours \cap C!Tracked = {}

(* A success that was stored stays earned.                                 *)
LEMMA SuccessKept == IInv /\ LP!TypeOK /\ SuccessIsFinal /\ [Next]_vars => SuccessIsFinal'
<1> SUFFICES ASSUME IInv, LP!TypeOK, SuccessIsFinal, [Next]_vars PROVE SuccessIsFinal'
  OBVIOUS
<1> USE DEF SuccessIsFinal
<1>1. CASE LauncherStep
  <2>1. UNCHANGED <<mode, panicking, ret>> /\ Ours' = Ours
    BY <1>1 DEF LauncherStep, L!LauncherSteps, L!FirstReport, L!Setup, L!FinalReport, L!Exit,
       L!SkipTeardown, checkupVars, Ours
  <2>2. ASSUME NEW o \in L!ReportOutcomes, L!FinalReport(o) PROVE SuccessIsFinal'
    <3>1. cm' = cm \/ cm'.succeeded = (reasons = {})
      BY <2>2 DEF L!FinalReport, L!Stored, L!FinalStatus, LP!TypeOK, LP!ConfigMaps
    <3>2. lpc = "report" /\ lpc' = "exit"
      BY <2>2 DEF L!FinalReport
    <3>3. reasons = {} => /\ panicking \/ ret = "ok"
                          /\ mode # "always" => Ours \cap C!Tracked = {}
      BY <3>2 DEF IInv, Phases, TeardownCalled, TornDownIsClean, L!ShouldSkipTeardown
    <3> QED
      BY <2>1, <3>1, <3>2, <3>3
  <2>3. ASSUME NEW o \in L!ReportOutcomes, L!FirstReport(o) PROVE SuccessIsFinal'
    BY <2>3 DEF L!FirstReport, L!Stored, L!StartedReport, LP!TypeOK, LP!ConfigMaps
  <2>4. ASSUME NEW o \in L!Outcomes, L!Setup(o) PROVE SuccessIsFinal'
    BY <2>4 DEF L!Setup
  <2>5. CASE L!Exit \/ L!SkipTeardown
    BY <2>1, <2>5 DEF L!Exit, L!SkipTeardown
  <2> QED
    BY <1>1, <2>2, <2>3, <2>4, <2>5 DEF LauncherStep, L!LauncherSteps
<1>2. CASE Running \/ RunReturned \/ TearingDown \/ TeardownReturned
  <2>1. cm' = cm /\ lpc \in {"run", "teardown"}
    BY <1>2 DEF Running, RunReturned, TearingDown, TeardownReturned, launcherVars, L!RunPanics, L!RunReturns
  <2> QED
    BY <2>1
<1>3. CASE Killed
  BY <1>3 DEF Killed, L!Kill, checkupVars, Ours
<1>4. CASE ClusterStep
  <2>1. ret' = ret /\ UNCHANGED launcherVars
    BY <1>4, SameEnv, SameWorlds, CP!EnvMoves DEF ClusterStep
  <2>2. Ours \cap C!Tracked = {} => Ours' \cap C!Tracked = {}
    BY <1>4, EnvTracked DEF ClusterStep
  <2> QED
    BY <2>1, <2>2 DEF launcherVars
<1>5. CASE PodDeleted
  <2>1. ret' = ret /\ UNCHANGED launcherVars /\ Ours' \subseteq Ours
    BY <1>5, DeletionsOnly DEF PodDeleted
  <2> QED
    BY <2>1 DEF launcherVars
<1>6. CASE UNCHANGED vars
  BY <1>6 DEF vars, launcherVars, checkupVars, Ours
<1> QED
  BY <1>1, <1>2, <1>3, <1>4, <1>5, <1>6 DEF Next

(* A success in the ConfigMap of a process that did not crash was earned   *)
(* by a complete Run, and by a Teardown where one was asked for.           *)
THEOREM ReportedSuccessCorrect == Spec => []ReportedSuccessIsEarned
<1>1. Init => SuccessIsFinal
  BY DEF Init, L!Init, L!EmptyConfigMap, SuccessIsFinal
<1>2. IInv /\ SuccessIsFinal => ReportedSuccessIsEarned
  <2>1. IInv => CP!SuccessIsComplete
    BY SameWorlds, CP!SuccessFollows DEF IInv
  <2> QED
    BY <2>1 DEF ReportedSuccessIsEarned, SuccessIsFinal, CP!SuccessIsComplete, C!Mandatory, CP!Mandatory,
       C!Fields, CP!Fields
<1> QED
  BY <1>1, <1>2, SuccessKept, Inductive, LauncherTypes, PTL DEF Spec

(* The pod takes everything with it but a snapshot, its restore and a      *)
(* migration, and after a Teardown without an error at most the migration. *)
THEOREM PodTakesTheRestCorrect == Spec => []PodTakesTheRest
<1>1. IInv => PodTakesTheRest
  BY DEF IInv, Phases, TornDownIsClean, PodTakesOwned, PodTakesTheRest, Ours, PodOwned, C!Objects, C!Tracked
<1> QED
  BY <1>1, Inductive, PTL
===============================================================================
