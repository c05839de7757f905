---------------------------- MODULE CheckupProofs ----------------------------
(***************************************************************************)
(* Proofs of the safety properties of Checkup in every cluster and under   *)
(* every configuration, whenever the deadline passes and whatever CDI and  *)
(* KubeVirt do meanwhile.                                                  *)
(***************************************************************************)
EXTENDS Checkup, TLAPS

(* The steps up to the one that records the verdict of a check.            *)
ToDefaultSC  == {"versions", "defaultSC"}
ToPVC        == ToDefaultSC \cup {"createPVC", "waitPVC"}
ToCreateVM   == ToPVC \cup {"deletePVC", "profiles", "golden", "vmis", "boot"}
ToBoot       == ToCreateVM \cup {"waitBoot"}
ToHotplug    == ToBoot \cup {"clone", "hotplug", "plug", "waitPlug"}
ToMigration  == ToHotplug \cup {"unplug", "waitUnplug", "migration", "migrate", "waitMigration"}
ToSnapshot   == ToMigration \cup {"snapshot", "waitSnapshot", "getSnapshot"}
ToRestore    == ToSnapshot \cup {"restore", "waitStop", "createRestore", "waitRestore", "getRestore"}
ToConcurrent == ToRestore \cup {"concurrent", "waitConcurrent"}

(* The steps that only a Run with a VM under test takes.                   *)
VMSteps == {"waitBoot", "clone", "plug", "waitPlug", "unplug", "waitUnplug", "migrate",
            "waitMigration", "waitSnapshot", "getSnapshot", "waitStop", "createRestore",
            "waitRestore", "getRestore"}

(* Run goes on, or has got to its end.                                     *)
Going == ret \in {"none", "ok", "failed"}

Verdicts == {{"pass"}, {"fail"}, {"skip"}}

RetTells ==
    /\ ret = "none" <=> pc \in RunPCs
    /\ ret = "ok" => errStr = {}

(* Every failure on record is in errStr too.                               *)
FailuresAreNoted == \A f \in Fields : "fail" \in results[f] => f \in errStr

(* The checks that every Run makes.                                        *)
PlainChecks ==
    /\ pc = "versions" => results["versions"] = {}
    /\ Going /\ pc # "versions" => results["versions"] \in Verdicts
    /\ pc \in ToDefaultSC => results["defaultSC"] = {}
    /\ Going /\ pc \notin ToDefaultSC => results["defaultSC"] \in Verdicts
    /\ pc \in ToPVC => results["pvcBound"] = {}
    /\ Going /\ pc \notin ToPVC => results["pvcBound"] \in Verdicts
    /\ pc \in ToMigration => results["migration"] = {}
    /\ Going /\ pc \notin ToMigration => results["migration"] \in Verdicts
    /\ pc \in ToConcurrent => results["concurrent"] = {}
    /\ Going /\ pc \notin ToConcurrent => results["concurrent"] \in Verdicts

(* The checks of the VM under test; only they are skipped without it.      *)
VMChecked ==
    /\ pc \in ToCreateVM => ~under
    /\ pc \in VMSteps => under
    /\ pc \in ToBoot => results["boot"] = {}
    /\ Going /\ pc \notin ToBoot =>
          results["boot"] \in IF under THEN {{"pass"}, {"fail"}} ELSE {{"skip"}}
    /\ pc \in ToHotplug => results["hotplug"] = {}
    /\ pc \in {"unplug", "waitUnplug"} => results["hotplug"] \in {{"pass"}, {"fail"}}
    /\ Going /\ pc \notin ToHotplug \cup {"unplug", "waitUnplug"} =>
          results["hotplug"] \in
              IF under THEN {{"pass"}, {"fail"}, {"pass", "fail"}} ELSE {{"skip"}}

(* The restore is tried once the snapshot was validated, and only then.    *)
SnapshotChecked ==
    /\ pc \in ToSnapshot => results["snapshot"] = {} /\ ~snapshotOK
    /\ Going /\ pc \notin ToSnapshot =>
          /\ results["snapshot"] \in IF under THEN {{"pass"}, {"fail"}} ELSE {{"skip"}}
          /\ snapshotOK <=> results["snapshot"] = {"pass"}
    /\ pc \in {"waitStop", "createRestore", "waitRestore", "getRestore"} => snapshotOK
    /\ pc \in ToRestore => results["restore"] = {}
    /\ Going /\ pc \notin ToRestore =>
          results["restore"] \in IF snapshotOK THEN {{"pass"}, {"fail"}} ELSE {{"skip"}}

(* What is said in the results, the error and its texts.                   *)
Reports == RetTells /\ FailuresAreNoted /\ PlainChecks /\ VMChecked /\ SnapshotChecked

(* What Run creates for its VM, it creates once vmUnderTest is set, and an *)
(* instance runs for the VM that is there.                                 *)
Ownership ==
    /\ ~under => \A o \in Tracked \cup {"vmi"} : cluster[o] # "ours"
    /\ cluster["vm"] # "foreign"
    /\ cluster["vmi"] = "ours" => cluster["vm"] = "ours"

(* What a Teardown without an error has got rid of so far.                 *)
Gone ==
    ~tdFailed /\ under =>
        /\ pc \in TeardownPCs \cup {"tornDown"} /\ pc # "delRestore" => cluster["restore"] # "ours"
        /\ pc \in {"delVM", "delHotplugDV", "delHotplugPVC", "tornDown"} =>
              cluster["snapshot"] # "ours"
        /\ pc \in {"delHotplugDV", "delHotplugPVC", "tornDown"} => cluster["vm"] # "ours"
        /\ pc \in {"delHotplugPVC", "tornDown"} => cluster["hotplugDV"] # "ours"
        /\ pc = "tornDown" => cluster["hotplugPVC"] # "ours"

(* The snapshot stays as long as Run needs it, and a VM that was asked to  *)
(* stop has stopped before the restore.                                    *)
RestoreIsSafe ==
    /\ pc \in {"waitSnapshot", "getSnapshot"} \/ (snapshotOK /\ pc \in RunPCs)
          => cluster["snapshot"] = "ours"
    /\ pc \in {"waitStop", "createRestore"} => stopped
    /\ pc = "createRestore" => cluster["vmi"] = "absent"

(* Run goes on with a volume of its own only.                              *)
OwnVolume == pc \in {"waitPVC", "deletePVC"} => cluster["checkupDV"] # "foreign"

(* What holds of the objects in the cluster.                               *)
Objective == Ownership /\ Gone /\ RestoreIsSafe /\ OwnVolume

(* The inductive invariant.                                                *)
IInv == TypeOK /\ Reports /\ Objective
-----------------------------------------------------------------------------

(* The verdicts after the steps up to the VM under test.                   *)
LEMMA VolumeChecksReport ==
    ASSUME TypeOK, Reports, VolumeChecks
    PROVE  Reports'
<1> USE DEF TypeOK, Reports, RetTells, FailuresAreNoted, PlainChecks, VMChecked, SnapshotChecked,
            Going, Verdicts, RunPCs, ToDefaultSC, ToPVC, ToCreateVM, ToBoot, ToHotplug,
            ToMigration, ToSnapshot, ToRestore, ToConcurrent, VMSteps, Fields, Marks,
            OrAbort, Return, Goto, Say, Fail, Record, Frame, locVars, cluVars, repVars
<1>1. ASSUME NEW a \in Reads, CheckVersions(a) PROVE Reports'
  BY <1>1 DEF CheckVersions
<1>2. ASSUME NEW a \in Reads, CheckDefaultStorageClass(a) PROVE Reports'
  BY <1>2 DEF CheckDefaultStorageClass
<1>3. ASSUME NEW a \in Reads, CheckStorageProfiles(a) PROVE Reports'
  BY <1>3 DEF CheckStorageProfiles, Survey
<1>4. ASSUME NEW a \in Reads, CheckGoldenImages(a) PROVE Reports'
  BY <1>4 DEF CheckGoldenImages, Survey
<1>5. ASSUME NEW a \in Reads, CheckVMIs(a) PROVE Reports'
  BY <1>5 DEF CheckVMIs, Survey
<1>6. ASSUME NEW a \in Answers, CreatePVC(a) PROVE Reports'
  BY <1>6 DEF CreatePVC, Create
<1>7. ASSUME NEW a \in Answers, DeletePVC(a) PROVE Reports'
  BY <1>7 DEF DeletePVC, Delete
<1>8. CASE SkipPVC
  BY <1>8 DEF SkipPVC, Skip
<1>9. CASE GoldenImagePanics
  BY <1>9 DEF GoldenImagePanics
<1> QED
  BY <1>1, <1>2, <1>3, <1>4, <1>5, <1>6, <1>7, <1>8, <1>9 DEF VolumeChecks

(* The verdicts after the steps of the VM under test.                      *)
LEMMA VMChecksReport ==
    ASSUME TypeOK, Reports, VMChecks
    PROVE  Reports'
<1> USE DEF TypeOK, Reports, RetTells, FailuresAreNoted, PlainChecks, VMChecked, SnapshotChecked,
            Going, Verdicts, RunPCs, ToDefaultSC, ToPVC, ToCreateVM, ToBoot, ToHotplug,
            ToMigration, ToSnapshot, ToRestore, ToConcurrent, VMSteps, Fields, Marks,
            OrAbort, Return, Goto, Say, Fail, Record, Frame, locVars, cluVars, repVars
<1>1. CASE SkipBoot
  BY <1>1 DEF SkipBoot, Skip
<1>2. CASE ReportSnapshotClone
  BY <1>2 DEF ReportSnapshotClone
<1>3. CASE SkipWithoutVM("hotplug", "migration")
  BY <1>3 DEF SkipWithoutVM, Skip
<1>4. CASE SkipWithoutVM("migration", "snapshot")
  BY <1>4 DEF SkipWithoutVM, Skip
<1>5. ASSUME NEW a \in Reads, NEW b \in BOOLEAN, ReadCloneType(a, b) PROVE Reports'
  BY <1>5 DEF ReadCloneType
<1>6. ASSUME NEW a \in Reads, NEW r,
             MigrationSkipReason(a, r)
      PROVE  Reports'
  <2>1. CASE a = "ok" /\ r = "none"
    BY <1>6, <2>1 DEF MigrationSkipReason
  <2>2. CASE a = "ok" /\ r # "none"
    <3>1. pc = "migration" /\ Say("migration", "skip") /\ Goto("snapshot") /\ Frame
      BY <1>6, <2>2, Zenon DEF MigrationSkipReason
    <3> QED
      BY <3>1
  <2>3. CASE a # "ok"
    <3>1. UNCHANGED repVars /\ Return("aborted") /\ Frame
      BY <1>6, <2>3, Zenon DEF MigrationSkipReason
    <3> QED
      BY <3>1
  <2> QED
    BY <2>1, <2>2, <2>3
<1>7. ASSUME NEW a \in Answers, CreateVM(a) PROVE Reports'
  BY <1>7 DEF CreateVM, Create
<1>8. ASSUME NEW a \in Answers, CreateHotplugDV(a) PROVE Reports'
  BY <1>8 DEF CreateHotplugDV, Create
<1>9. ASSUME NEW a \in Answers, HotplugVolume(a) PROVE Reports'
  BY <1>9 DEF HotplugVolume, PatchVM
<1>10. ASSUME NEW a \in Answers, UnplugVolume(a) PROVE Reports'
  BY <1>10 DEF UnplugVolume, PatchVM
<1>11. ASSUME NEW a \in Answers, CreateMigration(a) PROVE Reports'
  BY <1>11 DEF CreateMigration, Create
<1> HIDE DEF TypeOK, Reports
<1> QED
  BY <1>1, <1>2, <1>3, <1>4, <1>5, <1>6, <1>7, <1>8, <1>9, <1>10, <1>11 DEF VMChecks

(* The verdicts after the steps of snapshot and restore.                   *)
LEMMA SnapshotChecksReport ==
    ASSUME TypeOK, Reports, SnapshotChecks
    PROVE  Reports'
<1> USE DEF TypeOK, Reports, RetTells, FailuresAreNoted, PlainChecks, VMChecked, SnapshotChecked,
            Going, Verdicts, RunPCs, ToDefaultSC, ToPVC, ToCreateVM, ToBoot, ToHotplug,
            ToMigration, ToSnapshot, ToRestore, ToConcurrent, VMSteps, Fields, Marks,
            OrAbort, Return, Goto, Say, Fail, Record, Frame, locVars, cluVars, repVars
<1>1. CASE SkipWithoutVM("snapshot", "restore")
  BY <1>1 DEF SkipWithoutVM, Skip
<1>2. CASE SkipWithoutVM("restore", "concurrent")
  BY <1>2 DEF SkipWithoutVM, Skip
<1>3. CASE SkipRestore
  BY <1>3 DEF SkipRestore, Skip
<1>4. ASSUME NEW a \in Answers, CreateSnapshot(a) PROVE Reports'
  BY <1>4 DEF CreateSnapshot, Create
<1>5. ASSUME NEW a \in Answers, StopVM(a) PROVE Reports'
  BY <1>5 DEF StopVM
<1>6. ASSUME NEW a \in Answers, CreateRestore(a) PROVE Reports'
  BY <1>6 DEF CreateRestore, Create
<1>7. ASSUME NEW a \in Reads, NEW b \in BOOLEAN, ValidateVMSnapshot(a, b) PROVE Reports'
  BY <1>7 DEF ValidateVMSnapshot
<1>8. ASSUME NEW a \in Reads, NEW b \in BOOLEAN, ValidateVMRestore(a, b) PROVE Reports'
  BY <1>8 DEF ValidateVMRestore
<1> QED
  BY <1>1, <1>2, <1>3, <1>4, <1>5, <1>6, <1>7, <1>8 DEF SnapshotChecks

(* The verdicts after the steps of the concurrent boot check.              *)
LEMMA ConcurrentChecksReport ==
    ASSUME TypeOK, Reports, ConcurrentChecks
    PROVE  Reports'
<1> USE DEF TypeOK, Reports, RetTells, FailuresAreNoted, PlainChecks, VMChecked, SnapshotChecked,
            Going, Verdicts, RunPCs, ToDefaultSC, ToPVC, ToCreateVM, ToBoot, ToHotplug,
            ToMigration, ToSnapshot, ToRestore, ToConcurrent, VMSteps, Fields, Marks,
            OrAbort, Return, Goto, Say, Fail, Record, Frame, locVars, cluVars, repVars
<1>1. CASE SkipConcurrent
  BY <1>1 DEF SkipConcurrent, Skip
<1>2. ASSUME NEW a \in Answers, CreateConcurrentVM(a) PROVE Reports'
  BY <1>2 DEF CreateConcurrentVM, Create
<1>3. ASSUME NEW a \in Answers, DeleteConcurrentVM(a) PROVE Reports'
  BY <1>3 DEF DeleteConcurrentVM, Delete
<1> QED
  BY <1>1, <1>2, <1>3 DEF ConcurrentChecks

(* The verdicts after the steps that only wait.                            *)
LEMMA PollsReport ==
    ASSUME TypeOK, Reports, Polls
    PROVE  Reports'
<1> USE DEF TypeOK, Reports, RetTells, FailuresAreNoted, PlainChecks, VMChecked, SnapshotChecked,
            Going, Verdicts, RunPCs, ToDefaultSC, ToPVC, ToCreateVM, ToBoot, ToHotplug,
            ToMigration, ToSnapshot, ToRestore, ToConcurrent, VMSteps, Fields, Marks,
            OrAbort, Return, Goto, Say, Fail, Record, Frame, locVars, cluVars, repVars
<1>1. CASE WaitForPVCBound
  BY <1>1 DEF WaitForPVCBound, Poll
<1>2. CASE WaitForVMIBoot
  BY <1>2 DEF WaitForVMIBoot, Poll
<1>3. CASE WaitForPlug
  BY <1>3 DEF WaitForPlug, Poll
<1>4. CASE WaitForUnplug
  BY <1>4 DEF WaitForUnplug, Poll
<1>5. CASE WaitForMigration
  BY <1>5 DEF WaitForMigration, Poll
<1>6. CASE WaitForVMSnapshotReady
  BY <1>6 DEF WaitForVMSnapshotReady
<1>7. CASE WaitForStop
  BY <1>7 DEF WaitForStop
<1>8. CASE WaitForVMRestoreComplete
  BY <1>8 DEF WaitForVMRestoreComplete
<1>9. CASE WaitForConcurrentBoot
  BY <1>9 DEF WaitForConcurrentBoot, Poll
<1> QED
  BY <1>1, <1>2, <1>3, <1>4, <1>5, <1>6, <1>7, <1>8, <1>9 DEF Polls

(* A check that leaves a verdict keeps the types of the report.            *)
LEMMA ReportTypes ==
    ASSUME TypeOK, NEW f \in Fields, NEW m \in Marks, Say(f, m) \/ Fail(f) \/ Record(f, m)
    PROVE  /\ results' \in [Fields -> SUBSET Marks]
           /\ Say(f, m) \/ Fail(f) => errStr' \in SUBSET Fields
<1>1. "fail" \in Marks
  BY DEF Marks
<1> QED
  BY <1>1 DEF TypeOK, Say, Fail, Record, Marks

(* The names of results and checks that an update may be about.            *)
LEMMA Names ==
    /\ "versions" \in Fields /\ "defaultSC" \in Fields /\ "pvcBound" \in Fields
    /\ "surveys" \in Fields /\ "boot" \in Fields /\ "clone" \in Fields /\ "hotplug" \in Fields
    /\ "migration" \in Fields /\ "snapshot" \in Fields /\ "restore" \in Fields
    /\ "concurrent" \in Fields
    /\ "pass" \in Marks /\ "fail" \in Marks /\ "skip" \in Marks /\ "smart" \in Marks
    /\ "hostAssisted" \in Marks
BY DEF Fields, Marks

(* The types after the steps up to the VM under test.                      *)
LEMMA VolumeChecksType ==
    ASSUME TypeOK, VolumeChecks
    PROVE  TypeOK'
<1> USE ReportTypes, Names DEF TypeOK, RunPCs, TeardownPCs, Objects, Tracked, OrAbort, Return, Goto,
            Frame, locVars, cluVars, repVars, Reads, Answers, Without, Owned
<1>1. ASSUME NEW a \in Reads, CheckVersions(a) PROVE TypeOK'
  BY <1>1 DEF CheckVersions
<1>2. ASSUME NEW a \in Reads, CheckDefaultStorageClass(a) PROVE TypeOK'
  BY <1>2 DEF CheckDefaultStorageClass
<1>3. ASSUME NEW a \in Reads, CheckStorageProfiles(a) PROVE TypeOK'
  BY <1>3 DEF CheckStorageProfiles, Survey
<1>4. ASSUME NEW a \in Reads, CheckGoldenImages(a) PROVE TypeOK'
  BY <1>4 DEF CheckGoldenImages, Survey
<1>5. ASSUME NEW a \in Reads, CheckVMIs(a) PROVE TypeOK'
  BY <1>5 DEF CheckVMIs, Survey
<1>6. ASSUME NEW a \in Answers, CreatePVC(a) PROVE TypeOK'
  BY <1>6 DEF CreatePVC, Create
<1>7. ASSUME NEW a \in Answers, DeletePVC(a) PROVE TypeOK'
  BY <1>7 DEF DeletePVC, Delete
<1>8. CASE SkipPVC
  BY <1>8 DEF SkipPVC, Skip
<1>9. CASE GoldenImagePanics
  BY <1>9 DEF GoldenImagePanics
<1> QED
  BY <1>1, <1>2, <1>3, <1>4, <1>5, <1>6, <1>7, <1>8, <1>9 DEF VolumeChecks

(* The types after the steps of the VM under test.                         *)
LEMMA VMChecksType ==
    ASSUME TypeOK, VMChecks
    PROVE  TypeOK'
<1> USE ReportTypes, Names DEF TypeOK, RunPCs, TeardownPCs, Objects, Tracked, OrAbort, Return, Goto,
            Frame, locVars, cluVars, repVars, Reads, Answers, Without, Owned
<1>1. CASE SkipBoot
  BY <1>1 DEF SkipBoot, Skip
<1>2. CASE ReportSnapshotClone
  BY <1>2 DEF ReportSnapshotClone
<1>3. CASE SkipWithoutVM("hotplug", "migration")
  BY <1>3 DEF SkipWithoutVM, Skip
<1>4. CASE SkipWithoutVM("migration", "snapshot")
  BY <1>4 DEF SkipWithoutVM, Skip
<1>5. ASSUME NEW a \in Reads, NEW b \in BOOLEAN, ReadCloneType(a, b) PROVE TypeOK'
  <2>1. UNCHANGED <<world, expired, cluVars, locVars>> /\ OrAbort(a, "hotplug")
    BY <1>5 DEF ReadCloneType
  <2>2. \/ UNCHANGED repVars
        \/ Say("clone", "smart")
        \/ Record("clone", "hostAssisted") /\ errStr' \in {errStr, errStr \cup {"clone"}}
    BY <1>5 DEF ReadCloneType
  <2>3. results' \in [Fields -> SUBSET Marks] /\ errStr' \in SUBSET Fields
    BY <2>2
  <2> QED
    BY <2>1, <2>3
<1>6. ASSUME NEW a \in Reads, NEW r,
             MigrationSkipReason(a, r)
      PROVE  TypeOK'
  <2>1. CASE a = "ok" /\ r = "none"
    BY <1>6, <2>1 DEF MigrationSkipReason
  <2>2. CASE a = "ok" /\ r # "none"
    <3>1. pc = "migration" /\ Say("migration", "skip") /\ Goto("snapshot") /\ Frame
      BY <1>6, <2>2, Zenon DEF MigrationSkipReason
    <3> QED
      BY <3>1
  <2>3. CASE a # "ok"
    <3>1. UNCHANGED repVars /\ Return("aborted") /\ Frame
      BY <1>6, <2>3, Zenon DEF MigrationSkipReason
    <3> QED
      BY <3>1
  <2> QED
    BY <2>1, <2>2, <2>3
<1>7. ASSUME NEW a \in Answers, CreateVM(a) PROVE TypeOK'
  BY <1>7 DEF CreateVM, Create
<1>8. ASSUME NEW a \in Answers, CreateHotplugDV(a) PROVE TypeOK'
  BY <1>8 DEF CreateHotplugDV, Create
<1>9. ASSUME NEW a \in Answers, HotplugVolume(a) PROVE TypeOK'
  BY <1>9 DEF HotplugVolume, PatchVM
<1>10. ASSUME NEW a \in Answers, UnplugVolume(a) PROVE TypeOK'
  BY <1>10 DEF UnplugVolume, PatchVM
<1>11. ASSUME NEW a \in Answers, CreateMigration(a) PROVE TypeOK'
  BY <1>11 DEF CreateMigration, Create
<1> QED
  BY <1>1, <1>2, <1>3, <1>4, <1>5, <1>6, <1>7, <1>8, <1>9, <1>10, <1>11 DEF VMChecks

(* The types after the steps of snapshot and restore.                      *)
LEMMA SnapshotChecksType ==
    ASSUME TypeOK, SnapshotChecks
    PROVE  TypeOK'
<1> USE ReportTypes, Names DEF TypeOK, RunPCs, TeardownPCs, Objects, Tracked, OrAbort, Return, Goto,
            Frame, locVars, cluVars, repVars, Reads, Answers, Without, Owned
<1>1. CASE SkipWithoutVM("snapshot", "restore")
  BY <1>1 DEF SkipWithoutVM, Skip
<1>2. CASE SkipWithoutVM("restore", "concurrent")
  BY <1>2 DEF SkipWithoutVM, Skip
<1>3. CASE SkipRestore
  BY <1>3 DEF SkipRestore, Skip
<1>4. ASSUME NEW a \in Answers, CreateSnapshot(a) PROVE TypeOK'
  BY <1>4 DEF CreateSnapshot, Create
<1>5. ASSUME NEW a \in Answers, StopVM(a) PROVE TypeOK'
  BY <1>5 DEF StopVM
<1>6. ASSUME NEW a \in Answers, CreateRestore(a) PROVE TypeOK'
  BY <1>6 DEF CreateRestore, Create
<1>7. ASSUME NEW a \in Reads, NEW b \in BOOLEAN, ValidateVMSnapshot(a, b) PROVE TypeOK'
  BY <1>7 DEF ValidateVMSnapshot
<1>8. ASSUME NEW a \in Reads, NEW b \in BOOLEAN, ValidateVMRestore(a, b) PROVE TypeOK'
  BY <1>8 DEF ValidateVMRestore
<1> QED
  BY <1>1, <1>2, <1>3, <1>4, <1>5, <1>6, <1>7, <1>8 DEF SnapshotChecks

(* The types after the steps of the concurrent boot check.                 *)
LEMMA ConcurrentChecksType ==
    ASSUME TypeOK, ConcurrentChecks
    PROVE  TypeOK'
<1> USE ReportTypes, Names DEF TypeOK, RunPCs, TeardownPCs, Objects, Tracked, OrAbort, Return, Goto,
            Frame, locVars, cluVars, repVars, Reads, Answers, Without, Owned
<1>1. CASE SkipConcurrent
  BY <1>1 DEF SkipConcurrent, Skip
<1>2. ASSUME NEW a \in Answers, CreateConcurrentVM(a) PROVE TypeOK'
  <2>1. results' \in [Fields -> SUBSET Marks] /\ errStr' \in SUBSET Fields
    BY <1>2 DEF CreateConcurrentVM
  <2> QED
    BY <1>2, <2>1 DEF CreateConcurrentVM, Create
<1>3. ASSUME NEW a \in Answers, DeleteConcurrentVM(a) PROVE TypeOK'
  BY <1>3 DEF DeleteConcurrentVM, Delete
<1> QED
  BY <1>1, <1>2, <1>3 DEF ConcurrentChecks

(* The types after the steps that only wait.                               *)
LEMMA PollsType ==
    ASSUME TypeOK, Polls
    PROVE  TypeOK'
<1> USE ReportTypes, Names DEF TypeOK, RunPCs, TeardownPCs, Objects, Tracked, OrAbort, Return, Goto,
            Frame, locVars, cluVars, repVars, Reads, Answers, Without, Owned
<1>1. CASE WaitForPVCBound
  BY <1>1 DEF WaitForPVCBound, Poll
<1>2. CASE WaitForVMIBoot
  BY <1>2 DEF WaitForVMIBoot, Poll
<1>3. CASE WaitForPlug
  BY <1>3 DEF WaitForPlug, Poll
<1>4. CASE WaitForUnplug
  BY <1>4 DEF WaitForUnplug, Poll
<1>5. CASE WaitForMigration
  BY <1>5 DEF WaitForMigration, Poll
<1>6. CASE WaitForVMSnapshotReady
  BY <1>6 DEF WaitForVMSnapshotReady
<1>7. CASE WaitForStop
  BY <1>7 DEF WaitForStop
<1>8. CASE WaitForVMRestoreComplete
  BY <1>8 DEF WaitForVMRestoreComplete
<1>9. CASE WaitForConcurrentBoot
  BY <1>9 DEF WaitForConcurrentBoot, Poll
<1> QED
  BY <1>1, <1>2, <1>3, <1>4, <1>5, <1>6, <1>7, <1>8, <1>9 DEF Polls

(* The objects after the steps up to the VM under test.                    *)
LEMMA VolumeChecksObjects ==
    ASSUME TypeOK, Reports, Objective, VolumeChecks
    PROVE  Objective'
<1> USE DEF Reports, TypeOK, Objective, Ownership, Gone, RestoreIsSafe, OwnVolume, VMChecked, SnapshotChecked,
            RunPCs, TeardownPCs, ToCreateVM, ToSnapshot, VMSteps, Objects, Tracked, OrAbort, Return,
            Goto, Frame, locVars, cluVars, Answers, Without, Owned
<1>1. ASSUME NEW a \in Reads, CheckVersions(a) PROVE Objective'
  BY <1>1 DEF CheckVersions
<1>2. ASSUME NEW a \in Reads, CheckDefaultStorageClass(a) PROVE Objective'
  BY <1>2 DEF CheckDefaultStorageClass
<1>3. ASSUME NEW a \in Reads, CheckStorageProfiles(a) PROVE Objective'
  BY <1>3 DEF CheckStorageProfiles, Survey
<1>4. ASSUME NEW a \in Reads, CheckGoldenImages(a) PROVE Objective'
  BY <1>4 DEF CheckGoldenImages, Survey
<1>5. ASSUME NEW a \in Reads, CheckVMIs(a) PROVE Objective'
  BY <1>5 DEF CheckVMIs, Survey
<1>6. ASSUME NEW a \in Answers, CreatePVC(a) PROVE Objective'
  BY <1>6 DEF CreatePVC, Create
<1>7. ASSUME NEW a \in Answers, DeletePVC(a) PROVE Objective'
  BY <1>7 DEF DeletePVC, Delete
<1>8. CASE SkipPVC
  BY <1>8 DEF SkipPVC, Skip
<1>9. CASE GoldenImagePanics
  BY <1>9 DEF GoldenImagePanics
<1> QED
  BY <1>1, <1>2, <1>3, <1>4, <1>5, <1>6, <1>7, <1>8, <1>9 DEF VolumeChecks

(* The objects after the steps of the VM under test.                       *)
LEMMA VMChecksObjects ==
    ASSUME TypeOK, Reports, Objective, VMChecks
    PROVE  Objective'
<1> USE DEF Reports, TypeOK, Objective, Ownership, Gone, RestoreIsSafe, OwnVolume, VMChecked, SnapshotChecked,
            RunPCs, TeardownPCs, ToCreateVM, ToSnapshot, VMSteps, Objects, Tracked, OrAbort, Return,
            Goto, Frame, locVars, cluVars, Answers, Without, Owned
<1>1. CASE SkipBoot
  BY <1>1 DEF SkipBoot, Skip
<1>2. CASE ReportSnapshotClone
  BY <1>2 DEF ReportSnapshotClone
<1>3. CASE SkipWithoutVM("hotplug", "migration")
  BY <1>3 DEF SkipWithoutVM, Skip
<1>4. CASE SkipWithoutVM("migration", "snapshot")
  BY <1>4 DEF SkipWithoutVM, Skip
<1>5. ASSUME NEW a \in Reads, NEW b \in BOOLEAN, ReadCloneType(a, b) PROVE Objective'
  BY <1>5 DEF ReadCloneType
<1>6. ASSUME NEW a \in Reads, NEW r,
             MigrationSkipReason(a, r)
      PROVE  Objective'
  <2>1. CASE a = "ok" /\ r = "none"
    BY <1>6, <2>1 DEF MigrationSkipReason
  <2>2. CASE a = "ok" /\ r # "none"
    <3>1. pc = "migration" /\ Say("migration", "skip") /\ Goto("snapshot") /\ Frame
      BY <1>6, <2>2, Zenon DEF MigrationSkipReason
    <3> QED
      BY <3>1
  <2>3. CASE a # "ok"
    <3>1. UNCHANGED repVars /\ Return("aborted") /\ Frame
      BY <1>6, <2>3, Zenon DEF MigrationSkipReason
    <3> QED
      BY <3>1
  <2> QED
    BY <2>1, <2>2, <2>3
<1>7. ASSUME NEW a \in Answers, CreateVM(a) PROVE Objective'
  BY <1>7 DEF CreateVM, Create
<1>8. ASSUME NEW a \in Answers, CreateHotplugDV(a) PROVE Objective'
  BY <1>8 DEF CreateHotplugDV, Create
<1>9. ASSUME NEW a \in Answers, HotplugVolume(a) PROVE Objective'
  BY <1>9 DEF HotplugVolume, PatchVM
<1>10. ASSUME NEW a \in Answers, UnplugVolume(a) PROVE Objective'
  BY <1>10 DEF UnplugVolume, PatchVM
<1>11. ASSUME NEW a \in Answers, CreateMigration(a) PROVE Objective'
  BY <1>11 DEF CreateMigration, Create
<1> QED
  BY <1>1, <1>2, <1>3, <1>4, <1>5, <1>6, <1>7, <1>8, <1>9, <1>10, <1>11 DEF VMChecks

(* The objects after the steps of snapshot and restore.                    *)
LEMMA SnapshotChecksObjects ==
    ASSUME TypeOK, Reports, Objective, SnapshotChecks
    PROVE  Objective'
<1> USE DEF Reports, TypeOK, Objective, Ownership, Gone, RestoreIsSafe, OwnVolume, VMChecked, SnapshotChecked,
            RunPCs, TeardownPCs, ToCreateVM, ToSnapshot, VMSteps, Objects, Tracked, OrAbort, Return,
            Goto, Frame, locVars, cluVars, Answers, Without, Owned
<1>1. CASE SkipWithoutVM("snapshot", "restore")
  BY <1>1 DEF SkipWithoutVM, Skip
<1>2. CASE SkipWithoutVM("restore", "concurrent")
  BY <1>2 DEF SkipWithoutVM, Skip
<1>3. CASE SkipRestore
  BY <1>3 DEF SkipRestore, Skip
<1>4. ASSUME NEW a \in Answers, CreateSnapshot(a) PROVE Objective'
  BY <1>4 DEF CreateSnapshot, Create
<1>5. ASSUME NEW a \in Answers, StopVM(a) PROVE Objective'
  BY <1>5 DEF StopVM
<1>6. ASSUME NEW a \in Answers, CreateRestore(a) PROVE Objective'
  BY <1>6 DEF CreateRestore, Create
<1>7. ASSUME NEW a \in Reads, NEW b \in BOOLEAN, ValidateVMSnapshot(a, b) PROVE Objective'
  BY <1>7 DEF ValidateVMSnapshot
<1>8. ASSUME NEW a \in Reads, NEW b \in BOOLEAN, ValidateVMRestore(a, b) PROVE Objective'
  BY <1>8 DEF ValidateVMRestore
<1> QED
  BY <1>1, <1>2, <1>3, <1>4, <1>5, <1>6, <1>7, <1>8 DEF SnapshotChecks

(* The objects after the steps of the concurrent boot check.               *)
LEMMA ConcurrentChecksObjects ==
    ASSUME TypeOK, Reports, Objective, ConcurrentChecks
    PROVE  Objective'
<1> USE DEF Reports, TypeOK, Objective, Ownership, Gone, RestoreIsSafe, OwnVolume, VMChecked, SnapshotChecked,
            RunPCs, TeardownPCs, ToCreateVM, ToSnapshot, VMSteps, Objects, Tracked, OrAbort, Return,
            Goto, Frame, locVars, cluVars, Answers, Without, Owned
<1>1. CASE SkipConcurrent
  BY <1>1 DEF SkipConcurrent, Skip
<1>2. ASSUME NEW a \in Answers, CreateConcurrentVM(a) PROVE Objective'
  BY <1>2 DEF CreateConcurrentVM, Create
<1>3. ASSUME NEW a \in Answers, DeleteConcurrentVM(a) PROVE Objective'
  BY <1>3 DEF DeleteConcurrentVM, Delete
<1> QED
  BY <1>1, <1>2, <1>3 DEF ConcurrentChecks

(* The objects after the steps that only wait.                             *)
LEMMA PollsObjects ==
    ASSUME TypeOK, Reports, Objective, Polls
    PROVE  Objective'
<1> USE DEF Reports, TypeOK, Objective, Ownership, Gone, RestoreIsSafe, OwnVolume, VMChecked, SnapshotChecked,
            RunPCs, TeardownPCs, ToCreateVM, ToSnapshot, VMSteps, Objects, Tracked, OrAbort, Return,
            Goto, Frame, locVars, cluVars, Answers, Without, Owned
<1>1. CASE WaitForPVCBound
  BY <1>1 DEF WaitForPVCBound, Poll
<1>2. CASE WaitForVMIBoot
  BY <1>2 DEF WaitForVMIBoot, Poll
<1>3. CASE WaitForPlug
  BY <1>3 DEF WaitForPlug, Poll
<1>4. CASE WaitForUnplug
  BY <1>4 DEF WaitForUnplug, Poll
<1>5. CASE WaitForMigration
  BY <1>5 DEF WaitForMigration, Poll
<1>6. CASE WaitForVMSnapshotReady
  BY <1>6 DEF WaitForVMSnapshotReady
<1>7. CASE WaitForStop
  BY <1>7 DEF WaitForStop
<1>8. CASE WaitForVMRestoreComplete
  BY <1>8 DEF WaitForVMRestoreComplete
<1>9. CASE WaitForConcurrentBoot
  BY <1>9 DEF WaitForConcurrentBoot, Poll
<1> QED
  BY <1>1, <1>2, <1>3, <1>4, <1>5, <1>6, <1>7, <1>8, <1>9 DEF Polls
-----------------------------------------------------------------------------
(* A step of Run records at most one verdict.                              *)
LEMMA RunRecords ==
    ASSUME Run
    PROVE  results' = results \/ \E f \in Fields, m \in Marks : Record(f, m)
<1> USE Names DEF Say, Fail, Frame, repVars
<1>1. CASE VolumeChecks
  BY <1>1 DEF VolumeChecks, CheckVersions, CheckDefaultStorageClass, CheckStorageProfiles,
     CheckGoldenImages, CheckVMIs, Survey, CreatePVC, DeletePVC, SkipPVC, Skip, GoldenImagePanics
<1>2. CASE VMChecks
  BY <1>2 DEF VMChecks, SkipBoot, ReportSnapshotClone, SkipWithoutVM, ReadCloneType, MigrationSkipReason,
     CreateVM, CreateHotplugDV, HotplugVolume, UnplugVolume, PatchVM, CreateMigration, Skip
<1>3. CASE SnapshotChecks
  BY <1>3 DEF SnapshotChecks, SkipWithoutVM, SkipRestore, CreateSnapshot, StopVM, CreateRestore,
     ValidateVMSnapshot, ValidateVMRestore, Skip
<1>4. CASE ConcurrentChecks
  BY <1>4 DEF ConcurrentChecks, SkipConcurrent, CreateConcurrentVM, DeleteConcurrentVM, Skip
<1>5. CASE Polls \/ Finish
  BY <1>5 DEF Polls, WaitForPVCBound, WaitForVMIBoot, WaitForPlug, WaitForUnplug, WaitForMigration,
     WaitForVMSnapshotReady, WaitForStop, WaitForVMRestoreComplete, WaitForConcurrentBoot, Poll, Finish
<1> QED
  BY <1>1, <1>2, <1>3, <1>4, <1>5 DEF Run, Requests

(* A step of Run stays in Run or returns from it.                          *)
LEMMA RunMoves == Run => pc \in RunPCs /\ pc' \in RunPCs \cup {"returned"}
<1> SUFFICES ASSUME Run PROVE pc \in RunPCs /\ pc' \in RunPCs \cup {"returned"}
  OBVIOUS
<1> USE DEF RunPCs, Goto, Return, OrAbort
<1>1. CASE VolumeChecks
  BY <1>1 DEF VolumeChecks, CheckVersions, CheckDefaultStorageClass, CheckStorageProfiles,
     CheckGoldenImages, CheckVMIs, Survey, CreatePVC, DeletePVC, SkipPVC, Skip, GoldenImagePanics
<1>2. CASE VMChecks
  BY <1>2 DEF VMChecks, SkipBoot, ReportSnapshotClone, SkipWithoutVM, ReadCloneType, MigrationSkipReason,
     CreateVM, CreateHotplugDV, HotplugVolume, UnplugVolume, PatchVM, CreateMigration, Skip
<1>3. CASE SnapshotChecks
  BY <1>3 DEF SnapshotChecks, SkipWithoutVM, SkipRestore, CreateSnapshot, StopVM, CreateRestore,
     ValidateVMSnapshot, ValidateVMRestore, Skip
<1>4. CASE ConcurrentChecks
  BY <1>4 DEF ConcurrentChecks, SkipConcurrent, CreateConcurrentVM, DeleteConcurrentVM, Skip
<1>5. CASE Polls \/ Finish
  BY <1>5 DEF Polls, WaitForPVCBound, WaitForVMIBoot, WaitForPlug, WaitForUnplug, WaitForMigration,
     WaitForVMSnapshotReady, WaitForStop, WaitForVMRestoreComplete, WaitForConcurrentBoot, Poll, Finish
<1> QED
  BY <1>1, <1>2, <1>3, <1>4, <1>5 DEF Run, Requests

(* Teardown does not touch what Run has returned and recorded.             *)
LEMMA TeardownMoves == Teardown => UNCHANGED <<ret, results>>
BY DEF Teardown, BeginTeardown, Deletions, TeardownDelete, repVars

(* The environment does not touch the checkup itself.                      *)
LEMMA EnvMoves == Env => UNCHANGED <<pc, ret, results, tdFailed>>
BY DEF Env, Deadline, Provision, Collect, StartVMI, EndVMI, CollectMigration, EnvFrame, checkVars, ctlVars,
   repVars, locVars

(* A step of Run.                                                          *)
LEMMA RunKeeps ==
    ASSUME IInv, Run
    PROVE  IInv'
<1>1. CASE Finish
  <2>1. TypeOK'
    BY <1>1 DEF IInv, TypeOK, Finish, Return, Frame, repVars, cluVars, locVars, RunPCs
  <2>2. Reports'
    BY <1>1 DEF IInv, TypeOK, Finish, Return, Frame, repVars, cluVars, locVars, Reports, RetTells,
       FailuresAreNoted, PlainChecks, VMChecked, SnapshotChecked, Going, RunPCs, ToDefaultSC, ToPVC,
       ToCreateVM, ToBoot, ToHotplug, ToMigration, ToSnapshot, ToRestore, ToConcurrent, VMSteps
  <2>3. Objective'
    BY <1>1 DEF IInv, Finish, Return, Frame, repVars, cluVars, locVars, Objective, Ownership, Gone,
       RestoreIsSafe, OwnVolume, RunPCs, TeardownPCs
  <2> QED
    BY <2>1, <2>2, <2>3 DEF IInv
<1>2. CASE Requests /\ ~Finish
  BY <1>2, VolumeChecksReport, VMChecksReport, SnapshotChecksReport, ConcurrentChecksReport,
     VolumeChecksType, VMChecksType, SnapshotChecksType, ConcurrentChecksType,
     VolumeChecksObjects, VMChecksObjects, SnapshotChecksObjects, ConcurrentChecksObjects
     DEF IInv, Requests
<1>3. CASE Polls
  BY <1>3, PollsReport, PollsType, PollsObjects DEF IInv
<1> QED
  BY <1>1, <1>2, <1>3 DEF Run

(* A step of Teardown: what it has deleted does not come back.             *)
LEMMA TeardownKeeps ==
    ASSUME IInv, Teardown
    PROVE  IInv'
<1>1. /\ pc \in {"returned"} \cup TeardownPCs /\ pc' \in TeardownPCs \cup {"tornDown"}
      /\ UNCHANGED <<world, expired, ret, repVars, stopped, under, snapshotOK>>
      /\ tdFailed' \in BOOLEAN /\ cluster' \in [Objects -> {"absent", "ours", "foreign"}]
  <2> USE DEF IInv, TypeOK, TeardownPCs, cluVars, locVars
  <2>1. CASE BeginTeardown
    BY <2>1 DEF BeginTeardown
  <2>2. CASE Deletions
    BY <2>2 DEF Deletions, TeardownDelete, Without
  <2> QED
    BY <2>1, <2>2 DEF Teardown
<1>2. TypeOK'
  BY <1>1 DEF IInv, TypeOK, repVars
<1>3. Reports'
  BY <1>1 DEF IInv, Reports, RetTells, FailuresAreNoted, PlainChecks, VMChecked, SnapshotChecked, Going,
     RunPCs, TeardownPCs, ToDefaultSC, ToPVC, ToCreateVM, ToBoot, ToHotplug, ToMigration, ToSnapshot,
     ToRestore, ToConcurrent, VMSteps, repVars
<1>4. Objective'
  <2> USE DEF IInv, TypeOK, Objective, Ownership, Gone, RestoreIsSafe, OwnVolume, RunPCs, TeardownPCs,
              Objects, Tracked, Without, Owned, cluVars, locVars
  <2>1. CASE BeginTeardown
    BY <2>1 DEF BeginTeardown
  <2>2. ASSUME NEW a \in Answers, TeardownDelete("delRestore", "restore", "delSnapshot", a)
        PROVE  Objective'
    BY <2>2 DEF TeardownDelete
  <2>3. ASSUME NEW a \in Answers, TeardownDelete("delSnapshot", "snapshot", "delVM", a)
        PROVE  Objective'
    BY <2>3 DEF TeardownDelete
  <2>4. ASSUME NEW a \in Answers, TeardownDelete("delVM", "vm", "delHotplugDV", a)
        PROVE  Objective'
    BY <2>4 DEF TeardownDelete
  <2>5. ASSUME NEW a \in Answers, TeardownDelete("delHotplugDV", "hotplugDV", "delHotplugPVC", a)
        PROVE  Objective'
    BY <2>5 DEF TeardownDelete
  <2>6. ASSUME NEW a \in Answers, TeardownDelete("delHotplugPVC", "hotplugPVC", "tornDown", a)
        PROVE  Objective'
    BY <2>6 DEF TeardownDelete
  <2> HIDE DEF Objective
  <2> QED
    BY <2>1, <2>2, <2>3, <2>4, <2>5, <2>6 DEF Teardown, Deletions
<1> QED
  BY <1>2, <1>3, <1>4 DEF IInv

(* The deadline, CDI and KubeVirt take nothing from the report, and create *)
(* nothing but the PVC of a DataVolume and the instance of a VM.           *)
LEMMA EnvKeeps ==
    ASSUME IInv, Env
    PROVE  IInv'
<1>1. UNCHANGED <<world, checkVars>> /\ expired' \in BOOLEAN
  BY DEF IInv, TypeOK, Env, Deadline, Provision, Collect, StartVMI, EndVMI, CollectMigration, EnvFrame
<1>2. Reports'
  BY <1>1 DEF IInv, Reports, RetTells, FailuresAreNoted, PlainChecks, VMChecked, SnapshotChecked, Going,
     checkVars, ctlVars, repVars, locVars
<1>3. cluster' \in [Objects -> {"absent", "ours", "foreign"}] /\ stopped' = stopped
  <2> USE DEF IInv, TypeOK
  <2>1. ASSUME NEW v \in Volumes, Provision(v[1], v[2]) \/ Collect(v[1], v[2])
        PROVE  cluster' \in [Objects -> {"absent", "ours", "foreign"}] /\ stopped' = stopped
    <3>1. v[1] \in Objects /\ v[2] \in Objects
      BY DEF Volumes, Objects, Tracked
    <3> QED
      BY <2>1, <3>1 DEF Provision, Collect
  <2>2. CASE StartVMI \/ EndVMI \/ CollectMigration
    BY <2>2 DEF StartVMI, EndVMI, CollectMigration
  <2>3. CASE Deadline
    BY <2>3 DEF Deadline, cluVars
  <2> QED
    BY <2>1, <2>2, <2>3 DEF Env
<1>4. TypeOK'
  BY <1>1, <1>3 DEF IInv, TypeOK, checkVars, ctlVars, repVars, locVars
<1>5. Objective'
  <2> USE DEF IInv, TypeOK, Objective, Ownership, Gone, RestoreIsSafe, OwnVolume, Objects, Tracked,
              checkVars, ctlVars, locVars
  <2>1. CASE Deadline
    BY <1>1, <2>1 DEF Deadline, cluVars
  <2>2. ASSUME NEW v \in Volumes, Provision(v[1], v[2]) PROVE Objective'
    BY <1>1, <1>3, <2>2 DEF Provision, Volumes, Exists
  <2>3. ASSUME NEW v \in Volumes, Collect(v[1], v[2]) PROVE Objective'
    BY <1>1, <1>3, <2>3 DEF Collect, Volumes, Exists
  <2>4. CASE StartVMI
    BY <1>1, <1>3, <2>4 DEF StartVMI
  <2>5. CASE EndVMI
    BY <1>1, <1>3, <2>5 DEF EndVMI
  <2>6. CASE CollectMigration
    BY <1>1, <1>3, <2>6 DEF CollectMigration
  <2> HIDE DEF Objective
  <2> QED
    BY <2>1, <2>2, <2>3, <2>4, <2>5, <2>6 DEF Env
<1> QED
  BY <1>2, <1>4, <1>5 DEF IInv

(* Nothing is said and nothing of this run exists at first.                *)
LEMMA InitIInv == Init => IInv
<1> SUFFICES ASSUME Init PROVE IInv
  OBVIOUS
<1>1. world.foreign \subseteq {"checkupDV", "hotplugDV", "vmim"}
  BY WorldsAssumption DEF Init, WorldsAssumption, WorldType
<1>2. TypeOK
  BY DEF Init, TypeOK, RunPCs
<1>3. Reports
  BY DEF Init, Reports, RetTells, FailuresAreNoted, PlainChecks, VMChecked, SnapshotChecked, Going, RunPCs,
     ToDefaultSC, ToPVC, ToCreateVM, ToBoot, ToHotplug, ToMigration, ToSnapshot, ToRestore, ToConcurrent,
     VMSteps, Fields
<1>4. Objective
  BY <1>1 DEF Init, Objective, Ownership, Gone, RestoreIsSafe, OwnVolume, Objects, Tracked, TeardownPCs
<1> QED
  BY <1>2, <1>3, <1>4 DEF IInv

(* Every step of Run, of Teardown and of the environment keeps it.         *)
LEMMA NextKeeps == IInv /\ [Next]_vars => IInv'
<1> SUFFICES ASSUME IInv, [Next]_vars PROVE IInv'
  OBVIOUS
<1>1. CASE UNCHANGED vars
  BY <1>1 DEF vars, ctlVars, repVars, cluVars, locVars, IInv, TypeOK, Reports, RetTells, FailuresAreNoted,
     PlainChecks, VMChecked, SnapshotChecked, Going, Objective, Ownership, Gone, RestoreIsSafe, OwnVolume
<1> QED
  BY <1>1, RunKeeps, TeardownKeeps, EnvKeeps DEF Next

(* The verdicts, the results behind them and the objects of the checkup    *)
(* fit together at every step, whatever fails and whenever.                *)
THEOREM Inductive == Spec => []IInv
BY InitIInv, NextKeeps, PTL DEF Spec

(* Every variable keeps its type.                                          *)
THEOREM TypeCorrect == Spec => []TypeOK
<1>1. IInv => TypeOK
  BY DEF IInv
<1> QED
  BY <1>1, Inductive, PTL

(* What the invariant says of a Run without an error.                      *)
LEMMA SuccessFollows == IInv => SuccessIsComplete
<1> SUFFICES ASSUME IInv, ret = "ok" PROVE SuccessIsComplete
  BY DEF SuccessIsComplete
<1> USE DEF IInv, TypeOK, Reports, RunPCs
<1>1. errStr = {} /\ pc \notin RunPCs
  BY DEF RetTells
<1>2. \A f \in Fields : "fail" \notin results[f]
  BY <1>1 DEF FailuresAreNoted
<1>3. /\ pc # "versions" /\ pc \notin ToDefaultSC /\ pc \notin ToPVC /\ pc \notin ToMigration
      /\ pc \notin ToConcurrent /\ pc \notin ToBoot /\ pc \notin ToHotplug \cup {"unplug", "waitUnplug"}
      /\ pc \notin ToSnapshot /\ pc \notin ToRestore
  BY <1>1 DEF ToDefaultSC, ToPVC, ToCreateVM, ToBoot, ToHotplug, ToMigration, ToSnapshot, ToRestore,
     ToConcurrent
<1>4. /\ results["versions"] # {} /\ results["defaultSC"] # {} /\ results["pvcBound"] # {}
      /\ results["migration"] # {} /\ results["concurrent"] # {}
  BY <1>3 DEF PlainChecks, Going, Verdicts
<1>5. IF under THEN \A f \in {"boot", "hotplug", "snapshot", "restore"} : results[f] = {"pass"}
               ELSE \A f \in {"boot", "hotplug", "snapshot", "restore"} : results[f] = {"skip"}
  BY <1>2, <1>3 DEF VMChecked, SnapshotChecked, Going, Fields
<1>6. \A f \in Mandatory : results[f] # {}
  BY <1>4, <1>5 DEF Mandatory, Fields
<1> QED
  BY <1>2, <1>5, <1>6 DEF SuccessIsComplete

(* A Run without an error has made every check, none of them failed, and a *)
(* VM that was created went through all its tests, in every cluster.       *)
THEOREM SuccessCorrect == Spec => []SuccessIsComplete
BY SuccessFollows, Inductive, PTL

(* Hotplug and snapshot are skipped with the VM and never without it, the  *)
(* restore exactly for want of a valid snapshot.                           *)
THEOREM SkipsCorrect == Spec => []SkipsAreJustified
<1>1. IInv => SkipsAreJustified
  <2> SUFFICES ASSUME IInv, ret \in {"ok", "failed"} PROVE SkipsAreJustified
    BY DEF SkipsAreJustified
  <2> USE DEF IInv, TypeOK, Reports, RunPCs
  <2>1. /\ pc \notin ToBoot /\ pc \notin ToHotplug \cup {"unplug", "waitUnplug"}
        /\ pc \notin ToSnapshot /\ pc \notin ToRestore
    BY DEF RetTells, ToDefaultSC, ToPVC, ToCreateVM, ToBoot, ToHotplug, ToMigration, ToSnapshot, ToRestore
  <2>2. /\ results["boot"] = {"skip"} <=> ~under
        /\ results["hotplug"] = {"skip"} <=> ~under
        /\ results["snapshot"] = {"skip"} <=> ~under
        /\ "pass" \in results["snapshot"] <=> snapshotOK
        /\ results["restore"] = {"skip"} <=> ~snapshotOK
    BY <2>1 DEF VMChecked, SnapshotChecked, Going
  <2> QED
    BY <2>2 DEF SkipsAreJustified
<1> QED
  BY <1>1, Inductive, PTL

(* A Teardown that returns no error has left no object that Run created    *)
(* for its VM, however Run ended.                                          *)
THEOREM TeardownCorrect == Spec => []TeardownCleans
<1>1. IInv => TeardownCleans
  BY DEF IInv, TypeOK, Objective, Ownership, Gone, TeardownCleans, TeardownPCs, Tracked
<1> QED
  BY <1>1, Inductive, PTL

(* Only the create of a restore brings one about.                          *)
LEMMA RestoreIsCreated ==
    ASSUME IInv, Next, cluster["restore"] = "absent", cluster'["restore"] # "absent"
    PROVE  \E a \in Answers : CreateRestore(a)
<1> USE DEF IInv, TypeOK, Objects, Tracked
<1>1. ASSUME cluster' = cluster PROVE FALSE
  BY <1>1
<1>2. ASSUME NEW o \in Objects \ {"restore"}, NEW a, Create(o, a) PROVE FALSE
  BY <1>2 DEF Create
<1>3. ASSUME NEW o \in Objects, NEW a, Delete(o, a) PROVE FALSE
  BY <1>3 DEF Delete, Without
<1>4. ~Env
  BY DEF Env, Deadline, Provision, Collect, StartVMI, EndVMI, CollectMigration, Volumes, cluVars
<1>5. ~Teardown
  BY DEF Teardown, BeginTeardown, Deletions, TeardownDelete, Without, cluVars
<1>6. ~Polls /\ ~Finish
  BY <1>1 DEF Polls, WaitForPVCBound, WaitForVMIBoot, WaitForPlug, WaitForUnplug, WaitForMigration,
     WaitForVMSnapshotReady, WaitForStop, WaitForVMRestoreComplete, WaitForConcurrentBoot, Poll, Frame,
     Finish, cluVars
<1>7. ~VolumeChecks
  BY <1>1, <1>2, <1>3 DEF VolumeChecks, CheckVersions, CheckDefaultStorageClass, CheckStorageProfiles,
     CheckGoldenImages, CheckVMIs, Survey, CreatePVC, DeletePVC, SkipPVC, Skip, GoldenImagePanics, Frame,
     cluVars
<1>8. ~VMChecks
  BY <1>1, <1>2 DEF VMChecks, SkipBoot, ReportSnapshotClone, SkipWithoutVM, ReadCloneType,
     MigrationSkipReason, CreateVM, CreateHotplugDV, HotplugVolume, UnplugVolume, PatchVM, CreateMigration,
     Skip, Frame, cluVars
<1>9. ~ConcurrentChecks
  BY <1>1, <1>2, <1>3 DEF ConcurrentChecks, SkipConcurrent, CreateConcurrentVM, DeleteConcurrentVM, Skip,
     Frame, cluVars
<1>10. SnapshotChecks
  BY <1>4, <1>5, <1>6, <1>7, <1>8, <1>9 DEF Next, Run, Requests
<1> QED
  BY <1>1, <1>2, <1>10 DEF SnapshotChecks, SkipWithoutVM, SkipRestore, CreateSnapshot, StopVM,
     ValidateVMSnapshot, ValidateVMRestore, Skip, Frame, cluVars

(* A restore is requested only from a validated snapshot that still        *)
(* exists, while the VM is stopped and cannot come back.                   *)
THEOREM RestoreCorrect == Spec => RestoresStoppedVMsOnly
<1>1. ASSUME IInv, [Next]_vars, cluster["restore"] = "absent", cluster'["restore"] # "absent"
      PROVE  /\ results["snapshot"] = {"pass"} /\ cluster["snapshot"] = "ours"
             /\ cluster["vmi"] = "absent" /\ stopped
  <2>1. Next
    BY <1>1 DEF vars, cluVars
  <2>2. pc = "createRestore"
    BY <1>1, <2>1, RestoreIsCreated DEF CreateRestore
  <2> QED
    BY <1>1, <2>2 DEF IInv, Reports, SnapshotChecked, Objective, RestoreIsSafe, Going, RetTells, RunPCs,
       ToDefaultSC, ToPVC, ToCreateVM, ToBoot, ToHotplug, ToMigration, ToSnapshot
<1> QED
  BY <1>1, Inductive, PTL DEF Spec, RestoresStoppedVMsOnly

(* Of what exists already only the hotplug volume is ever deleted by name. *)
LEMMA ForeignStays ==
    ASSUME IInv, Next, NEW o \in {"checkupDV", "vmim"}, cluster[o] = "foreign", ~world.gc
    PROVE  cluster'[o] = "foreign"
<1> USE DEF IInv, TypeOK, Objects, Tracked
<1>1. ASSUME cluster' = cluster PROVE cluster'[o] = "foreign"
  BY <1>1
<1>2. ASSUME NEW x \in Objects, NEW a, Create(x, a) PROVE cluster'[o] = "foreign"
  BY <1>2 DEF Create
<1>3. ASSUME NEW x \in Tracked \cup {"bootVM"}, cluster' \in {cluster, Without(x)}
      PROVE  cluster'[o] = "foreign"
  BY <1>3 DEF Without, Owned
<1>4. CASE Env
  BY <1>4 DEF Env, Deadline, Provision, Collect, StartVMI, EndVMI, CollectMigration, Volumes, cluVars
<1>5. CASE Teardown
  <2>1. cluster' = cluster \/ \E x \in Tracked : cluster' = Without(x)
    BY <1>5 DEF Teardown, BeginTeardown, Deletions, TeardownDelete, cluVars
  <2> QED
    BY <2>1, <1>3
<1>6. CASE Polls \/ Finish
  BY <1>1, <1>6 DEF Polls, WaitForPVCBound, WaitForVMIBoot, WaitForPlug, WaitForUnplug, WaitForMigration,
     WaitForVMSnapshotReady, WaitForStop, WaitForVMRestoreComplete, WaitForConcurrentBoot, Poll, Frame,
     Finish, cluVars
<1>7. CASE VolumeChecks
  <2>1. ASSUME NEW a \in Answers, DeletePVC(a) PROVE cluster'[o] = "foreign"
    BY <2>1 DEF DeletePVC, Delete, Without, Owned, Objective, OwnVolume
  <2> QED
    BY <1>1, <1>2, <1>7, <2>1 DEF VolumeChecks, CheckVersions, CheckDefaultStorageClass,
       CheckStorageProfiles, CheckGoldenImages, CheckVMIs, Survey, CreatePVC, SkipPVC, Skip,
       GoldenImagePanics, Frame, cluVars
<1>8. CASE VMChecks
  BY <1>1, <1>2, <1>8 DEF VMChecks, SkipBoot, ReportSnapshotClone, SkipWithoutVM, ReadCloneType,
     MigrationSkipReason, CreateVM, CreateHotplugDV, HotplugVolume, UnplugVolume, PatchVM, CreateMigration,
     Skip, Frame, cluVars
<1>9. CASE SnapshotChecks
  BY <1>1, <1>2, <1>9 DEF SnapshotChecks, SkipWithoutVM, SkipRestore, CreateSnapshot, StopVM, CreateRestore,
     ValidateVMSnapshot, ValidateVMRestore, Skip, Frame, cluVars
<1>10. CASE ConcurrentChecks
  BY <1>1, <1>2, <1>3, <1>10 DEF ConcurrentChecks, SkipConcurrent, CreateConcurrentVM, DeleteConcurrentVM,
     Delete, Skip, Frame, cluVars
<1> QED
  BY <1>4, <1>5, <1>6, <1>7, <1>8, <1>9, <1>10 DEF Next, Run, Requests

(* What another checkup created under the same names is left alone, but    *)
(* for the hotplug volume: Run deletes only a volume that it has created.  *)
THEOREM ForeignCorrect == Spec => ForeignSurvives
<1>1. ASSUME IInv, [Next]_vars
      PROVE  [\A o \in {"checkupDV", "vmim"} :
                cluster[o] = "foreign" /\ ~world.gc => cluster'[o] = "foreign"]_vars
  BY <1>1, ForeignStays
<1> QED
  BY <1>1, Inductive, PTL DEF Spec, ForeignSurvives
===============================================================================
