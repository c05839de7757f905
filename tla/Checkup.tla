------------------------------ MODULE Checkup -------------------------------
(***************************************************************************)
(* One checkup: Run and Teardown of src/pkg/internal/checkup/checkup.go,   *)
(* step by step against a cluster that moves on its own. A step is one     *)
(* request or one poll with the code around it; between any two steps the  *)
(* deadline of Run's context may pass and CDI and KubeVirt may act.        *)
(*                                                                         *)
(* Of a result field the model keeps what it says ("pass", "fail", "skip", *)
(* and for the clone type the kind of clone), of errStr the fields that    *)
(* contributed to it, of the cluster the objects this code creates.        *)
(***************************************************************************)
EXTENDS Naturals

CONSTANT Worlds     \* the clusters and configurations considered

VARIABLES
    world,      \* the one this run meets
    expired,    \* the deadline of Run's context has passed
    pc,         \* the next step of Run or of Teardown
    ret,        \* how Run returned
    results,    \* what was recorded in each field of status.Results
    errStr,     \* the fields whose failure was appended to errStr
    cluster,    \* the objects that exist, and whether this run created them
    stopped,    \* the VM under test was asked to stop
    under,      \* vmUnderTest is not nil
    snapshotOK, \* what checkVMSnapshot returned
    tdFailed    \* a deletion of Teardown returned an error

ctlVars  == <<pc, ret>>
repVars  == <<results, errStr>>
cluVars  == <<cluster, stopped>>
locVars  == <<under, snapshotOK, tdFailed>>
checkVars == <<ctlVars, repVars, locVars>>
vars == <<world, expired, ctlVars, repVars, cluVars, locVars>>

(* defaultSC: how many default storage classes the cluster has;            *)
(* configuredSC: spec.param.storageClass is set; golden: the kinds of      *)
(* golden image found; nilSC: the golden image PVC found has no            *)
(* storageClassName; smartClone: CDI clones a golden image PVC without     *)
(* copying through the host; gate: KubeVirt's Snapshot feature gate is on; *)
(* gc: CDI deletes completed DataVolumes; foreign: objects with this       *)
(* checkup's fixed names that exist already.                               *)
WorldType ==
    [defaultSC : {"none", "one", "many"}, configuredSC : BOOLEAN,
     golden : SUBSET {"pvc", "snapshot"}, nilSC : BOOLEAN, smartClone : BOOLEAN,
     gate : BOOLEAN, gc : BOOLEAN, foreign : SUBSET {"checkupDV", "hotplugDV", "vmim"}]

ASSUME WorldsAssumption == Worlds \subseteq WorldType

(* "surveys" stands for the fields of the checks that only read.           *)
Fields == {"versions", "defaultSC", "pvcBound", "surveys", "boot", "clone",
           "hotplug", "migration", "snapshot", "restore", "concurrent"}

(* The fields every complete run writes.                                   *)
Mandatory == Fields \ {"surveys", "clone"}

Marks == {"pass", "fail", "skip", "smart", "hostAssisted"}

(* What Teardown deletes, in its order, and what else the checkup creates; *)
(* "vmi" is the running instance of "vm" and "bootVM" stands for the VMs   *)
(* of the concurrent boot check.                                           *)
Tracked == {"restore", "snapshot", "vm", "hotplugDV", "hotplugPVC"}
Objects == Tracked \cup {"checkupDV", "checkupPVC", "vmi", "vmim", "bootVM"}

RunPCs == {"versions", "defaultSC", "createPVC", "waitPVC", "deletePVC", "profiles", "golden",
           "vmis", "boot", "waitBoot", "clone", "hotplug", "plug", "waitPlug", "unplug",
           "waitUnplug", "migration", "migrate", "waitMigration", "snapshot", "waitSnapshot",
           "getSnapshot", "restore", "waitStop", "createRestore", "waitRestore",
           "getRestore", "concurrent", "waitConcurrent", "deleteConcurrent", "finish"}

TeardownPCs == {"delRestore", "delSnapshot", "delVM", "delHotplugDV", "delHotplugPVC"}

TypeOK ==
    /\ world \in Worlds
    /\ expired \in BOOLEAN
    /\ pc \in RunPCs \cup {"returned", "tornDown"} \cup TeardownPCs
    /\ ret \in {"none", "ok", "failed", "aborted", "panic"}
    /\ results \in [Fields -> SUBSET Marks]
    /\ errStr \in SUBSET Fields
    /\ cluster \in [Objects -> {"absent", "ours", "foreign"}]
    /\ stopped \in BOOLEAN
    /\ under \in BOOLEAN
    /\ snapshotOK \in BOOLEAN
    /\ tdFailed \in BOOLEAN

Init ==
    /\ world \in Worlds
    /\ expired = FALSE
    /\ pc = "versions"
    /\ ret = "none"
    /\ results = [f \in Fields |-> {}]
    /\ errStr = {}
    /\ cluster = [o \in Objects |-> IF o \in world.foreign THEN "foreign" ELSE "absent"]
    /\ stopped = FALSE
    /\ under = FALSE
    /\ snapshotOK = FALSE
    /\ tdFailed = FALSE
-----------------------------------------------------------------------------
(* Requests and what they do.                                              *)

(* A request is carried out and acknowledged, refused (or finds nothing),  *)
(* or carried out without the client learning of it.                       *)
Answers == {"ok", "refused", "unacked"}
Reads   == {"ok", "refused"}

(* Under Run's context nothing is sent once the deadline has passed.       *)
InTime(a) == a # "refused" => ~expired

Goto(p)   == pc' = p /\ UNCHANGED ret
Return(r) == pc' = "returned" /\ ret' = r

(* An error of a request makes Run return it at once.                      *)
OrAbort(a, next) == IF a = "ok" THEN Goto(next) ELSE Return("aborted")

(* A create is refused when the name is in use (AlreadyExists).            *)
Create(o, a) ==
    /\ a # "refused" => cluster[o] = "absent"
    /\ cluster' = IF a = "refused" THEN cluster ELSE [cluster EXCEPT ![o] = "ours"]

(* Deleting a DataVolume or a VM takes what it owns with it, as long as it *)
(* is there itself.                                                        *)
Owned(o) ==
    CASE o = "checkupDV" -> {"checkupDV", "checkupPVC"}
      [] o = "hotplugDV" -> {"hotplugDV", "hotplugPVC"}
      [] o = "vm"        -> {"vm", "vmi"}
      [] OTHER           -> {o}

Without(o) ==
    [x \in Objects |-> IF cluster[o] # "absent" /\ x \in Owned(o) THEN "absent" ELSE cluster[x]]

Delete(o, a) ==
    /\ a # "refused" => cluster[o] # "absent"
    /\ cluster' = IF a = "refused" THEN cluster ELSE Without(o)

(* Bug: the name of the field is recorded, not the result.                 *)
BugRecord(f, m) == results' = [results EXCEPT ![f] = @ \cup {f}]

Record(f, m) == results' = [results EXCEPT ![f] = @ \cup {m}]

Say(f, m) == Record(f, m) /\ UNCHANGED errStr

(* Bug: the failure is recorded but not appended to errStr.                *)
BugFail(f) == Say(f, "fail")

Fail(f) == Record(f, "fail") /\ errStr' = errStr \cup {f}

Frame == UNCHANGED <<world, expired, cluVars, locVars>>

(* A check that is not applicable says so and Run goes on.                 *)
Skip(f, next) == Say(f, "skip") /\ Goto(next) /\ Frame

(* Bug: a poll goes on until its condition holds.                          *)
BugPoll(f, possible, next) == possible /\ Goto(next) /\ Say(f, "pass") /\ Frame

Exists(o) == cluster[o] # "absent"

(* PollImmediate: the condition was seen to hold, which needs the objects  *)
(* it looks at ("possible") and is otherwise up to CDI and KubeVirt; or    *)
(* the timeout, the deadline or an error of the condition ended the poll,  *)
(* a failure Run goes on with.                                             *)
Poll(f, possible, next) ==
    /\ Goto(next)
    /\ (possible /\ ~expired /\ Say(f, "pass")) \/ Fail(f)
    /\ Frame

NoStorageClass == world.defaultSC = "none" /\ ~world.configuredSC
NoGoldenImage  == world.golden = {}
-----------------------------------------------------------------------------
(* Run, up to the VM under test.                                           *)

CheckVersions(a) ==
    /\ pc = "versions"
    /\ InTime(a)
    /\ OrAbort(a, "defaultSC")
    /\ IF a = "ok" THEN Say("versions", "pass") ELSE UNCHANGED repVars
    /\ Frame

CheckDefaultStorageClass(a) ==
    /\ pc = "defaultSC"
    /\ InTime(a)
    /\ OrAbort(a, "createPVC")
    /\ IF a # "ok" THEN UNCHANGED repVars
       ELSE IF world.defaultSC = "one" THEN Say("defaultSC", "pass") ELSE Fail("defaultSC")
    /\ Frame

(* Bug: a name in use is taken for success.                                *)
BugCreatePVC(a) ==
    /\ pc = "createPVC"
    /\ ~NoStorageClass
    /\ InTime(a)
    /\ Create("checkupDV", a)
    /\ IF Exists("checkupDV") THEN Goto("waitPVC") ELSE OrAbort(a, "waitPVC")
    /\ UNCHANGED <<world, expired, repVars, stopped, locVars>>

CreatePVC(a) ==
    /\ pc = "createPVC"
    /\ ~NoStorageClass
    /\ InTime(a)
    /\ Create("checkupDV", a)
    /\ OrAbort(a, "waitPVC")
    /\ UNCHANGED <<world, expired, repVars, stopped, locVars>>

WaitForPVCBound == pc = "waitPVC" /\ Poll("pvcBound", Exists("checkupPVC"), "deletePVC")

(* Any error is returned, NotFound included.                               *)
DeletePVC(a) ==
    /\ pc = "deletePVC"
    /\ InTime(a)
    /\ Delete("checkupDV", a)
    /\ OrAbort(a, "profiles")
    /\ UNCHANGED <<world, expired, repVars, stopped, locVars>>

SkipPVC == pc = "createPVC" /\ NoStorageClass /\ Skip("pvcBound", "profiles")

(* The checks that only read. Each may find nothing to report, append to   *)
(* errStr, or be stopped by the error of one of its requests.              *)
Survey(step, next, a) ==
    /\ pc = step
    /\ InTime(a)
    /\ OrAbort(a, next)
    /\ UNCHANGED repVars \/ (a = "ok" /\ Fail("surveys"))
    /\ Frame

CheckStorageProfiles(a) == Survey("profiles", "golden", a)

CheckGoldenImages(a) ==
    /\ a = "ok" => ~("pvc" \in world.golden /\ world.nilSC)
    /\ Survey("golden", "vmis", a)

(* The selected golden image PVC is logged with *StorageClassName.         *)
GoldenImagePanics ==
    /\ pc = "golden"
    /\ ~expired
    /\ "pvc" \in world.golden /\ world.nilSC
    /\ Return("panic")
    /\ UNCHANGED repVars /\ Frame

CheckVMIs(a) == Survey("vmis", "boot", a)

-----------------------------------------------------------------------------
(* The VM under test.                                                      *)

SkipBoot ==
    /\ pc = "boot"
    /\ NoStorageClass \/ NoGoldenImage
    /\ Skip("boot", "hotplug")

(* Bug: vmUnderTest is set when the create has succeeded.                  *)
BugCreateVM(a) ==
    /\ pc = "boot"
    /\ ~NoStorageClass /\ ~NoGoldenImage
    /\ InTime(a)
    /\ Create("vm", a)
    /\ under' = (a = "ok")
    /\ OrAbort(a, "waitBoot")
    /\ UNCHANGED <<world, expired, repVars, stopped, snapshotOK, tdFailed>>

(* vmUnderTest is set before the VM is created.                            *)
CreateVM(a) ==
    /\ pc = "boot"
    /\ ~NoStorageClass /\ ~NoGoldenImage
    /\ InTime(a)
    /\ Create("vm", a)
    /\ under' = TRUE
    /\ OrAbort(a, "waitBoot")
    /\ UNCHANGED <<world, expired, repVars, stopped, snapshotOK, tdFailed>>

WaitForVMIBoot == pc = "waitBoot" /\ Poll("boot", Exists("vmi"), "clone")

(* With a golden image snapshot the clone type is taken for granted; else  *)
(* it is read from the PVC of the VM's disk, with the reason of a fallback.*)
ReportSnapshotClone ==
    /\ pc = "clone"
    /\ "snapshot" \in world.golden
    /\ Say("clone", "smart") /\ Goto("hotplug") /\ Frame

ReadCloneType(a, hasReason) ==
    /\ pc = "clone"
    /\ "snapshot" \notin world.golden
    /\ InTime(a)
    /\ OrAbort(a, "hotplug")
    /\ IF a # "ok" THEN UNCHANGED repVars
       ELSE IF world.smartClone THEN Say("clone", "smart")
       ELSE /\ Record("clone", "hostAssisted")
            /\ errStr' = IF hasReason THEN errStr \cup {"clone"} ELSE errStr
    /\ Frame

(* Bug: a VM that did not boot is treated like no VM.                      *)
BugSkipWithoutVM(step, next) == pc = step /\ "pass" \notin results["boot"] /\ Skip(step, next)

SkipWithoutVM(step, next) == pc = step /\ ~under /\ Skip(step, next)

CreateHotplugDV(a) ==
    /\ pc = "hotplug"
    /\ under
    /\ InTime(a)
    /\ Create("hotplugDV", a)
    /\ OrAbort(a, "plug")
    /\ UNCHANGED <<world, expired, repVars, stopped, locVars>>

(* Get and patch the VM.                                                   *)
PatchVM(step, next, a) ==
    /\ pc = step
    /\ InTime(a)
    /\ OrAbort(a, next)
    /\ UNCHANGED repVars /\ Frame

HotplugVolume(a) == PatchVM("plug", "waitPlug", a)
UnplugVolume(a)  == PatchVM("unplug", "waitUnplug", a)

WaitForPlug == pc = "waitPlug" /\ Poll("hotplug", Exists("vmi"), "unplug")

WaitForUnplug ==
    /\ pc = "waitUnplug"
    /\ Poll("hotplug", Exists("vmi"), "migration")

(* migrationSkipReason: a missing VMI is an error like any other.          *)
MigrationSkipReason(a, reason) ==
    /\ pc = "migration"
    /\ under
    /\ InTime(a)
    /\ a = "ok" => reason = "singleNode" \/ cluster["vmi"] = "ours"
    /\ OrAbort(a, IF reason = "none" THEN "migrate" ELSE "snapshot")
    /\ IF a = "ok" /\ reason # "none" THEN Say("migration", "skip") ELSE UNCHANGED repVars
    /\ Frame

(* The client sends this create without the context, so that it may be     *)
(* carried out after the deadline.                                         *)
CreateMigration(a) ==
    /\ pc = "migrate"
    /\ Create("vmim", a)
    /\ OrAbort(a, "waitMigration")
    /\ UNCHANGED <<world, expired, repVars, stopped, locVars>>

(* The poll reads the instance, not the migration.                         *)
WaitForMigration == pc = "waitMigration" /\ Poll("migration", Exists("vmi"), "snapshot")
-----------------------------------------------------------------------------
(* Snapshot and restore.                                                   *)

(* With the feature gate off the API server rejects the snapshot.          *)
CreateSnapshot(a) ==
    /\ pc = "snapshot"
    /\ under
    /\ InTime(a)
    /\ a # "refused" => world.gate
    /\ Create("snapshot", a)
    /\ OrAbort(a, "waitSnapshot")
    /\ UNCHANGED <<world, expired, repVars, stopped, locVars>>

(* Success is recorded only after the snapshot was validated.              *)
WaitForVMSnapshotReady ==
    /\ pc = "waitSnapshot"
    /\ \/ Exists("snapshot") /\ ~expired /\ Goto("getSnapshot") /\ UNCHANGED repVars
       \/ Fail("snapshot") /\ Goto("restore")
    /\ Frame

ValidateVMSnapshot(a, valid) ==
    /\ pc = "getSnapshot"
    /\ InTime(a)
    /\ OrAbort(a, "restore")
    /\ IF a # "ok" THEN UNCHANGED repVars
       ELSE IF valid THEN Say("snapshot", "pass") ELSE Fail("snapshot")
    /\ snapshotOK' = (a = "ok" /\ valid)
    /\ UNCHANGED <<world, expired, cluVars, under, tdFailed>>

SkipRestore == pc = "restore" /\ under /\ ~snapshotOK /\ Skip("restore", "concurrent")

StopVM(a) ==
    /\ pc = "restore"
    /\ under /\ snapshotOK
    /\ InTime(a)
    /\ stopped' = (a # "refused")
    /\ OrAbort(a, "waitStop")
    /\ UNCHANGED <<world, expired, repVars, cluster, locVars>>

(* Bug: a VMI that is still there when the wait times out is tolerated.    *)
BugWaitForStop ==
    /\ pc = "waitStop"
    /\ Goto("createRestore")
    /\ UNCHANGED repVars /\ Frame

(* The only wait whose failure ends Run.                                   *)
WaitForStop ==
    /\ pc = "waitStop"
    /\ (cluster["vmi"] = "absent" /\ ~expired /\ Goto("createRestore")) \/ Return("aborted")
    /\ UNCHANGED repVars /\ Frame

CreateRestore(a) ==
    /\ pc = "createRestore"
    /\ InTime(a)
    /\ Create("restore", a)
    /\ OrAbort(a, "waitRestore")
    /\ UNCHANGED <<world, expired, repVars, stopped, locVars>>

WaitForVMRestoreComplete ==
    /\ pc = "waitRestore"
    /\ \/ Exists("restore") /\ ~expired /\ Goto("getRestore") /\ UNCHANGED repVars
       \/ Fail("restore") /\ Goto("concurrent")
    /\ Frame

ValidateVMRestore(a, valid) ==
    /\ pc = "getRestore"
    /\ InTime(a)
    /\ OrAbort(a, "concurrent")
    /\ IF a # "ok" THEN UNCHANGED repVars
       ELSE IF valid THEN Say("restore", "pass") ELSE Fail("restore")
    /\ Frame

-----------------------------------------------------------------------------
(* The concurrent boot check, seen from one of its VMs (ConcurrentBoot.tla *)
(* has all of them): a failed create is a failed boot, and the error of a  *)
(* delete, sent with Run's context, is only logged.                        *)

SkipConcurrent ==
    /\ pc = "concurrent"
    /\ NoStorageClass \/ NoGoldenImage
    /\ Skip("concurrent", "finish")

CreateConcurrentVM(a) ==
    /\ pc = "concurrent"
    /\ ~NoStorageClass /\ ~NoGoldenImage
    /\ InTime(a)
    /\ Create("bootVM", a)
    /\ IF a = "ok"
       THEN Goto("waitConcurrent") /\ UNCHANGED repVars
       ELSE Goto("finish") /\ Fail("concurrent")
    /\ UNCHANGED <<world, expired, stopped, locVars>>

WaitForConcurrentBoot ==
    /\ pc = "waitConcurrent"
    /\ Poll("concurrent", Exists("bootVM"), "deleteConcurrent")

DeleteConcurrentVM(a) ==
    /\ pc = "deleteConcurrent"
    /\ InTime(a)
    /\ Delete("bootVM", a)
    /\ Goto("finish")
    /\ UNCHANGED <<world, expired, repVars, stopped, locVars>>

Finish ==
    /\ pc = "finish"
    /\ Return(IF errStr = {} THEN "ok" ELSE "failed")
    /\ UNCHANGED repVars /\ Frame

-----------------------------------------------------------------------------
(* Teardown, with a context of its own that has no deadline.               *)

BeginTeardown ==
    /\ pc = "returned"
    /\ pc' = IF under THEN "delRestore" ELSE "tornDown"
    /\ UNCHANGED <<world, expired, ret, repVars, cluVars, locVars>>

(* All deletions are attempted; the error of one does not stop the next,   *)
(* and NotFound is none.                                                   *)
TeardownDelete(step, o, next, a) ==
    /\ pc = step
    /\ pc' = next
    /\ cluster' = IF a = "refused" THEN cluster ELSE Without(o)
    /\ tdFailed' = (tdFailed \/ a # "ok")
    /\ UNCHANGED <<world, expired, ret, repVars, stopped, under, snapshotOK>>
-----------------------------------------------------------------------------
(* The environment: the deadline, CDI and KubeVirt.                        *)

EnvFrame == UNCHANGED <<world, expired, checkVars>>

Deadline ==
    /\ pc \in RunPCs
    /\ expired' = TRUE
    /\ UNCHANGED <<world, cluVars, checkVars>>

(* CDI creates the PVC of a DataVolume, and with gc on deletes the         *)
(* DataVolume once this PVC, its own, is there.                            *)
Provision(dv, pvc) ==
    /\ Exists(dv) /\ ~Exists(pvc)
    /\ cluster' = [cluster EXCEPT ![pvc] = cluster[dv]]
    /\ UNCHANGED stopped /\ EnvFrame

Collect(dv, pvc) ==
    /\ world.gc
    /\ Exists(dv) /\ cluster[pvc] = cluster[dv]
    /\ cluster' = [cluster EXCEPT ![dv] = "absent"]
    /\ UNCHANGED stopped /\ EnvFrame

(* The VM's instance runs until the VM is stopped, and may go away and     *)
(* come back meanwhile.                                                    *)
StartVMI ==
    /\ cluster["vm"] = "ours" /\ cluster["vmi"] = "absent"
    /\ ~stopped
    /\ cluster' = [cluster EXCEPT !["vmi"] = "ours"]
    /\ UNCHANGED stopped /\ EnvFrame

EndVMI ==
    /\ cluster["vmi"] = "ours"
    /\ cluster' = [cluster EXCEPT !["vmi"] = "absent"]
    /\ UNCHANGED stopped /\ EnvFrame

(* KubeVirt deletes the migration of an instance that is gone.             *)
CollectMigration ==
    /\ cluster["vmim"] = "ours" /\ cluster["vmi"] = "absent"
    /\ cluster' = [cluster EXCEPT !["vmim"] = "absent"]
    /\ UNCHANGED stopped /\ EnvFrame

Volumes == {<<"checkupDV", "checkupPVC">>, <<"hotplugDV", "hotplugPVC">>}

Env ==
    \/ Deadline
    \/ \E v \in Volumes : Provision(v[1], v[2]) \/ Collect(v[1], v[2])
    \/ StartVMI \/ EndVMI \/ CollectMigration

-----------------------------------------------------------------------------
(* The polls of Run, which need not end before the deadline: vmiTimeout    *)
(* may be longer than the deadline, or zero, which is no timeout.          *)
Polls ==
    \/ WaitForPVCBound \/ WaitForVMIBoot \/ WaitForPlug \/ WaitForUnplug
    \/ WaitForMigration \/ WaitForVMSnapshotReady \/ WaitForStop
    \/ WaitForVMRestoreComplete \/ WaitForConcurrentBoot

VolumeChecks ==
    \/ \E a \in Reads :
          \/ CheckVersions(a) \/ CheckDefaultStorageClass(a) \/ CheckStorageProfiles(a)
          \/ CheckGoldenImages(a) \/ CheckVMIs(a)
    \/ \E a \in Answers : CreatePVC(a) \/ DeletePVC(a)
    \/ SkipPVC \/ GoldenImagePanics

VMChecks ==
    \/ SkipBoot \/ ReportSnapshotClone
    \/ SkipWithoutVM("hotplug", "migration") \/ SkipWithoutVM("migration", "snapshot")
    \/ \E a \in Reads, b \in BOOLEAN : ReadCloneType(a, b)
    \/ \E a \in Reads, r \in {"none", "singleNode", "notMigratable"} : MigrationSkipReason(a, r)
    \/ \E a \in Answers :
          \/ CreateVM(a) \/ CreateHotplugDV(a) \/ HotplugVolume(a) \/ UnplugVolume(a)
          \/ CreateMigration(a)

SnapshotChecks ==
    \/ SkipWithoutVM("snapshot", "restore") \/ SkipWithoutVM("restore", "concurrent")
    \/ SkipRestore
    \/ \E a \in Answers : CreateSnapshot(a) \/ StopVM(a) \/ CreateRestore(a)
    \/ \E a \in Reads, valid \in BOOLEAN : ValidateVMSnapshot(a, valid) \/ ValidateVMRestore(a, valid)

ConcurrentChecks ==
    \/ SkipConcurrent
    \/ \E a \in Answers : CreateConcurrentVM(a) \/ DeleteConcurrentVM(a)

Requests == VolumeChecks \/ VMChecks \/ SnapshotChecks \/ ConcurrentChecks \/ Finish

Run == Requests \/ Polls

Deletions ==
    \E a \in Answers :
        \/ TeardownDelete("delRestore", "restore", "delSnapshot", a)
        \/ TeardownDelete("delSnapshot", "snapshot", "delVM", a)
        \/ TeardownDelete("delVM", "vm", "delHotplugDV", a)
        \/ TeardownDelete("delHotplugDV", "hotplugDV", "delHotplugPVC", a)
        \/ TeardownDelete("delHotplugPVC", "hotplugPVC", "tornDown", a)

Teardown == BeginTeardown \/ Deletions

Next == Run \/ Teardown \/ Env

Spec == Init /\ [][Next]_vars

-----------------------------------------------------------------------------
(* A Run without an error is complete: every mandatory check left a        *)
(* result, none failed, and a VM that was created went through hotplug,    *)
(* snapshot and restore successfully. No soft failure, recorded at any     *)
(* step and followed by any other, may get lost on the way to the verdict. *)
SuccessIsComplete ==
    ret = "ok" =>
        /\ \A f \in Mandatory : results[f] # {}
        /\ \A f \in Fields : "fail" \notin results[f]
        /\ "skip" \notin results["boot"] =>
              \A f \in {"boot", "hotplug", "snapshot", "restore"} : results[f] = {"pass"}

(* A Run that got to its end skipped hotplug and snapshot exactly when it  *)
(* skipped the VM, and the restore exactly when in addition there was no   *)
(* valid snapshot: a VM that failed to boot is still put to every test.    *)
SkipsAreJustified ==
    ret \in {"ok", "failed"} =>
        /\ \A f \in {"hotplug", "snapshot"} :
              results[f] = {"skip"} <=> results["boot"] = {"skip"}
        /\ results["restore"] = {"skip"} <=> "pass" \notin results["snapshot"]

(* A restore is requested only from a snapshot that was validated and      *)
(* still exists, and while the instance of the VM is stopped and cannot    *)
(* come back: restoring a running VM is what stopVMUnderTest is there to   *)
(* prevent.                                                                *)
RestoresStoppedVMsOnly ==
    [][cluster["restore"] = "absent" /\ cluster'["restore"] # "absent" =>
          /\ results["snapshot"] = {"pass"} /\ cluster["snapshot"] = "ours"
          /\ cluster["vmi"] = "absent" /\ stopped]_vars

(* When Teardown returns no error, nothing that Run created for its VM is  *)
(* left, however Run ended: after the deadline, in the middle of a check,  *)
(* or with a create that was carried out but not acknowledged.             *)
TeardownCleans ==
    pc = "tornDown" /\ ~tdFailed => \A o \in Tracked \cup {"vmi"} : cluster[o] # "ours"

(* What another checkup created under the same fixed names is left alone,  *)
(* but for the hotplug volume, which Teardown deletes by its name.         *)
ForeignSurvives ==
    [][\A o \in {"checkupDV", "vmim"} :
          cluster[o] = "foreign" /\ ~world.gc => cluster'[o] = "foreign"]_vars
=============================================================================
