----------------------------- MODULE VMUnderTest -----------------------------
(***************************************************************************)
(* The VM under test and its volumes: what src/pkg/internal/checkup/vmi.go *)
(* and vmi/spec.go define, and what the boot, clone type, hotplug,         *)
(* migration, snapshot and restore checks of checkup.go then do to it and  *)
(* conclude from its status. KubeVirt follows the VM on its own time,      *)
(* guests crash and are started again, nodes are drained, and a user may   *)
(* hotplug a volume of their own. A patch of the VM replaces whole lists   *)
(* and carries no resourceVersion. FollowsCheckup says how Checkup.tla     *)
(* sees all this.                                                          *)
(***************************************************************************)
EXTENDS Naturals

CONSTANTS
    Boot,           \* the volume that is cloned from the golden image
    Blanks,         \* the blank volumes, numOfDataVolumes of them
    Hotplug,        \* hotplug-volume
    Extra,          \* a volume of the user
    Classes,        \* storage classes
    None,           \* no class: the default one
    Inputs,         \* what the golden images and the configuration may be
    MaxEvents       \* bound on what users, guests, nodes and storage do

InputType ==
    {i \in [golden : (SUBSET {"pvc", "snapshot"}) \ {{}}, imageClass : Classes \cup {None},
            configured : Classes \cup {None}, smartClone : BOOLEAN] :
        i.imageClass # None => "pvc" \in i.golden}

ASSUME InputsAssumption == Inputs \subseteq InputType
ASSUME DistinctAssumption ==
    /\ Boot # Hotplug /\ Boot # Extra /\ Hotplug # Extra
    /\ Blanks \cap {Boot, Hotplug, Extra} = {}
    /\ None \notin Classes
ASSUME EventsAssumption == MaxEvents \in Nat

VARIABLES
    input,          \* the golden images that were found, storageClassName of the PVC among them,
                    \* spec.param.storageClass, and whether CDI clones the PVC without a copy
    dvClass,        \* the class each DataVolume asks for
    hotplugDV,      \* the DataVolume hotplug-volume exists
    vm,             \* the volumes in the VM's template; the disks go with them
    halted,         \* the VM was stopped
    running,        \* its instance exists
    attached, ready,\* the hotplugged volumes of the instance's status
    migration,      \* MigrationState of the instance's status
    vmim,           \* the migration that the checkup asked for
    snapshot,       \* the VirtualMachineSnapshot
    restore,        \* the VirtualMachineRestore
    pc,
    read,           \* the volumes of the VM as last read
    result,         \* what was said of each check
    events,
    (* history *)
    wanted,         \* the user wants the volume in the VM
    meddled,        \* the user has hotplugged it
    raced,          \* the user wrote the VM between a read and a patch
    plugged,        \* hotplug-volume was once ready in the instance
    migrated,       \* by whom the instance was migrated
    hot             \* the instance was running when the restore was requested

instanceVars == <<running, attached, ready, migration, vmim>>
storageVars  == <<snapshot, restore>>
clusterVars  == <<dvClass, hotplugDV, vm, halted, instanceVars, storageVars>>
histVars     == <<wanted, meddled, raced, plugged, migrated, hot>>
vars == <<input, clusterVars, pc, read, result, events, histVars>>

Own == {Boot} \cup Blanks
Volumes == Own \cup {Hotplug, Extra}
Checks == {"boot", "clone", "hotplug", "unplug", "migration", "snapshot", "restore"}
Said == {"none", "pass", "fail", "skip", "smart", "hostAssisted", "fallback"}
PCs == {"create", "waitBoot", "clone", "createDV", "getPlug", "patchPlug", "waitPlug", "getUnplug",
        "patchUnplug", "waitUnplug", "migration", "migrate", "waitMigration", "createSnapshot",
        "waitSnapshot", "validateSnapshot", "restore", "waitStop", "createRestore", "waitRestore",
        "validateRestore", "end", "aborted"}

SnapshotType ==
    [phase : {"absent", "InProgress", "Succeeded", "Failed"}, online : BOOLEAN,
     volumes : SUBSET Volumes]

TypeOK ==
    /\ input \in Inputs
    /\ dvClass \in [Volumes -> Classes \cup {None}]
    /\ hotplugDV \in BOOLEAN
    /\ vm \subseteq Volumes /\ halted \in BOOLEAN /\ running \in BOOLEAN
    /\ attached \subseteq {Hotplug, Extra} /\ ready \subseteq attached
    /\ migration \in [by : {"nobody", "checkup", "other"}, state : {"none", "running", "done", "failed"}]
    /\ vmim \in {"absent", "pending", "begun"}
    /\ snapshot \in SnapshotType
    /\ restore \in [phase : {"absent", "requested", "complete"}, volumes : SUBSET Volumes]
    /\ pc \in PCs
    /\ read \subseteq Volumes
    /\ result \in [Checks -> Said]
    /\ events \in 0..MaxEvents
    /\ \A flag \in {wanted, meddled, raced, plugged, hot} : flag \in BOOLEAN
    /\ migrated \subseteq {"checkup", "other"}

NoMigration == [by |-> "nobody", state |-> "none"]

Init ==
    /\ input \in Inputs
    /\ dvClass = [v \in Volumes |-> None]
    /\ hotplugDV = FALSE /\ vm = {} /\ halted = FALSE
    /\ running = FALSE /\ attached = {} /\ ready = {} /\ migration = NoMigration /\ vmim = "absent"
    /\ snapshot = [phase |-> "absent", online |-> FALSE, volumes |-> {}]
    /\ restore = [phase |-> "absent", volumes |-> {}]
    /\ pc = "create" /\ read = {} /\ result = [c \in Checks |-> "none"] /\ events = 0
    /\ wanted = FALSE /\ meddled = FALSE /\ raced = FALSE /\ plugged = FALSE
    /\ migrated = {} /\ hot = FALSE
-----------------------------------------------------------------------------
(* Requests: carried out and acknowledged, refused, or only carried out.   *)
Answers == {"ok", "refused", "unacked"}

Done(a) == a # "refused"

OrAbort(a, next) == pc' = IF a = "ok" THEN next ELSE "aborted"

Say(c, said) == result' = [result EXCEPT ![c] = said]

(* A poll passes when its condition holds and may fail whenever it does;   *)
(* Run goes on with the failure.                                           *)
Poll(c, holds, next, otherwise) ==
    \/ holds /\ Say(c, "pass") /\ pc' = next
    \/ Say(c, "fail") /\ pc' = otherwise
-----------------------------------------------------------------------------
(* newVMUnderTest.                                                         *)

(* The configured class; else the class of the golden image PVC, if that is*)
(* the source of the clone.                                                *)
BootClass ==
    IF input.configured # None THEN input.configured
    ELSE IF "pvc" \in input.golden THEN input.imageClass ELSE None

(* Bug: one blank volume too many.                                         *)
BugVolumesOfVM == Own \cup {None}

VolumesOfVM == Own

CreateVM(a) ==
    /\ pc = "create"
    /\ IF Done(a)
       THEN /\ vm' = VolumesOfVM
            /\ dvClass' = [v \in Volumes |-> IF v = Boot THEN BootClass
                                             ELSE IF v \in Blanks THEN input.configured ELSE None]
       ELSE UNCHANGED <<vm, dvClass>>
    /\ OrAbort(a, "waitBoot")
    /\ UNCHANGED <<input, hotplugDV, halted, instanceVars, storageVars, read, result, events, histVars>>

Unchanged == UNCHANGED <<input, clusterVars, read, events, histVars>>

(* The guest agent of the instance has connected.                          *)
WaitForBoot == pc = "waitBoot" /\ Poll("boot", running, "clone", "clone") /\ Unchanged

(* With a golden image snapshot the clone type is taken for granted; else  *)
(* it is read from the PVC of the boot volume, where CDI may give a reason *)
(* for a copy through the host: that one is a failure.                     *)
ReadCloneType(a, hasReason) ==
    /\ pc = "clone"
    /\ "snapshot" \in input.golden => a = "ok"
    /\ OrAbort(a, "createDV")
    /\ IF a # "ok" THEN UNCHANGED result
       ELSE IF "snapshot" \in input.golden \/ input.smartClone THEN Say("clone", "smart")
       ELSE Say("clone", IF hasReason THEN "fallback" ELSE "hostAssisted")
    /\ Unchanged
-----------------------------------------------------------------------------
(* The hotplug check.                                                      *)

(* The DataVolume is specified like that of the boot volume.               *)
CreateHotplugDV(a) ==
    /\ pc = "createDV"
    /\ dvClass' = IF Done(a) THEN [dvClass EXCEPT ![Hotplug] = BootClass] ELSE dvClass
    /\ hotplugDV' = (hotplugDV \/ Done(a))
    /\ OrAbort(a, "getPlug")
    /\ UNCHANGED <<input, vm, halted, instanceVars, storageVars, read, result, events, histVars>>

GetVM(step, next, a) ==
    /\ pc = step
    /\ read' = IF a = "ok" THEN vm ELSE read
    /\ OrAbort(a, next)
    /\ UNCHANGED <<input, clusterVars, result, events, histVars>>

(* The merge patch between what was read and what it is to be: nothing, or *)
(* the whole lists.                                                        *)
PatchVM(step, volumes, next, a) ==
    /\ pc = step
    /\ vm' = IF Done(a) /\ volumes # read THEN volumes ELSE vm
    /\ OrAbort(a, next)
    /\ UNCHANGED <<input, dvClass, hotplugDV, halted, instanceVars, storageVars, read, result, events,
                   histVars>>

HotplugVolume(a) == PatchVM("patchPlug", read \cup {Hotplug}, "waitPlug", a)

(* Bug: the list is that of the VM as it was created.                      *)
BugUnplugVolume(a) == PatchVM("patchUnplug", Own, "waitUnplug", a)

UnplugVolume(a) == PatchVM("patchUnplug", read \ {Hotplug}, "waitUnplug", a)

(* The first hotplugged volume of the status, whatever its name, is ready. *)
WaitForPlug ==
    pc = "waitPlug" /\ Poll("hotplug", running /\ ready # {}, "getUnplug", "getUnplug") /\ Unchanged

(* Bug: a volume that is no longer ready is taken for removed.             *)
BugWaitForUnplug ==
    pc = "waitUnplug" /\ Poll("unplug", running /\ ready = {}, "migration", "migration") /\ Unchanged

WaitForUnplug ==
    pc = "waitUnplug" /\ Poll("unplug", running /\ attached = {}, "migration", "migration") /\ Unchanged
-----------------------------------------------------------------------------
(* The migration check.                                                    *)

Reads == {"ok", "refused"}

(* A single node, or an instance that cannot be migrated; a missing one is *)
(* an error.                                                               *)
MigrationSkipReason(a, reason) ==
    /\ pc = "migration"
    /\ a = "ok" => reason = "singleNode" \/ running
    /\ OrAbort(a, IF reason = "none" THEN "migrate" ELSE "createSnapshot")
    /\ IF a = "ok" /\ reason # "none" THEN Say("migration", "skip") ELSE UNCHANGED result
    /\ Unchanged

(* Without an instance, or while another migration is under way, the check *)
(* ends Run.                                                               *)
CreateMigration(a) ==
    /\ pc = "migrate"
    /\ a # "refused" => running /\ migration.state # "running"
    /\ vmim' = IF Done(a) THEN "pending" ELSE vmim
    /\ OrAbort(a, "waitMigration")
    /\ UNCHANGED <<input, dvClass, hotplugDV, vm, halted, running, attached, ready, migration,
                   storageVars, read, result, events, histVars>>

(* MigrationState is looked at without asking whose migration it is.       *)
WaitForMigration ==
    /\ pc = "waitMigration"
    /\ Poll("migration", running /\ migration.state = "done", "createSnapshot", "createSnapshot")
    /\ Unchanged
-----------------------------------------------------------------------------
(* The snapshot and restore checks.                                        *)
CreateSnapshot(a) ==
    /\ pc = "createSnapshot"
    /\ snapshot' = IF Done(a) THEN [snapshot EXCEPT !.phase = "InProgress"] ELSE snapshot
    /\ OrAbort(a, "waitSnapshot")
    /\ UNCHANGED <<input, dvClass, hotplugDV, vm, halted, instanceVars, restore, read, result, events,
                   histVars>>

(* A snapshot is ready to use from its success on.                         *)
WaitForSnapshot ==
    /\ pc = "waitSnapshot"
    /\ \/ snapshot.phase = "Succeeded" /\ pc' = "validateSnapshot" /\ UNCHANGED result
       \/ Say("snapshot", "fail") /\ pc' = "restore"
    /\ Unchanged

(* The snapshot is read again; which volumes it includes is reported, not  *)
(* tested.                                                                 *)
ValidateSnapshot(a) ==
    /\ pc = "validateSnapshot"
    /\ OrAbort(a, "restore")
    /\ IF a # "ok" THEN UNCHANGED result
       ELSE Say("snapshot", IF snapshot.phase = "Succeeded" /\ snapshot.online THEN "pass" ELSE "fail")
    /\ Unchanged

SkipRestore ==
    /\ pc = "restore" /\ result["snapshot"] # "pass"
    /\ Say("restore", "skip") /\ pc' = "end"
    /\ Unchanged

StopVM(a) ==
    /\ pc = "restore" /\ result["snapshot"] = "pass"
    /\ halted' = (halted \/ Done(a))
    /\ OrAbort(a, "waitStop")
    /\ UNCHANGED <<input, dvClass, hotplugDV, vm, instanceVars, storageVars, read, result, events,
                   histVars>>

(* Here a poll that fails ends Run.                                        *)
WaitForStop ==
    /\ pc = "waitStop"
    /\ \/ ~running /\ pc' = "createRestore"
       \/ pc' = "aborted"
    /\ UNCHANGED result /\ Unchanged

CreateRestore(a) ==
    /\ pc = "createRestore"
    /\ restore' = IF Done(a) THEN [restore EXCEPT !.phase = "requested"] ELSE restore
    /\ hot' = (hot \/ (Done(a) /\ running))
    /\ OrAbort(a, "waitRestore")
    /\ UNCHANGED <<input, dvClass, hotplugDV, vm, halted, instanceVars, snapshot, read, result, events,
                   wanted, meddled, raced, plugged, migrated>>

WaitForRestore ==
    /\ pc = "waitRestore"
    /\ \/ restore.phase = "complete" /\ pc' = "validateRestore" /\ UNCHANGED result
       \/ Say("restore", "fail") /\ pc' = "end"
    /\ Unchanged

(* Every volume the VM was created with is among those restored.           *)
AllRestored == Own \subseteq restore.volumes

ValidateRestore(a) ==
    /\ pc = "validateRestore"
    /\ OrAbort(a, "end")
    /\ IF a # "ok" THEN UNCHANGED result
       ELSE Say("restore", IF AllRestored THEN "pass" ELSE "fail")
    /\ Unchanged
-----------------------------------------------------------------------------
(* KubeVirt.                                                               *)
Kubevirt(others) == UNCHANGED <<input, dvClass, hotplugDV, vm, halted, pc, read, result, others>>

StartVMI ==
    /\ vm # {} /\ ~halted /\ ~running
    /\ running' = TRUE
    /\ Kubevirt(<<attached, ready, migration, vmim, storageVars, events, histVars>>)

NoInstance ==
    /\ running /\ running' = FALSE
    /\ attached' = {} /\ ready' = {} /\ migration' = NoMigration

StopVMI == halted /\ NoInstance /\ Kubevirt(<<vmim, storageVars, events, histVars>>)

Attach(v) ==
    /\ running /\ v \in (vm \cap {Hotplug, Extra}) \ attached
    /\ attached' = attached \cup {v}
    /\ Kubevirt(<<running, ready, migration, vmim, storageVars, events, histVars>>)

MakeReady(v) ==
    /\ v \in attached \ ready
    /\ ready' = ready \cup {v}
    /\ plugged' = (plugged \/ v = Hotplug)
    /\ Kubevirt(<<running, attached, migration, vmim, storageVars, events, wanted, meddled, raced,
                  migrated, hot>>)

BeginDetach(v) ==
    /\ v \in ready \ vm
    /\ ready' = ready \ {v}
    /\ Kubevirt(<<running, attached, migration, vmim, storageVars, events, histVars>>)

Detach(v) ==
    /\ v \in attached \ (vm \cup ready)
    /\ attached' = attached \ {v}
    /\ Kubevirt(<<running, ready, migration, vmim, storageVars, events, histVars>>)

BeginMigration ==
    /\ vmim = "pending" /\ running /\ migration.state # "running"
    /\ vmim' = "begun"
    /\ migration' = [by |-> "checkup", state |-> "running"]
    /\ Kubevirt(<<running, attached, ready, storageVars, events, histVars>>)

EndMigration(how) ==
    /\ migration.state = "running"
    /\ migration' = [migration EXCEPT !.state = how]
    /\ migrated' = IF how = "done" THEN migrated \cup {migration.by} ELSE migrated
    /\ Kubevirt(<<running, attached, ready, vmim, storageVars, events, wanted, meddled, raced,
                  plugged, hot>>)

(* The volumes of the VM, those still attached to the instance included, as*)
(* far as their classes can be snapshotted.                                *)
TakeSnapshot(without) ==
    /\ snapshot.phase = "InProgress"
    /\ \/ snapshot' = [phase |-> "Succeeded", online |-> running, volumes |-> (vm \cup attached) \ without]
       \/ snapshot' = [snapshot EXCEPT !.phase = "Failed"]
    /\ Kubevirt(<<instanceVars, restore, events, histVars>>)

CompleteRestore ==
    /\ restore.phase = "requested" /\ ~running
    /\ restore' = [phase |-> "complete", volumes |-> snapshot.volumes]
    /\ Kubevirt(<<instanceVars, snapshot, events, histVars>>)
-----------------------------------------------------------------------------
(* What may happen, and does so only so often.                             *)
Event == events < MaxEvents /\ events' = events + 1

Crash == Event /\ NoInstance /\ Kubevirt(<<vmim, storageVars, histVars>>)

Evacuate ==
    /\ Event
    /\ running /\ migration.state # "running"
    /\ migration' = [by |-> "other", state |-> "running"]
    /\ Kubevirt(<<running, attached, ready, vmim, storageVars, histVars>>)

LoseSnapshot ==
    /\ Event
    /\ snapshot.phase = "Succeeded"
    /\ snapshot' = [snapshot EXCEPT !.phase = "Failed"]
    /\ Kubevirt(<<instanceVars, restore, histVars>>)

UserEdits(wants) ==
    /\ Event
    /\ vm # {}
    /\ wanted' = wants
    /\ vm' = IF wants THEN vm \cup {Extra} ELSE vm \ {Extra}
    /\ meddled' = TRUE
    /\ raced' = (raced \/ pc \in {"patchPlug", "patchUnplug"})
    /\ UNCHANGED <<input, dvClass, hotplugDV, halted, instanceVars, storageVars, pc, read, result,
                   plugged, migrated, hot>>

Environment ==
    \/ StartVMI \/ StopVMI \/ BeginMigration \/ CompleteRestore
    \/ \E v \in {Hotplug, Extra} : Attach(v) \/ MakeReady(v) \/ BeginDetach(v) \/ Detach(v)
    \/ \E how \in {"done", "failed"} : EndMigration(how)
    \/ \E without \in SUBSET Own : TakeSnapshot(without)
    \/ Crash \/ Evacuate \/ LoseSnapshot \/ \E wants \in BOOLEAN : UserEdits(wants)

BootCheck ==
    \/ \E a \in Answers : CreateVM(a)
    \/ \E a \in Reads, hasReason \in BOOLEAN : ReadCloneType(a, hasReason)
    \/ WaitForBoot

HotplugCheck ==
    \/ \E a \in Answers : CreateHotplugDV(a) \/ HotplugVolume(a) \/ UnplugVolume(a)
    \/ \E a \in Reads : GetVM("getPlug", "patchPlug", a) \/ GetVM("getUnplug", "patchUnplug", a)
    \/ WaitForPlug \/ WaitForUnplug

LaterChecks ==
    \/ \E a \in Answers : CreateMigration(a) \/ CreateSnapshot(a) \/ StopVM(a) \/ CreateRestore(a)
    \/ \E a \in Reads : ValidateSnapshot(a) \/ ValidateRestore(a)
    \/ \E a \in Reads, reason \in {"none", "singleNode", "notMigratable"} :
          MigrationSkipReason(a, reason)
    \/ WaitForMigration \/ WaitForSnapshot \/ SkipRestore \/ WaitForStop \/ WaitForRestore

Next == BootCheck \/ HotplugCheck \/ LaterChecks \/ Environment

Spec == Init /\ [][Next]_vars
-----------------------------------------------------------------------------
(* The same run as Checkup.tla has it, from the creation of the VM to the  *)
(* end of the restore check: without a deadline, and in a cluster where all*)
(* went well so far. Of the polls Checkup only knows what they need, of the*)
(* cluster whether an object exists.                                       *)

WorldOf(i) ==
    [defaultSC |-> "one", configuredSC |-> i.configured # None, golden |-> i.golden,
     nilSC |-> FALSE, smartClone |-> i.smartClone, gate |-> TRUE, gc |-> FALSE, foreign |-> {}]

StepNames ==
    [create |-> "boot", createDV |-> "hotplug", getPlug |-> "plug", patchPlug |-> "plug",
     getUnplug |-> "unplug", patchUnplug |-> "unplug", createSnapshot |-> "snapshot",
     validateSnapshot |-> "getSnapshot", validateRestore |-> "getRestore", end |-> "concurrent",
     aborted |-> "returned"]

StepOf(p) == IF p \in DOMAIN StepNames THEN StepNames[p] ELSE p

(* What a check says is recorded; unplug shares the field of hotplug.      *)
Recorded(c) ==
    IF result[c] = "none" THEN {}
    ELSE IF result[c] = "fallback" THEN {"hostAssisted"}
    ELSE {result[c]}

FieldNames ==
    {"versions", "defaultSC", "pvcBound", "surveys", "boot", "clone",
     "hotplug", "migration", "snapshot", "restore", "concurrent"}

RecordedIn ==
    [f \in FieldNames |->
        CASE f \in {"versions", "defaultSC", "pvcBound"} -> {"pass"}
          [] f \in {"surveys", "concurrent"} -> {}
          [] f = "hotplug" -> Recorded("hotplug") \cup Recorded("unplug")
          [] OTHER -> Recorded(f)]

Failed(c) == result[c] \in {"fail", "fallback"}

FailedFields ==
    {f \in {"boot", "clone", "hotplug", "migration", "snapshot", "restore"} :
        Failed(f) \/ (f = "hotplug" /\ Failed("unplug"))}

ObjectNames ==
    {"restore", "snapshot", "vm", "hotplugDV", "hotplugPVC", "checkupDV", "checkupPVC", "vmi",
     "vmim", "bootVM"}

Present(o) ==
    CASE o = "vm" -> vm # {}
      [] o = "vmi" -> running
      [] o = "hotplugDV" -> hotplugDV
      [] o = "vmim" -> vmim # "absent"
      [] o = "snapshot" -> snapshot.phase # "absent"
      [] o = "restore" -> restore.phase # "absent"
      [] OTHER -> FALSE

ClusterSeen == [o \in ObjectNames |-> IF Present(o) THEN "ours" ELSE "absent"]

C == INSTANCE Checkup WITH
    Worlds     <- {WorldOf(i) : i \in Inputs},
    world      <- WorldOf(input),
    expired    <- FALSE,
    pc         <- StepOf(pc),
    ret        <- IF pc = "aborted" THEN "aborted" ELSE "none",
    results    <- RecordedIn,
    errStr     <- FailedFields,
    cluster    <- ClusterSeen,
    stopped    <- halted,
    under      <- pc # "create",
    snapshotOK <- result["snapshot"] = "pass",
    tdFailed   <- FALSE

(* Every step of the checks and of the cluster is one that Checkup allows  *)
(* in the same place, with the same answer to the request, and records and *)
(* leaves behind the same; or one that Checkup does not see.               *)
FollowsCheckup == [][C!Next]_(C!vars)
-----------------------------------------------------------------------------
(* A configured storage class is that of every DataVolume of the VM and of *)
(* the hotplugged one; without it only a clone of a PVC names a class.     *)
ClassIsConfigured ==
    \A v \in vm \cap (Own \cup {Hotplug}) :
        /\ input.configured # None => dvClass[v] = input.configured
        /\ input.configured = None /\ dvClass[v] # None =>
               v \in {Boot, Hotplug} /\ "pvc" \in input.golden /\ dvClass[v] = input.imageClass

(* Two patches of whole lists, either of which may be carried out without  *)
(* an acknowledgement, never cost the VM a volume it was created with, and *)
(* undo what somebody else did to the VM only if that happened between a   *)
(* read and the patch that follows it; and the volumes are of the class    *)
(* that was asked for.                                                     *)
VolumesAreKept ==
    /\ vm # {} => Own \subseteq vm
    /\ vm # {} /\ ~raced => (Extra \in vm <=> wanted)
    /\ ClassIsConfigured

(* What is reported as passed did take place:                              *)
(* - hotplug-volume was ready in an instance of the VM, though the status  *)
(*   is not searched by name; with a second hotplugged volume in the VM it *)
(*   may be that one;                                                      *)
(* - once removed it is gone for good, neither in the VM, nor in an        *)
(*   instance, started again or not, nor in the snapshot, although it may  *)
(*   have been on its way into the instance when it was unplugged;         *)
(* - a migration was completed, that of the checkup or, since the status   *)
(*   is not asked whose it shows, that of a drained node;                  *)
(* - a restore was requested without a running instance and from a         *)
(*   snapshot, taken of a running one, with every volume of the VM,        *)
(*   although the check of the snapshot accepts one that excludes some.    *)
PassesAreEarned ==
    /\ result["hotplug"] = "pass" => plugged \/ meddled
    /\ result["unplug"] = "pass" => Hotplug \notin vm \cup attached \cup snapshot.volumes
    /\ result["migration"] = "pass" => migrated # {}
    /\ result["restore"] = "pass" =>
           ~hot /\ result["snapshot"] = "pass" /\ snapshot.online /\ Own \subseteq snapshot.volumes
=============================================================================
