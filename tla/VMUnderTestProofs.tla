--------------------------- MODULE VMUnderTestProofs ---------------------------
(***************************************************************************)
(* Proofs about VMUnderTest for every number of blank volumes, all storage *)
(* classes, every golden image and configuration, and any number of events.*)
(***************************************************************************)
EXTENDS VMUnderTest, TLAPS

(* The requests and polls in their order: up to the removal of the hotplug *)
(* volume, up to the creation of the snapshot, up to its validation; and   *)
(* those from the stop of the VM to the validation of the restore.         *)
UpToUnplug ==
    {"create", "waitBoot", "clone", "createDV", "getPlug", "patchPlug", "waitPlug", "getUnplug",
     "patchUnplug", "waitUnplug"}
UpToSnapshot == UpToUnplug \cup {"migration", "migrate", "waitMigration", "createSnapshot"}
UpToValidation == UpToSnapshot \cup {"waitSnapshot", "validateSnapshot"}
Restoring == {"waitStop", "createRestore", "waitRestore", "validateRestore"}

(* A DataVolume of the checkup is of the class that was asked for.         *)
Conforms(v) ==
    /\ input.configured # None => dvClass[v] = input.configured
    /\ input.configured = None /\ dvClass[v] # None =>
           v \in {Boot, Hotplug} /\ "pvc" \in input.golden /\ dvClass[v] = input.imageClass

(* The VM has the volumes it was created with from then on, and so has the *)
(* list that a patch starts from; which has the user's volume if the VM is *)
(* to have it, unless the user was faster than the patch.                  *)
Patching ==
    /\ pc = "create" => vm = {}
    /\ pc \notin {"create", "aborted"} => Own \subseteq vm
    /\ vm # {} => Own \subseteq vm
    /\ vm = {} => ~wanted
    /\ vm # {} /\ ~raced => (Extra \in vm <=> wanted)
    /\ pc \in {"patchPlug", "patchUnplug"} =>
           Own \subseteq read /\ (~raced => (Extra \in read <=> wanted))

(* hotplug-volume is put into the VM only after its DataVolume was created.*)
Classed ==
    /\ vm # {} => \A v \in Own : Conforms(v)
    /\ pc \notin {"create", "waitBoot", "clone", "createDV", "aborted"} \/ Hotplug \in vm =>
           Conforms(Hotplug)
    /\ pc \in {"create", "waitBoot", "clone", "createDV"} => Hotplug \notin vm

(* What the status of the instance shows has happened.                     *)
Witnessed ==
    /\ Hotplug \in ready => plugged
    /\ Extra \in vm \cup attached \cup read => meddled
    /\ migration.state = "running" => migration.by # "nobody"
    /\ migration.state = "done" => migration.by \in migrated

(* From the patch that removes it on, nothing adds hotplug-volume again.   *)
Unplugged ==
    /\ pc \in UpToUnplug => result["unplug"] = "none"
    /\ pc = "patchUnplug" /\ Hotplug \in vm => Hotplug \in read
    /\ pc = "waitUnplug" \/ result["unplug"] # "none" => Hotplug \notin vm

(* A snapshot that was validated keeps its contents, whatever happens to   *)
(* its phase, and a restore is made from nothing else.                     *)
Snapshotted ==
    /\ pc \in UpToSnapshot => snapshot.phase = "absent"
    /\ snapshot.phase \in {"absent", "InProgress"} => snapshot.volumes = {}
    /\ pc \in UpToValidation => result["snapshot"] = "none"
    /\ result["snapshot"] = "pass" => snapshot.phase \in {"Succeeded", "Failed"} /\ snapshot.online

(* A restore is made only of a validated snapshot, and of all it holds.    *)
Restored ==
    /\ pc \in Restoring => result["snapshot"] = "pass"
    /\ restore.phase # "absent" =>
           result["snapshot"] = "pass" /\ pc \in {"waitRestore", "validateRestore", "end", "aborted"}
    /\ restore.phase # "complete" => restore.volumes = {}
    /\ restore.volumes \in {{}, snapshot.volumes}

(* Once stopped the VM is not started again.                               *)
Stopped ==
    /\ pc \in Restoring => halted
    /\ pc = "createRestore" => ~running
    /\ ~hot
    /\ result["restore"] # "none" => pc = "end"

(* What a request creates was not there before it, and a check has said    *)
(* nothing before it is done.                                              *)
Fresh ==
    /\ pc \in {"create", "waitBoot"} => result["boot"] = "none"
    /\ pc \in {"create", "waitBoot", "clone"} => result["clone"] = "none"
    /\ pc \in {"create", "waitBoot", "clone", "createDV"} => ~hotplugDV
    /\ pc \in UpToUnplug \ {"getUnplug", "patchUnplug", "waitUnplug"} => result["hotplug"] = "none"
    /\ pc \in UpToUnplug \cup {"migration", "migrate"} => vmim = "absent"
    /\ pc \in UpToUnplug \cup {"migration", "migrate", "waitMigration"} => result["migration"] = "none"
    /\ halted => pc \in Restoring \cup {"end", "aborted"}

(* The inductive invariant.                                                *)
IInv ==
    /\ TypeOK
    /\ Patching /\ Classed
    /\ Witnessed /\ Unplugged
    /\ Snapshotted /\ Restored /\ Stopped
    /\ Fresh
    /\ PassesAreEarned
-----------------------------------------------------------------------------
(* The initial state of the VM satisfies the invariant.                    *)
LEMMA InitIInv == Init => IInv
<1> SUFFICES ASSUME Init PROVE IInv
  OBVIOUS
<1>1. TypeOK
  <2>1. snapshot \in SnapshotType
    BY DEF Init, SnapshotType
  <2>2. migration \in [by : {"nobody", "checkup", "other"},
                       state : {"none", "running", "done", "failed"}]
    BY DEF Init, NoMigration
  <2>3. restore \in [phase : {"absent", "requested", "complete"}, volumes : SUBSET Volumes]
    BY DEF Init
  <2>4. result \in [Checks -> Said]
    BY DEF Init, Said
  <2>5. dvClass \in [Volumes -> Classes \cup {None}]
    BY DEF Init
  <2>6. events \in 0..MaxEvents
    BY EventsAssumption DEF Init
  <2> QED
    BY <2>1, <2>2, <2>3, <2>4, <2>5, <2>6 DEF Init, TypeOK, PCs
<1>2. Patching /\ Classed
  BY DEF Init, Patching, Classed
<1>3. Witnessed /\ Unplugged
  BY DEF Init, Witnessed, Unplugged, Checks, NoMigration
<1>4. Snapshotted /\ Restored /\ Stopped /\ Fresh /\ PassesAreEarned
  BY DEF Init, Fresh, Snapshotted, Restored, Stopped, PassesAreEarned, Checks, Restoring
<1> QED
  BY <1>1, <1>2, <1>3, <1>4 DEF IInv

(* Every request and poll of the checks keeps the types.                   *)
LEMMA RunTypes ==
    ASSUME TypeOK, BootCheck \/ HotplugCheck \/ LaterChecks
    PROVE  TypeOK'
<1> USE DistinctAssumption, EventsAssumption, InputsAssumption
    DEF TypeOK, InputType, PCs, Checks, SnapshotType, Said, Own, Volumes, Answers, Reads, Done,
        OrAbort, Say, Poll, Unchanged, Kubevirt, NoInstance, NoMigration, Event, PatchVM,
        VolumesOfVM, BootClass, instanceVars, storageVars, clusterVars, histVars
<1>1. ASSUME NEW a \in Answers, CreateVM(a) PROVE TypeOK'
  BY <1>1 DEF CreateVM
<1>2. ASSUME NEW a \in Answers, CreateHotplugDV(a) PROVE TypeOK'
  BY <1>2 DEF CreateHotplugDV
<1>3. ASSUME NEW a \in Answers, HotplugVolume(a) PROVE TypeOK'
  BY <1>3 DEF HotplugVolume
<1>4. ASSUME NEW a \in Answers, UnplugVolume(a) PROVE TypeOK'
  BY <1>4 DEF UnplugVolume
<1>5. ASSUME NEW a \in Reads, GetVM("getPlug", "patchPlug", a) PROVE TypeOK'
  BY <1>5 DEF GetVM
<1>6. ASSUME NEW a \in Reads, GetVM("getUnplug", "patchUnplug", a) PROVE TypeOK'
  BY <1>6 DEF GetVM
<1>7. CASE WaitForPlug
  BY <1>7 DEF WaitForPlug
<1>8. CASE WaitForUnplug
  BY <1>8 DEF WaitForUnplug
<1>9. ASSUME NEW a \in Answers, CreateMigration(a) PROVE TypeOK'
  BY <1>9 DEF CreateMigration
<1>10. ASSUME NEW a \in Answers, CreateSnapshot(a) PROVE TypeOK'
  BY <1>10 DEF CreateSnapshot
<1>11. ASSUME NEW a \in Answers, StopVM(a) PROVE TypeOK'
  BY <1>11 DEF StopVM
<1>12. ASSUME NEW a \in Answers, CreateRestore(a) PROVE TypeOK'
  BY <1>12 DEF CreateRestore
<1>13. ASSUME NEW a \in Reads, ValidateSnapshot(a) PROVE TypeOK'
  BY <1>13 DEF ValidateSnapshot
<1>14. ASSUME NEW a \in Reads, ValidateRestore(a) PROVE TypeOK'
  BY <1>14 DEF ValidateRestore
<1>15. ASSUME NEW a \in Reads, NEW r \in {"none", "singleNode", "notMigratable"},
              MigrationSkipReason(a, r)
       PROVE  TypeOK'
  BY <1>15 DEF MigrationSkipReason
<1>16. CASE WaitForMigration
  BY <1>16 DEF WaitForMigration
<1>17. CASE WaitForSnapshot
  BY <1>17 DEF WaitForSnapshot
<1>18. CASE SkipRestore
  BY <1>18 DEF SkipRestore
<1>19. CASE WaitForStop
  BY <1>19 DEF WaitForStop
<1>20. CASE WaitForRestore
  BY <1>20 DEF WaitForRestore
<1>21. CASE WaitForBoot
  BY <1>21 DEF WaitForBoot
<1>22. ASSUME NEW a \in Reads, NEW b \in BOOLEAN, ReadCloneType(a, b) PROVE TypeOK'
  BY <1>22 DEF ReadCloneType
<1> QED
  BY <1>1, <1>2, <1>3, <1>4, <1>5, <1>6, <1>7, <1>8, <1>9, <1>10, <1>11, <1>12, <1>13, <1>14,
     <1>15, <1>16, <1>17, <1>18, <1>19, <1>20, <1>21, <1>22
     DEF BootCheck, HotplugCheck, LaterChecks

(* So does every step of KubeVirt, of guests, nodes, storage and users.    *)
LEMMA EnvironmentTypes ==
    ASSUME TypeOK, Witnessed, Environment
    PROVE  TypeOK'
<1> USE DistinctAssumption, EventsAssumption, InputsAssumption
    DEF TypeOK, InputType, PCs, Checks, SnapshotType, Said, Own, Volumes, Answers, Reads, Done,
        OrAbort, Say, Poll, Unchanged, Kubevirt, NoInstance, Event, PatchVM,
        VolumesOfVM, BootClass, instanceVars, storageVars, clusterVars, histVars, Witnessed
<1>0. ASSUME NoInstance
      PROVE  /\ running' \in BOOLEAN
             /\ attached' \subseteq {Hotplug, Extra} /\ ready' \subseteq attached'
             /\ migration' \in [by : {"nobody", "checkup", "other"},
                               state : {"none", "running", "done", "failed"}]
  BY <1>0 DEF NoMigration
<1>1. CASE StartVMI
  BY <1>1 DEF StartVMI
<1>2. CASE StopVMI
  <2> HIDE DEF NoInstance
  <2> QED
    BY <1>0, <1>2 DEF StopVMI
<1>3. CASE BeginMigration
  BY <1>3 DEF BeginMigration
<1>4. CASE CompleteRestore
  BY <1>4 DEF CompleteRestore
<1>5. ASSUME NEW v \in {Hotplug, Extra}, Attach(v) PROVE TypeOK'
  BY <1>5 DEF Attach
<1>6. ASSUME NEW v \in {Hotplug, Extra}, MakeReady(v) PROVE TypeOK'
  BY <1>6 DEF MakeReady
<1>7. ASSUME NEW v \in {Hotplug, Extra}, BeginDetach(v) PROVE TypeOK'
  BY <1>7 DEF BeginDetach
<1>8. ASSUME NEW v \in {Hotplug, Extra}, Detach(v) PROVE TypeOK'
  BY <1>8 DEF Detach
<1>9. ASSUME NEW how \in {"done", "failed"}, EndMigration(how) PROVE TypeOK'
  BY <1>9 DEF EndMigration
<1>10. ASSUME NEW without \in SUBSET Own, TakeSnapshot(without) PROVE TypeOK'
  <2>1. CASE snapshot' = [snapshot EXCEPT !.phase = "Failed"]
    BY <1>10, <2>1 DEF TakeSnapshot
  <2>2. CASE snapshot' = [phase |-> "Succeeded", online |-> running,
                          volumes |-> (vm \cup attached) \ without]
    <3>1. (vm \cup attached) \ without \in SUBSET Volumes
      OBVIOUS
    <3>2. snapshot' \in SnapshotType
      BY <2>2, <3>1
    <3> HIDE DEF SnapshotType
    <3> QED
      BY <1>10, <3>2 DEF TakeSnapshot
  <2> QED
    BY <1>10, <2>1, <2>2 DEF TakeSnapshot
<1>11. CASE Crash
  <2> HIDE DEF NoInstance
  <2> QED
    BY <1>0, <1>11 DEF Crash
<1>12. CASE Evacuate
  BY <1>12 DEF Evacuate
<1>13. CASE LoseSnapshot
  BY <1>13 DEF LoseSnapshot
<1>14. ASSUME NEW wants \in BOOLEAN, UserEdits(wants) PROVE TypeOK'
  BY <1>14 DEF UserEdits
<1> QED
  BY <1>1, <1>2, <1>3, <1>4, <1>5, <1>6, <1>7, <1>8, <1>9, <1>10, <1>11, <1>12, <1>13, <1>14
     DEF Environment

-----------------------------------------------------------------------------
(* The checkup's own volumes are neither the hotplugged one nor the user's.*)
LEMMA OwnVolumes == Boot \in Own /\ Hotplug \notin Own /\ Extra \notin Own /\ Extra # Hotplug
  BY DistinctAssumption DEF Own

(* Once the VM was created the boot check only looks.                      *)
LEMMA BootFrame ==
    ASSUME TypeOK, BootCheck, ~(\E a \in Answers : CreateVM(a))
    PROVE  /\ UNCHANGED <<input, clusterVars, read, events, histVars>>
           /\ \A c \in Checks \ {"boot", "clone"} : result'[c] = result[c]
           /\ pc \in {"waitBoot", "clone"} /\ pc' \in {"clone", "createDV", "aborted"}
<1> USE DEF OrAbort, Poll, Say, Unchanged, TypeOK
<1> DEFINE Frame ==
           /\ UNCHANGED <<input, clusterVars, read, events, histVars>>
           /\ \A c \in Checks \ {"boot", "clone"} : result'[c] = result[c]
           /\ pc \in {"waitBoot", "clone"} /\ pc' \in {"clone", "createDV", "aborted"}
<1>1. CASE WaitForBoot
  BY <1>1 DEF WaitForBoot
<1>2. ASSUME NEW a \in Reads, NEW b \in BOOLEAN, ReadCloneType(a, b) PROVE Frame
  BY <1>2 DEF ReadCloneType
<1> QED
  BY <1>1, <1>2 DEF BootCheck

(* What the hotplug check leaves alone: all but the VM, the class of the   *)
(* new DataVolume, its own results and what it read.                       *)
LEMMA HotplugFrame ==
    ASSUME TypeOK, HotplugCheck
    PROVE  /\ UNCHANGED <<input, halted, running, attached, ready, migration, vmim, snapshot, restore>>
           /\ UNCHANGED <<wanted, meddled, raced, plugged, migrated, hot>>
           /\ \A c \in {"boot", "clone", "migration", "snapshot", "restore"} : result'[c] = result[c]
           /\ pc \in UpToUnplug \ {"create"} /\ pc' \in UpToUnplug \cup {"migration", "aborted"}
           /\ pc' \notin {"create", "waitBoot", "clone", "createDV"}
<1> USE DEF UpToUnplug, GetVM, PatchVM, OrAbort, Poll, Say, Unchanged, clusterVars, instanceVars,
            storageVars, histVars
<1> DEFINE Frame ==
           /\ UNCHANGED <<input, halted, running, attached, ready, migration, vmim, snapshot, restore>>
           /\ UNCHANGED <<wanted, meddled, raced, plugged, migrated, hot>>
           /\ \A c \in {"boot", "clone", "migration", "snapshot", "restore"} : result'[c] = result[c]
           /\ pc \in UpToUnplug \ {"create"} /\ pc' \in UpToUnplug \cup {"migration", "aborted"}
           /\ pc' \notin {"create", "waitBoot", "clone", "createDV"}
<1>1. ASSUME NEW a \in Answers, CreateHotplugDV(a) PROVE Frame
  BY <1>1 DEF CreateHotplugDV
<1>2. ASSUME NEW a \in Answers, HotplugVolume(a) PROVE Frame
  BY <1>2 DEF HotplugVolume
<1>3. ASSUME NEW a \in Answers, UnplugVolume(a) PROVE Frame
  BY <1>3 DEF UnplugVolume
<1>4. ASSUME NEW a \in Reads, GetVM("getPlug", "patchPlug", a) PROVE Frame
  BY <1>4
<1>5. ASSUME NEW a \in Reads, GetVM("getUnplug", "patchUnplug", a) PROVE Frame
  BY <1>5
<1>6. CASE WaitForPlug
  BY <1>6 DEF WaitForPlug, TypeOK, Checks
<1>7. CASE WaitForUnplug
  BY <1>7 DEF WaitForUnplug, TypeOK, Checks
<1> QED
  BY <1>1, <1>2, <1>3, <1>4, <1>5, <1>6, <1>7 DEF HotplugCheck

(* What the later checks leave alone: the VM's volumes and its instance.   *)
LEMMA LaterFrame ==
    ASSUME TypeOK, LaterChecks
    PROVE  /\ UNCHANGED <<input, dvClass, hotplugDV, vm, running, attached, ready, migration, read>>
           /\ UNCHANGED <<wanted, meddled, raced, plugged, migrated>>
           /\ \A c \in {"boot", "clone", "hotplug", "unplug"} : result'[c] = result[c]
           /\ pc \notin UpToUnplug \cup {"aborted"} /\ pc' \notin UpToUnplug
<1> USE DEF UpToUnplug, OrAbort, Poll, Say, Unchanged, clusterVars, instanceVars, storageVars,
            histVars
<1> DEFINE Frame ==
           /\ UNCHANGED <<input, dvClass, hotplugDV, vm, running, attached, ready, migration, read>>
           /\ UNCHANGED <<wanted, meddled, raced, plugged, migrated>>
           /\ \A c \in {"boot", "clone", "hotplug", "unplug"} : result'[c] = result[c]
           /\ pc \notin UpToUnplug \cup {"aborted"} /\ pc' \notin UpToUnplug
<1>1. ASSUME NEW a \in Answers, CreateMigration(a) PROVE Frame
  BY <1>1 DEF CreateMigration
<1>2. ASSUME NEW a \in Answers, CreateSnapshot(a) PROVE Frame
  BY <1>2 DEF CreateSnapshot
<1>3. ASSUME NEW a \in Answers, StopVM(a) PROVE Frame
  BY <1>3 DEF StopVM
<1>4. ASSUME NEW a \in Answers, CreateRestore(a) PROVE Frame
  BY <1>4 DEF CreateRestore
<1>5. ASSUME NEW a \in Reads, ValidateSnapshot(a) PROVE Frame
  BY <1>5 DEF ValidateSnapshot, TypeOK, Checks
<1>6. ASSUME NEW a \in Reads, ValidateRestore(a) PROVE Frame
  BY <1>6 DEF ValidateRestore, TypeOK, Checks
<1>7. ASSUME NEW a \in Reads, NEW r \in {"none", "singleNode", "notMigratable"},
             MigrationSkipReason(a, r)
      PROVE  Frame
  BY <1>7 DEF MigrationSkipReason, TypeOK, Checks
<1>8. CASE WaitForMigration
  BY <1>8 DEF WaitForMigration, TypeOK, Checks
<1>9. CASE WaitForSnapshot
  BY <1>9 DEF WaitForSnapshot, TypeOK, Checks
<1>10. CASE SkipRestore
  BY <1>10 DEF SkipRestore, TypeOK, Checks
<1>11. CASE WaitForStop
  BY <1>11 DEF WaitForStop
<1>12. CASE WaitForRestore
  BY <1>12 DEF WaitForRestore, TypeOK, Checks
<1> QED
  BY <1>1, <1>2, <1>3, <1>4, <1>5, <1>6, <1>7, <1>8, <1>9, <1>10, <1>11, <1>12 DEF LaterChecks

(* Nobody but the checkup and the user changes the VM.                     *)
LEMMA ClusterFrame ==
    ASSUME Environment, ~(\E wants \in BOOLEAN : UserEdits(wants))
    PROVE  UNCHANGED <<input, dvClass, hotplugDV, vm, halted, pc, read, result, wanted, meddled, raced, hot>>
  BY DEF Environment, StartVMI, StopVMI, BeginMigration, CompleteRestore, Attach, MakeReady,
         BeginDetach, Detach, EndMigration, TakeSnapshot, Crash, Evacuate, LoseSnapshot,
         Kubevirt, Event, NoInstance, histVars
-----------------------------------------------------------------------------
(* The list that a patch sends is the VM's, plus or minus hotplug-volume,  *)
(* unless the user was between the read and the patch.                     *)
LEMMA PatchingKept == ASSUME IInv, Next PROVE Patching'
<1> USE OwnVolumes DEF IInv, Patching, Done, OrAbort, Say, Poll, Unchanged, clusterVars, histVars
<1>1. ASSUME NEW a \in Answers, CreateVM(a) PROVE Patching'
  BY <1>1 DEF CreateVM, VolumesOfVM
<1>2. ASSUME NEW a \in Answers, CreateHotplugDV(a) PROVE Patching'
  BY <1>2 DEF CreateHotplugDV
<1>3. ASSUME NEW a \in Answers, HotplugVolume(a) PROVE Patching'
  BY <1>3 DEF HotplugVolume, PatchVM
<1>4. ASSUME NEW a \in Answers, UnplugVolume(a) PROVE Patching'
  BY <1>4 DEF UnplugVolume, PatchVM
<1>5. ASSUME NEW a \in Reads, GetVM("getPlug", "patchPlug", a) PROVE Patching'
  BY <1>5 DEF GetVM
<1>6. ASSUME NEW a \in Reads, GetVM("getUnplug", "patchUnplug", a) PROVE Patching'
  BY <1>6 DEF GetVM
<1>7. CASE WaitForPlug
  BY <1>7 DEF WaitForPlug
<1>8. CASE WaitForUnplug
  BY <1>8 DEF WaitForUnplug
<1>9. CASE LaterChecks
  BY <1>9, LaterFrame DEF UpToUnplug
<1>10. ASSUME NEW wants \in BOOLEAN, UserEdits(wants) PROVE Patching'
  BY <1>10 DEF UserEdits
<1>11. CASE Environment /\ ~(\E wants \in BOOLEAN : UserEdits(wants))
  BY <1>11, ClusterFrame
<1>12. CASE BootCheck /\ ~(\E a \in Answers : CreateVM(a))
  BY <1>12, BootFrame
<1> QED
  BY <1>1, <1>2, <1>3, <1>4, <1>5, <1>6, <1>7, <1>8, <1>9, <1>10, <1>11, <1>12 DEF Next, HotplugCheck

(* The class of a DataVolume is fixed when it is created, before the VM    *)
(* has the volume.                                                         *)
LEMMA ClassedKept == ASSUME IInv, Next PROVE Classed'
<1> USE OwnVolumes
    DEF IInv, Patching, Classed, Conforms, Done, OrAbort, Say, Poll, Unchanged, clusterVars, histVars
<1>1. ASSUME NEW a \in Answers, CreateVM(a) PROVE Classed'
  BY <1>1, DistinctAssumption DEF CreateVM, VolumesOfVM, BootClass, Own, Volumes
<1>2. ASSUME NEW a \in Answers, CreateHotplugDV(a) PROVE Classed'
  BY <1>2, DistinctAssumption DEF CreateHotplugDV, BootClass, TypeOK, Volumes
<1>3. ASSUME NEW a \in Answers, HotplugVolume(a) PROVE Classed'
  BY <1>3 DEF HotplugVolume, PatchVM
<1>4. ASSUME NEW a \in Answers, UnplugVolume(a) PROVE Classed'
  BY <1>4 DEF UnplugVolume, PatchVM
<1>5. ASSUME NEW a \in Reads, GetVM("getPlug", "patchPlug", a) PROVE Classed'
  BY <1>5 DEF GetVM
<1>6. ASSUME NEW a \in Reads, GetVM("getUnplug", "patchUnplug", a) PROVE Classed'
  BY <1>6 DEF GetVM
<1>7. CASE WaitForPlug
  BY <1>7 DEF WaitForPlug
<1>8. CASE WaitForUnplug
  BY <1>8 DEF WaitForUnplug
<1>9. CASE LaterChecks
  BY <1>9, LaterFrame DEF UpToUnplug
<1>10. ASSUME NEW wants \in BOOLEAN, UserEdits(wants) PROVE Classed'
  BY <1>10 DEF UserEdits
<1>11. CASE Environment /\ ~(\E wants \in BOOLEAN : UserEdits(wants))
  BY <1>11, ClusterFrame
<1>12. CASE BootCheck /\ ~(\E a \in Answers : CreateVM(a))
  BY <1>12, BootFrame
<1> QED
  BY <1>1, <1>2, <1>3, <1>4, <1>5, <1>6, <1>7, <1>8, <1>9, <1>10, <1>11, <1>12 DEF Next, HotplugCheck

(* KubeVirt attaches what is in the VM and makes ready what is attached;   *)
(* only the user put a volume of theirs there.                             *)
LEMMA WitnessedKept == ASSUME IInv, Next PROVE Witnessed'
<1> USE OwnVolumes
    DEF IInv, Witnessed, Done, OrAbort, Say, Poll, Unchanged, Kubevirt, NoInstance, NoMigration,
        Event, clusterVars, instanceVars, histVars
<1>1. ASSUME NEW a \in Answers, CreateVM(a) PROVE Witnessed'
  BY <1>1 DEF CreateVM, VolumesOfVM
<1>2. ASSUME NEW a \in Answers, CreateHotplugDV(a) PROVE Witnessed'
  BY <1>2 DEF CreateHotplugDV
<1>3. ASSUME NEW a \in Answers, HotplugVolume(a) PROVE Witnessed'
  BY <1>3 DEF HotplugVolume, PatchVM
<1>4. ASSUME NEW a \in Answers, UnplugVolume(a) PROVE Witnessed'
  BY <1>4 DEF UnplugVolume, PatchVM
<1>5. ASSUME NEW a \in Reads, GetVM("getPlug", "patchPlug", a) PROVE Witnessed'
  BY <1>5 DEF GetVM
<1>6. ASSUME NEW a \in Reads, GetVM("getUnplug", "patchUnplug", a) PROVE Witnessed'
  BY <1>6 DEF GetVM
<1>7. CASE WaitForPlug
  BY <1>7 DEF WaitForPlug
<1>8. CASE WaitForUnplug
  BY <1>8 DEF WaitForUnplug
<1>9. CASE LaterChecks
  BY <1>9, LaterFrame
<1>10. CASE StartVMI
  BY <1>10 DEF StartVMI
<1>11. CASE StopVMI
  BY <1>11 DEF StopVMI
<1>12. CASE BeginMigration
  BY <1>12 DEF BeginMigration
<1>13. CASE CompleteRestore
  BY <1>13 DEF CompleteRestore
<1>14. ASSUME NEW v \in {Hotplug, Extra}, Attach(v) PROVE Witnessed'
  BY <1>14 DEF Attach
<1>15. ASSUME NEW v \in {Hotplug, Extra}, MakeReady(v) PROVE Witnessed'
  BY <1>15 DEF MakeReady
<1>16. ASSUME NEW v \in {Hotplug, Extra}, BeginDetach(v) PROVE Witnessed'
  BY <1>16 DEF BeginDetach
<1>17. ASSUME NEW v \in {Hotplug, Extra}, Detach(v) PROVE Witnessed'
  BY <1>17 DEF Detach
<1>18. ASSUME NEW how \in {"done", "failed"}, EndMigration(how) PROVE Witnessed'
  BY <1>18 DEF EndMigration, TypeOK
<1>19. ASSUME NEW without \in SUBSET Own, TakeSnapshot(without) PROVE Witnessed'
  BY <1>19 DEF TakeSnapshot
<1>20. CASE Crash
  BY <1>20 DEF Crash
<1>21. CASE Evacuate
  BY <1>21 DEF Evacuate
<1>22. CASE LoseSnapshot
  BY <1>22 DEF LoseSnapshot
<1>23. ASSUME NEW wants \in BOOLEAN, UserEdits(wants) PROVE Witnessed'
  BY <1>23 DEF UserEdits
<1>24. CASE BootCheck /\ ~(\E a \in Answers : CreateVM(a))
  BY <1>24, BootFrame
<1> QED
  BY <1>1, <1>2, <1>3, <1>4, <1>5, <1>6, <1>7, <1>8, <1>9, <1>10, <1>11, <1>12, <1>13, <1>14,
     <1>15, <1>16, <1>17, <1>18, <1>19, <1>20, <1>21, <1>22, <1>23, <1>24
     DEF Next, HotplugCheck, Environment

(* Of the requests that follow the removal of hotplug-volume none adds it. *)
LEMMA UnpluggedKept == ASSUME IInv, Next PROVE Unplugged'
<1> USE OwnVolumes
    DEF IInv, TypeOK, Checks, Unplugged, UpToUnplug, Done, OrAbort, Say, Poll, Unchanged,
        clusterVars, histVars
<1>1. ASSUME NEW a \in Answers, CreateVM(a) PROVE Unplugged'
  BY <1>1 DEF CreateVM, VolumesOfVM
<1>2. ASSUME NEW a \in Answers, CreateHotplugDV(a) PROVE Unplugged'
  BY <1>2 DEF CreateHotplugDV
<1>3. ASSUME NEW a \in Answers, HotplugVolume(a) PROVE Unplugged'
  BY <1>3 DEF HotplugVolume, PatchVM
<1>4. ASSUME NEW a \in Answers, UnplugVolume(a) PROVE Unplugged'
  BY <1>4 DEF UnplugVolume, PatchVM
<1>5. ASSUME NEW a \in Reads, GetVM("getPlug", "patchPlug", a) PROVE Unplugged'
  BY <1>5 DEF GetVM
<1>6. ASSUME NEW a \in Reads, GetVM("getUnplug", "patchUnplug", a) PROVE Unplugged'
  BY <1>6 DEF GetVM
<1>7. CASE WaitForPlug
  BY <1>7 DEF WaitForPlug
<1>8. CASE WaitForUnplug
  BY <1>8 DEF WaitForUnplug
<1>9. CASE LaterChecks
  BY <1>9, LaterFrame
<1>10. ASSUME NEW wants \in BOOLEAN, UserEdits(wants) PROVE Unplugged'
  BY <1>10 DEF UserEdits
<1>11. CASE Environment /\ ~(\E wants \in BOOLEAN : UserEdits(wants))
  BY <1>11, ClusterFrame
<1>12. CASE BootCheck /\ ~(\E a \in Answers : CreateVM(a))
  BY <1>12, BootFrame
<1> QED
  BY <1>1, <1>2, <1>3, <1>4, <1>5, <1>6, <1>7, <1>8, <1>9, <1>10, <1>11, <1>12
     DEF Next, HotplugCheck

(* Snapshot, restore and stop follow one another: each is only requested   *)
(* when the one before was found to be done, and nothing undoes that.      *)
LEMMA StagesKept == ASSUME IInv, Next PROVE Snapshotted' /\ Restored' /\ Stopped'
<1> USE DEF IInv, TypeOK, Checks, SnapshotType, Snapshotted, Restored, Stopped, UpToUnplug,
        UpToSnapshot, UpToValidation, Restoring, Done, OrAbort, Say, Poll, Unchanged, Kubevirt,
        NoInstance, Event, clusterVars, instanceVars, storageVars, histVars
<1> DEFINE Goal == Snapshotted /\ Restored /\ Stopped
<1>1. ASSUME NEW a \in Answers, CreateVM(a) PROVE Goal'
  BY <1>1 DEF CreateVM
<1>2. CASE HotplugCheck
  BY <1>2, HotplugFrame
<1>3. ASSUME NEW a \in Answers, CreateMigration(a) PROVE Goal'
  BY <1>3 DEF CreateMigration
<1>4. ASSUME NEW a \in Answers, CreateSnapshot(a) PROVE Goal'
  BY <1>4 DEF CreateSnapshot
<1>5. ASSUME NEW a \in Answers, StopVM(a) PROVE Goal'
  BY <1>5 DEF StopVM
<1>6. ASSUME NEW a \in Answers, CreateRestore(a) PROVE Goal'
  BY <1>6 DEF CreateRestore
<1>7. ASSUME NEW a \in Reads, ValidateSnapshot(a) PROVE Goal'
  BY <1>7 DEF ValidateSnapshot
<1>8. ASSUME NEW a \in Reads, ValidateRestore(a) PROVE Goal'
  BY <1>8 DEF ValidateRestore
<1>9. ASSUME NEW a \in Reads, NEW r \in {"none", "singleNode", "notMigratable"},
             MigrationSkipReason(a, r)
      PROVE  Goal'
  BY <1>9 DEF MigrationSkipReason
<1>10. CASE WaitForMigration
  BY <1>10 DEF WaitForMigration
<1>11. CASE WaitForSnapshot
  BY <1>11 DEF WaitForSnapshot
<1>12. CASE SkipRestore
  BY <1>12 DEF SkipRestore
<1>13. CASE WaitForStop
  BY <1>13 DEF WaitForStop
<1>14. CASE WaitForRestore
  BY <1>14 DEF WaitForRestore
<1>15. CASE StartVMI
  BY <1>15 DEF StartVMI
<1>16. CASE StopVMI
  BY <1>16 DEF StopVMI
<1>17. CASE BeginMigration
  BY <1>17 DEF BeginMigration
<1>18. CASE CompleteRestore
  BY <1>18 DEF CompleteRestore
<1>19. ASSUME NEW v \in {Hotplug, Extra}, Attach(v) \/ MakeReady(v) \/ BeginDetach(v) \/ Detach(v)
      PROVE  Goal'
  BY <1>19 DEF Attach, MakeReady, BeginDetach, Detach
<1>20. ASSUME NEW how \in {"done", "failed"}, EndMigration(how) PROVE Goal'
  BY <1>20 DEF EndMigration
<1>21. ASSUME NEW without \in SUBSET Own, TakeSnapshot(without) PROVE Goal'
  BY <1>21 DEF TakeSnapshot
<1>22. CASE Crash
  BY <1>22 DEF Crash
<1>23. CASE Evacuate
  BY <1>23 DEF Evacuate
<1>24. CASE LoseSnapshot
  BY <1>24 DEF LoseSnapshot
<1>25. ASSUME NEW wants \in BOOLEAN, UserEdits(wants) PROVE Goal'
  BY <1>25 DEF UserEdits
<1>26. CASE BootCheck /\ ~(\E a \in Answers : CreateVM(a))
  BY <1>26, BootFrame
<1>27. CASE LaterChecks
  BY <1>27, <1>3, <1>4, <1>5, <1>6, <1>7, <1>8, <1>9, <1>10, <1>11, <1>12, <1>13, <1>14
     DEF LaterChecks
<1>28. CASE Environment
  BY <1>28, <1>15, <1>16, <1>17, <1>18, <1>19, <1>20, <1>21, <1>22, <1>23, <1>24, <1>25
     DEF Environment
<1> QED
  <2> HIDE DEF IInv, TypeOK, Snapshotted, Restored, Stopped
  <2> QED
    BY <1>1, <1>2, <1>26, <1>27, <1>28 DEF Next

(* What was concluded from the status stays true of the VM.                *)
LEMMA PassesKept == ASSUME IInv, Next PROVE PassesAreEarned'
<1> USE OwnVolumes
    DEF IInv, TypeOK, Checks, PassesAreEarned, Done, OrAbort, Say, Poll, Unchanged, Kubevirt,
        NoInstance, Event, clusterVars, instanceVars, storageVars, histVars
<1>1. ASSUME NEW a \in Answers, CreateVM(a) PROVE PassesAreEarned'
  BY <1>1 DEF CreateVM, Unplugged, UpToUnplug
<1>2. ASSUME NEW a \in Answers, CreateHotplugDV(a) PROVE PassesAreEarned'
  BY <1>2 DEF CreateHotplugDV
<1>3. ASSUME NEW a \in Answers, HotplugVolume(a) PROVE PassesAreEarned'
  BY <1>3 DEF HotplugVolume, PatchVM, Unplugged, UpToUnplug
<1>4. ASSUME NEW a \in Answers, UnplugVolume(a) PROVE PassesAreEarned'
  BY <1>4 DEF UnplugVolume, PatchVM
<1>5. ASSUME NEW a \in Reads, GetVM("getPlug", "patchPlug", a) PROVE PassesAreEarned'
  BY <1>5 DEF GetVM
<1>6. ASSUME NEW a \in Reads, GetVM("getUnplug", "patchUnplug", a) PROVE PassesAreEarned'
  BY <1>6 DEF GetVM
<1>7. CASE WaitForPlug
  BY <1>7 DEF WaitForPlug, Witnessed
<1>8. CASE WaitForUnplug
  BY <1>8 DEF WaitForUnplug, Unplugged, Snapshotted, UpToSnapshot, UpToUnplug
<1>9. ASSUME NEW a \in Answers, CreateMigration(a) PROVE PassesAreEarned'
  BY <1>9 DEF CreateMigration
<1>10. ASSUME NEW a \in Answers, CreateSnapshot(a) PROVE PassesAreEarned'
  BY <1>10 DEF CreateSnapshot
<1>11. ASSUME NEW a \in Answers, StopVM(a) PROVE PassesAreEarned'
  BY <1>11 DEF StopVM
<1>12. ASSUME NEW a \in Answers, CreateRestore(a) PROVE PassesAreEarned'
  BY <1>12 DEF CreateRestore, Stopped
<1>13. ASSUME NEW a \in Reads, ValidateSnapshot(a) PROVE PassesAreEarned'
  BY <1>13 DEF ValidateSnapshot, Stopped
<1>14. ASSUME NEW a \in Reads, ValidateRestore(a) PROVE PassesAreEarned'
  BY <1>14 DEF ValidateRestore, AllRestored, Snapshotted, Restored, Restoring, Stopped
<1>15. ASSUME NEW a \in Reads, NEW r \in {"none", "singleNode", "notMigratable"},
              MigrationSkipReason(a, r)
       PROVE  PassesAreEarned'
  BY <1>15 DEF MigrationSkipReason
<1>16. CASE WaitForMigration
  BY <1>16 DEF WaitForMigration, Witnessed
<1>17. CASE WaitForSnapshot
  BY <1>17 DEF WaitForSnapshot, Stopped
<1>18. CASE SkipRestore
  BY <1>18 DEF SkipRestore
<1>19. CASE WaitForStop
  BY <1>19 DEF WaitForStop
<1>20. CASE WaitForRestore
  BY <1>20 DEF WaitForRestore
<1>21. CASE StartVMI
  BY <1>21 DEF StartVMI
<1>22. CASE StopVMI
  BY <1>22 DEF StopVMI
<1>23. CASE BeginMigration
  BY <1>23 DEF BeginMigration
<1>24. CASE CompleteRestore
  BY <1>24 DEF CompleteRestore
<1>25. ASSUME NEW v \in {Hotplug, Extra}, Attach(v) \/ MakeReady(v) \/ BeginDetach(v) \/ Detach(v)
      PROVE  PassesAreEarned'
  BY <1>25 DEF Attach, MakeReady, BeginDetach, Detach, Unplugged
<1>26. ASSUME NEW how \in {"done", "failed"}, EndMigration(how) PROVE PassesAreEarned'
  BY <1>26 DEF EndMigration
<1>27. ASSUME NEW without \in SUBSET Own, TakeSnapshot(without) PROVE PassesAreEarned'
  <2>1. result["restore"] # "pass"
    BY <1>27 DEF TakeSnapshot, Snapshotted
  <2>2. UNCHANGED <<vm, attached, result, plugged, meddled, migrated>>
    BY <1>27 DEF TakeSnapshot
  <2>3. result["unplug"] = "pass" => Hotplug \notin snapshot'.volumes
    <3>1. result["unplug"] = "pass" => Hotplug \notin vm \cup attached
      OBVIOUS
    <3>2. snapshot'.volumes \subseteq vm \cup attached \cup snapshot.volumes
      BY <1>27 DEF TakeSnapshot, SnapshotType
    <3> QED
      BY <3>1, <3>2
  <2> QED
    BY <2>1, <2>2, <2>3
<1>28. CASE Crash
  BY <1>28 DEF Crash
<1>29. CASE Evacuate
  BY <1>29 DEF Evacuate
<1>30. CASE LoseSnapshot
  BY <1>30 DEF LoseSnapshot
<1>31. ASSUME NEW wants \in BOOLEAN, UserEdits(wants) PROVE PassesAreEarned'
  BY <1>31 DEF UserEdits
<1>32. CASE BootCheck /\ ~(\E a \in Answers : CreateVM(a))
  BY <1>32, BootFrame
<1>33. CASE HotplugCheck
  BY <1>33, <1>2, <1>3, <1>4, <1>5, <1>6, <1>7, <1>8 DEF HotplugCheck
<1>34. CASE LaterChecks
  BY <1>34, <1>9, <1>10, <1>11, <1>12, <1>13, <1>14, <1>15, <1>16, <1>17, <1>18, <1>19, <1>20
     DEF LaterChecks
<1>35. CASE Environment
  BY <1>35, <1>21, <1>22, <1>23, <1>24, <1>25, <1>26, <1>27, <1>28, <1>29, <1>30, <1>31
     DEF Environment
<1> QED
  <2> HIDE DEF PassesAreEarned
  <2> QED
    BY <1>1, <1>32, <1>33, <1>34, <1>35 DEF Next

(* A request is sent once, and nothing but the checks of Run answers it.   *)
LEMMA FreshKept == ASSUME IInv, Next PROVE Fresh'
<1> USE DEF IInv, TypeOK, Checks, Fresh, Restoring, UpToUnplug, Done, OrAbort, Say, Poll, Unchanged,
        clusterVars, instanceVars, storageVars, histVars
<1>1. ASSUME NEW a \in Answers, CreateVM(a) PROVE Fresh'
  BY <1>1 DEF CreateVM
<1>2. CASE WaitForBoot
  BY <1>2 DEF WaitForBoot
<1>3. ASSUME NEW a \in Reads, NEW b \in BOOLEAN, ReadCloneType(a, b) PROVE Fresh'
  BY <1>3 DEF ReadCloneType
<1>4. ASSUME NEW a \in Answers, CreateHotplugDV(a) PROVE Fresh'
  BY <1>4 DEF CreateHotplugDV
<1>5. ASSUME NEW a \in Answers, HotplugVolume(a) PROVE Fresh'
  BY <1>5 DEF HotplugVolume, PatchVM
<1>6. ASSUME NEW a \in Answers, UnplugVolume(a) PROVE Fresh'
  BY <1>6 DEF UnplugVolume, PatchVM
<1>7. ASSUME NEW a \in Reads, GetVM("getPlug", "patchPlug", a) PROVE Fresh'
  BY <1>7 DEF GetVM
<1>8. ASSUME NEW a \in Reads, GetVM("getUnplug", "patchUnplug", a) PROVE Fresh'
  BY <1>8 DEF GetVM
<1>9. CASE WaitForPlug
  BY <1>9 DEF WaitForPlug
<1>10. CASE WaitForUnplug
  BY <1>10 DEF WaitForUnplug
<1>11. ASSUME NEW a \in Answers, CreateMigration(a) PROVE Fresh'
  BY <1>11 DEF CreateMigration
<1>12. ASSUME NEW a \in Answers, CreateSnapshot(a) PROVE Fresh'
  BY <1>12 DEF CreateSnapshot
<1>13. ASSUME NEW a \in Answers, StopVM(a) PROVE Fresh'
  BY <1>13 DEF StopVM
<1>14. ASSUME NEW a \in Answers, CreateRestore(a) PROVE Fresh'
  BY <1>14 DEF CreateRestore
<1>15. ASSUME NEW a \in Reads, ValidateSnapshot(a) PROVE Fresh'
  BY <1>15 DEF ValidateSnapshot
<1>16. ASSUME NEW a \in Reads, ValidateRestore(a) PROVE Fresh'
  BY <1>16 DEF ValidateRestore
<1>17. ASSUME NEW a \in Reads, NEW r \in {"none", "singleNode", "notMigratable"},
              MigrationSkipReason(a, r)
       PROVE  Fresh'
  BY <1>17 DEF MigrationSkipReason
<1>18. CASE WaitForMigration
  BY <1>18 DEF WaitForMigration
<1>19. CASE WaitForSnapshot
  BY <1>19 DEF WaitForSnapshot
<1>20. CASE SkipRestore
  BY <1>20 DEF SkipRestore
<1>21. CASE WaitForStop
  BY <1>21 DEF WaitForStop
<1>22. CASE WaitForRestore
  BY <1>22 DEF WaitForRestore
<1>23. CASE BeginMigration
  BY <1>23 DEF BeginMigration, Kubevirt
<1>24. CASE Environment /\ ~BeginMigration
  <2>1. UNCHANGED <<pc, result, hotplugDV, halted, vmim>>
    BY <1>24 DEF Environment, StartVMI, StopVMI, CompleteRestore, Attach, MakeReady, BeginDetach,
       Detach, EndMigration, TakeSnapshot, Crash, Evacuate, LoseSnapshot, UserEdits, Kubevirt
  <2> QED
    BY <2>1
<1>25. CASE BootCheck
  BY <1>25, <1>1, <1>2, <1>3 DEF BootCheck
<1>26. CASE HotplugCheck
  BY <1>26, <1>4, <1>5, <1>6, <1>7, <1>8, <1>9, <1>10 DEF HotplugCheck
<1>27. CASE LaterChecks
  BY <1>27, <1>11, <1>12, <1>13, <1>14, <1>15, <1>16, <1>17, <1>18, <1>19, <1>20, <1>21, <1>22
     DEF LaterChecks
<1> QED
  <2> HIDE DEF Fresh
  <2> QED
    BY <1>23, <1>24, <1>25, <1>26, <1>27 DEF Next

(* Every step keeps the invariant.                                         *)
LEMMA NextKeeps == IInv /\ [Next]_vars => IInv'
<1>1. ASSUME IInv, Next PROVE IInv'
  <2>1. TypeOK'
    BY <1>1, RunTypes, EnvironmentTypes DEF IInv, Next
  <2> QED
    BY <1>1, <2>1, PatchingKept, ClassedKept, WitnessedKept, UnpluggedKept, StagesKept, FreshKept,
       PassesKept
       DEF IInv
<1>2. ASSUME IInv, UNCHANGED vars PROVE IInv'
  BY <1>2 DEF IInv, TypeOK, Patching, Classed, Conforms, Witnessed, Unplugged, Snapshotted, Restored,
     Stopped, Fresh, PassesAreEarned, vars, clusterVars, instanceVars, storageVars, histVars
<1> QED
  BY <1>1, <1>2
-----------------------------------------------------------------------------
(* The invariant holds in every state the checks of the VM reach.          *)
THEOREM Inductive == Spec => []IInv
  BY InitIInv, NextKeeps, PTL DEF Spec

(* The variables of the VM under test keep their types.                    *)
THEOREM TypeCorrect == Spec => []TypeOK
<1>1. IInv => TypeOK
  BY DEF IInv
<1> QED
  BY <1>1, Inductive, PTL

(* Patching whole lists, with or without an acknowledgement, the checkup   *)
(* never takes a volume of its own from the VM, nor undoes the user's      *)
(* edits except between a read and its patch, and every volume is of the   *)
(* configured class.                                                       *)
THEOREM VolumesCorrect == Spec => []VolumesAreKept
<1>1. IInv => VolumesAreKept
  BY OwnVolumes DEF IInv, Patching, Classed, Conforms, VolumesAreKept, ClassIsConfigured
<1> QED
  BY <1>1, Inductive, PTL

(* A check of the VM that is reported as passed saw what it is about.      *)
THEOREM PassesCorrect == Spec => []PassesAreEarned
<1>1. IInv => PassesAreEarned
  BY DEF IInv
<1> QED
  BY <1>1, Inductive, PTL
-----------------------------------------------------------------------------
(* The steps of VMUnderTest are steps of Checkup.                          *)

(* What each step is called there.                                         *)
LEMMA Steps ==
    /\ StepOf("create") = "boot" /\ StepOf("waitBoot") = "waitBoot" /\ StepOf("clone") = "clone"
    /\ StepOf("createDV") = "hotplug" /\ StepOf("getPlug") = "plug" /\ StepOf("patchPlug") = "plug"
    /\ StepOf("waitPlug") = "waitPlug" /\ StepOf("getUnplug") = "unplug"
    /\ StepOf("patchUnplug") = "unplug" /\ StepOf("waitUnplug") = "waitUnplug"
    /\ StepOf("migration") = "migration" /\ StepOf("migrate") = "migrate"
    /\ StepOf("waitMigration") = "waitMigration" /\ StepOf("createSnapshot") = "snapshot"
    /\ StepOf("waitSnapshot") = "waitSnapshot" /\ StepOf("validateSnapshot") = "getSnapshot"
    /\ StepOf("restore") = "restore" /\ StepOf("waitStop") = "waitStop"
    /\ StepOf("createRestore") = "createRestore" /\ StepOf("waitRestore") = "waitRestore"
    /\ StepOf("validateRestore") = "getRestore" /\ StepOf("end") = "concurrent"
    /\ StepOf("aborted") = "returned"
  BY DEF StepOf, StepNames

(* The field of Checkup in which a check is recorded.                      *)
FieldOf(c) == IF c = "unplug" THEN "hotplug" ELSE c

(* A check that says something records that and nothing else.              *)
LEMMA Saying ==
    ASSUME TypeOK, NEW c \in Checks, NEW m \in Said \ {"none"}, result[c] = "none", Say(c, m)
    PROVE  /\ RecordedIn' = [RecordedIn EXCEPT ![FieldOf(c)] =
                                @ \cup {IF m = "fallback" THEN "hostAssisted" ELSE m}]
           /\ FailedFields' = IF m \in {"fail", "fallback"} THEN FailedFields \cup {FieldOf(c)}
                              ELSE FailedFields
<1> USE DEF TypeOK, Checks, Said, Say, FieldOf
<1>1. ASSUME NEW f \in FieldNames
      PROVE  RecordedIn'[f] = IF f = FieldOf(c)
                              THEN RecordedIn[f] \cup {IF m = "fallback" THEN "hostAssisted" ELSE m}
                              ELSE RecordedIn[f]
  <2>1. CASE f = "hotplug"
    BY <2>1 DEF RecordedIn, Recorded, FieldNames
  <2>2. CASE f \in {"versions", "defaultSC", "pvcBound", "surveys", "concurrent"}
    BY <2>2 DEF RecordedIn, FieldNames
  <2>3. CASE f \in {"boot", "clone", "migration", "snapshot", "restore"}
    BY <2>3 DEF RecordedIn, Recorded, FieldNames
  <2> QED
    BY <2>1, <2>2, <2>3 DEF FieldNames
<1>2. FieldOf(c) \in FieldNames
  BY DEF FieldNames
<1>3. RecordedIn' = [f \in FieldNames |-> RecordedIn'[f]]
  BY DEF RecordedIn
<1>4. RecordedIn = [f \in FieldNames |-> RecordedIn[f]]
  BY DEF RecordedIn
<1>5. FailedFields' = IF m \in {"fail", "fallback"} THEN FailedFields \cup {FieldOf(c)}
                      ELSE FailedFields
  BY DEF FailedFields, Failed
<1> QED
  <2> HIDE DEF FieldOf, Checks, Said
  <2> QED
    BY <1>1, <1>2, <1>3, <1>4, <1>5

(* Without a word nothing is recorded.                                     *)
LEMMA Silence ==
    ASSUME UNCHANGED result
    PROVE  RecordedIn' = RecordedIn /\ FailedFields' = FailedFields
  BY DEF RecordedIn, Recorded, FailedFields, Failed
(* An answer leads to the same next step, or ends Run.                     *)
LEMMA Proceeding ==
    ASSUME NEW a, NEW next, next # "aborted", pc # "aborted", OrAbort(a, next)
    PROVE  C!OrAbort(a, StepOf(next))
  BY Steps DEF OrAbort, C!OrAbort, C!Goto, C!Return

(* So does a poll.                                                         *)
LEMMA GoingOn ==
    ASSUME NEW next, next # "aborted", pc # "aborted", pc' = next
    PROVE  C!Goto(StepOf(next))
  BY DEF C!Goto

(* What the VM was made from was found, and a default class with it.       *)
LEMMA Worldly ==
    ASSUME TypeOK
    PROVE  /\ ~C!NoStorageClass /\ ~C!NoGoldenImage
           /\ WorldOf(input).gate /\ WorldOf(input).golden = input.golden
           /\ WorldOf(input).smartClone = input.smartClone
  BY InputsAssumption DEF TypeOK, InputType, WorldOf, C!NoStorageClass, C!NoGoldenImage

(* What the cluster is seen to hold.                                       *)
LEMMA Seeing ==
    /\ ClusterSeen["vm"] = IF vm # {} THEN "ours" ELSE "absent"
    /\ ClusterSeen["vmi"] = IF running THEN "ours" ELSE "absent"
    /\ ClusterSeen["hotplugDV"] = IF hotplugDV THEN "ours" ELSE "absent"
    /\ ClusterSeen["vmim"] = IF vmim # "absent" THEN "ours" ELSE "absent"
    /\ ClusterSeen["snapshot"] = IF snapshot.phase # "absent" THEN "ours" ELSE "absent"
    /\ ClusterSeen["restore"] = IF restore.phase # "absent" THEN "ours" ELSE "absent"
  BY DEF ClusterSeen, ObjectNames, Present

(* Whatever else happens to the objects is not seen.                       *)
LEMMA Unseen ==
    ASSUME vm # {} <=> vm' # {}, running <=> running', hotplugDV <=> hotplugDV',
           vmim # "absent" <=> vmim' # "absent",
           snapshot.phase # "absent" <=> snapshot'.phase # "absent",
           restore.phase # "absent" <=> restore'.phase # "absent"
    PROVE  ClusterSeen' = ClusterSeen
<1>1. \A o \in ObjectNames : Present(o)' <=> Present(o)
  BY DEF Present
<1> QED
  BY <1>1 DEF ClusterSeen

(* A check that only looks changes nothing but what is said.               *)
LEMMA Framing ==
    ASSUME Unchanged, pc # "create", pc' # "create", result'["snapshot"] = result["snapshot"]
    PROVE  C!Frame
<1>1. input' = input /\ halted' = halted /\ ClusterSeen' = ClusterSeen
  BY Unseen DEF Unchanged, clusterVars, instanceVars, storageVars
<1> QED
  BY <1>1 DEF C!Frame, C!cluVars, C!locVars

(* A create that is refused, carried out, or carried out unknown to us.    *)
LEMMA Creating ==
    ASSUME NEW a, NEW o \in ObjectNames,
           Done(a) => /\ ~Present(o)
                      /\ \A x \in ObjectNames : Present(x)' <=> x = o \/ Present(x),
           ~Done(a) => ClusterSeen' = ClusterSeen
    PROVE  C!Create(o, a)
<1>1. ASSUME Done(a) PROVE ClusterSeen' = [ClusterSeen EXCEPT ![o] = "ours"]
  BY <1>1 DEF ClusterSeen
<1>2. ASSUME Done(a) PROVE ClusterSeen[o] = "absent"
  BY <1>2 DEF ClusterSeen
<1> QED
  BY <1>1, <1>2 DEF Done, C!Create

(* A poll whose condition needs no more than there is.                     *)
LEMMA Polling ==
    ASSUME TypeOK, NEW c \in Checks \ {"snapshot"}, result[c] = "none", NEW holds, NEW possible,
           holds => possible, NEW next, next \notin {"create", "aborted"},
           pc \notin {"create", "aborted"}, Poll(c, holds, next, next), Unchanged
    PROVE  C!Poll(FieldOf(c), possible, StepOf(next))
<1>1. pc' = next
  BY DEF Poll
<1>2. C!Goto(StepOf(next))
  BY <1>1, GoingOn
<1>3. (possible /\ C!Say(FieldOf(c), "pass")) \/ C!Fail(FieldOf(c))
  <2>1. CASE holds /\ Say(c, "pass")
    BY <2>1, Saying DEF C!Say, C!Record, Said
  <2>2. CASE Say(c, "fail")
    BY <2>2, Saying DEF C!Fail, C!Record, Said
  <2> QED
    BY <2>1, <2>2 DEF Poll
<1>4. C!Frame
  <2>1. result'["snapshot"] = result["snapshot"]
    BY DEF Poll, Say, TypeOK, Checks
  <2> QED
    BY <1>1, <2>1, Framing
<1> QED
  BY <1>2, <1>3, <1>4 DEF C!Poll
-----------------------------------------------------------------------------
(* The creation of the VM, the poll for its boot and the clone type.       *)
LEMMA BootSteps == ASSUME IInv, BootCheck PROVE [C!Next]_(C!vars)
<1>0. TypeOK
  BY DEF IInv
<1>1. ASSUME NEW a \in Answers, CreateVM(a) PROVE C!CreateVM(a)
  <2> USE <1>1 DEF CreateVM
  <2>1. pc = "create" /\ vm = {}
    BY DEF IInv, Patching
  <2>2. C!Create("vm", a)
    <3>1. Done(a) => \A x \in ObjectNames : Present(x)' <=> x = "vm" \/ Present(x)
      BY OwnVolumes DEF Present, instanceVars, storageVars, VolumesOfVM
    <3>2. ~Done(a) => ClusterSeen' = ClusterSeen
      BY Unseen DEF instanceVars, storageVars
    <3> QED
      BY <2>1, <3>1, <3>2, Creating DEF Present, ObjectNames
  <2>3. C!OrAbort(a, "waitBoot")
    BY <2>1, Proceeding, Steps
  <2>4. (pc # "create")' = TRUE
    BY DEF OrAbort
  <2> QED
    BY <1>0, <2>1, <2>2, <2>3, <2>4, Steps, Worldly, Silence DEF C!CreateVM, C!InTime, C!repVars
<1>2. ASSUME WaitForBoot PROVE C!WaitForVMIBoot
  <2>1. pc = "waitBoot" /\ result["boot"] = "none"
    BY <1>2 DEF IInv, Fresh, WaitForBoot
  <2>2. C!Poll(FieldOf("boot"), running, StepOf("clone"))
    BY <1>0, <1>2, <2>1, Polling DEF WaitForBoot, Checks
  <2> QED
    BY <2>1, <2>2, Steps, Seeing DEF C!WaitForVMIBoot, C!Exists, FieldOf, C!Poll
<1>3. ASSUME NEW a \in Reads, NEW b \in BOOLEAN, ReadCloneType(a, b)
      PROVE  C!ReportSnapshotClone \/ C!ReadCloneType(a, b)
  <2> USE <1>3 DEF ReadCloneType
  <2>1. pc = "clone" /\ result["clone"] = "none"
    BY DEF IInv, Fresh
  <2>2. C!OrAbort(a, "hotplug")
    BY <2>1, Proceeding, Steps
  <2>3. C!Frame
    <3>1. result'["snapshot"] = result["snapshot"]
      BY <1>0 DEF Say, TypeOK, Checks
    <3>2. pc' # "create"
      BY DEF OrAbort
    <3> QED
      BY <2>1, <3>1, <3>2, Framing
  <2>4. CASE a # "ok"
    BY <1>0, <2>1, <2>2, <2>3, <2>4, Steps, Worldly, Silence
       DEF C!ReadCloneType, C!InTime, C!repVars
  <2>5. CASE a = "ok" /\ "snapshot" \in input.golden
    <3>1. C!Say("clone", "smart")
      BY <1>0, <2>1, <2>5, Saying DEF Checks, Said, C!Say, C!Record, FieldOf
    <3> QED
      BY <1>0, <2>1, <2>2, <2>3, <2>5, <3>1, Steps, Worldly DEF C!ReportSnapshotClone, C!OrAbort
  <2>6. CASE a = "ok" /\ "snapshot" \notin input.golden /\ input.smartClone
    <3>1. C!Say("clone", "smart")
      BY <1>0, <2>1, <2>6, Saying DEF Checks, Said, C!Say, C!Record, FieldOf
    <3> QED
      BY <1>0, <2>1, <2>2, <2>3, <2>6, <3>1, Steps, Worldly DEF C!ReadCloneType, C!InTime
  <2>7. CASE a = "ok" /\ "snapshot" \notin input.golden /\ ~input.smartClone
    <3>1. /\ C!Record("clone", "hostAssisted")
          /\ FailedFields' = IF b THEN FailedFields \cup {"clone"} ELSE FailedFields
      BY <1>0, <2>1, <2>7, Saying DEF Checks, Said, C!Record, FieldOf
    <3> QED
      BY <1>0, <2>1, <2>2, <2>3, <2>7, <3>1, Steps, Worldly DEF C!ReadCloneType, C!InTime
  <2> QED
    BY <2>4, <2>5, <2>6, <2>7
<1> QED
  BY <1>1, <1>2, <1>3 DEF BootCheck, Answers, Reads, C!Answers, C!Reads, C!Next, C!Run, C!Requests,
     C!VMChecks, C!Polls

(* The check of the hotplugged volume; reading the VM before a patch of it *)
(* is no step of Checkup unless it fails.                                  *)
LEMMA HotplugSteps == ASSUME IInv, HotplugCheck PROVE [C!Next]_(C!vars)
<1>0. TypeOK
  BY DEF IInv
<1>1. ASSUME NEW a \in Answers, CreateHotplugDV(a) PROVE C!CreateHotplugDV(a)
  <2> USE <1>1 DEF CreateHotplugDV
  <2>1. pc = "createDV" /\ ~hotplugDV
    BY DEF IInv, Fresh
  <2>2. C!Create("hotplugDV", a)
    <3>1. Done(a) => \A x \in ObjectNames : Present(x)' <=> x = "hotplugDV" \/ Present(x)
      BY DEF Present, instanceVars, storageVars
    <3>2. ~Done(a) => ClusterSeen' = ClusterSeen
      BY Unseen DEF instanceVars, storageVars
    <3> QED
      BY <2>1, <3>1, <3>2, Creating DEF Present, ObjectNames
  <2>3. C!OrAbort(a, "plug")
    BY <2>1, Proceeding, Steps
  <2>4. (pc # "create")' = (pc # "create")
    BY <2>1 DEF OrAbort
  <2> QED
    BY <2>1, <2>2, <2>3, <2>4, Steps, Silence
       DEF C!CreateHotplugDV, C!InTime, C!repVars, C!locVars
<1>2. ASSUME NEW step, NEW to, NEW a \in Answers, NEW volumes, PatchVM(step, volumes, to, a),
             step \notin {"create", "aborted"}, to \notin {"create", "aborted"},
             vm # {} => volumes # {}, volumes # read => vm # {}
      PROVE  C!PatchVM(StepOf(step), StepOf(to), a)
  <2> USE <1>2 DEF PatchVM
  <2>1. C!OrAbort(a, StepOf(to))
    BY Proceeding
  <2>2. ClusterSeen' = ClusterSeen
    BY Unseen DEF instanceVars, storageVars
  <2>3. (pc # "create")' = (pc # "create")
    BY DEF OrAbort
  <2> QED
    BY <2>1, <2>2, <2>3, Silence
       DEF C!PatchVM, C!InTime, C!repVars, C!Frame, C!cluVars, C!locVars
<1>3. ASSUME NEW a \in Answers, HotplugVolume(a) PROVE C!HotplugVolume(a)
  <2>1. pc = "patchPlug" /\ vm # {}
    BY <1>3, OwnVolumes DEF IInv, Patching, HotplugVolume, PatchVM
  <2>2. C!PatchVM(StepOf("patchPlug"), StepOf("waitPlug"), a)
    BY <1>2, <1>3, <2>1 DEF HotplugVolume
  <2> QED
    BY <2>2, Steps DEF C!HotplugVolume
<1>4. ASSUME NEW a \in Answers, UnplugVolume(a) PROVE C!UnplugVolume(a)
  <2>1. pc = "patchUnplug" /\ vm # {} /\ read \ {Hotplug} # {}
    BY <1>4, OwnVolumes DEF IInv, Patching, UnplugVolume, PatchVM
  <2>2. C!PatchVM(StepOf("patchUnplug"), StepOf("waitUnplug"), a)
    BY <1>2, <1>4, <2>1 DEF UnplugVolume
  <2> QED
    BY <2>2, Steps DEF C!UnplugVolume
<1>5. ASSUME NEW step, NEW to, NEW a \in Reads, GetVM(step, to, a), StepOf(step) = StepOf(to),
             step \notin {"create", "aborted"}, to \notin {"create", "aborted"}
      PROVE  UNCHANGED C!vars \/ C!PatchVM(StepOf(step), "aborted", "refused")
  <2> USE <1>5 DEF GetVM
  <2>1. ClusterSeen' = ClusterSeen
    BY Unseen DEF clusterVars, instanceVars, storageVars
  <2>2. (pc # "create")' = (pc # "create")
    BY DEF OrAbort
  <2>3. C!Frame
    BY <2>1, <2>2 DEF C!Frame, C!cluVars, C!locVars, clusterVars
  <2>4. CASE a = "ok"
    BY <2>3, <2>4, Silence
       DEF OrAbort, C!vars, C!Frame, C!ctlVars, C!repVars, C!cluVars, C!locVars
  <2>5. CASE a # "ok"
    <3>1. C!Return("aborted")
      BY <2>5, Steps DEF OrAbort, C!Return
    <3> QED
      BY <2>3, <3>1, Silence DEF C!PatchVM, C!InTime, C!OrAbort, C!repVars
  <2> QED
    BY <2>4, <2>5
<1>6. ASSUME NEW a \in Reads, GetVM("getPlug", "patchPlug", a)
      PROVE  UNCHANGED C!vars \/ C!HotplugVolume("refused")
  BY <1>5, <1>6, Steps DEF C!HotplugVolume, C!PatchVM, C!OrAbort
<1>7. ASSUME NEW a \in Reads, GetVM("getUnplug", "patchUnplug", a)
      PROVE  UNCHANGED C!vars \/ C!UnplugVolume("refused")
  BY <1>5, <1>7, Steps DEF C!UnplugVolume, C!PatchVM, C!OrAbort
<1>8. ASSUME WaitForPlug PROVE C!WaitForPlug
  <2>1. pc = "waitPlug" /\ result["hotplug"] = "none"
    BY <1>8 DEF IInv, Fresh, WaitForPlug, UpToUnplug
  <2>2. C!Poll(FieldOf("hotplug"), running, StepOf("getUnplug"))
    BY <1>0, <1>8, <2>1, Polling DEF WaitForPlug, Checks
  <2> QED
    BY <2>1, <2>2, Steps, Seeing DEF C!WaitForPlug, C!Exists, FieldOf, C!Poll
<1>9. ASSUME WaitForUnplug PROVE C!WaitForUnplug
  <2>1. pc = "waitUnplug" /\ result["unplug"] = "none"
    BY <1>9 DEF IInv, Unplugged, WaitForUnplug, UpToUnplug
  <2>2. C!Poll(FieldOf("unplug"), running, StepOf("migration"))
    BY <1>0, <1>9, <2>1, Polling DEF WaitForUnplug, Checks
  <2> QED
    BY <2>1, <2>2, Steps, Seeing DEF C!WaitForUnplug, C!Exists, FieldOf, C!Poll
<1> QED
  <2>1. \A a \in Answers : a \in C!Answers
    BY DEF Answers, C!Answers
  <2>2. "refused" \in C!Answers
    BY DEF C!Answers
  <2> QED
    BY <1>1, <1>3, <1>4, <1>6, <1>7, <1>8, <1>9, <2>1, <2>2
       DEF HotplugCheck, C!Next, C!Run, C!Requests, C!VMChecks, C!Polls

(* The checks of migration, snapshot and restore.                          *)
LEMMA LaterSteps == ASSUME IInv, LaterChecks PROVE [C!Next]_(C!vars)
<1>0. TypeOK
  BY DEF IInv
<1>1. ASSUME NEW a \in Reads, NEW r \in {"none", "singleNode", "notMigratable"},
             MigrationSkipReason(a, r)
      PROVE  C!MigrationSkipReason(a, r)
  <2> USE <1>1 DEF MigrationSkipReason
  <2>1. pc = "migration" /\ result["migration"] = "none"
    BY DEF IInv, Fresh
  <2>2. C!OrAbort(a, IF r = "none" THEN "migrate" ELSE "snapshot")
    BY <2>1, Proceeding, Steps
  <2>3. C!Frame
    <3>1. result'["snapshot"] = result["snapshot"]
      BY <1>0 DEF Say, TypeOK, Checks
    <3>2. pc' # "create"
      BY DEF OrAbort
    <3> QED
      BY <2>1, <3>1, <3>2, Framing
  <2>4. IF a = "ok" /\ r # "none" THEN C!Say("migration", "skip") ELSE UNCHANGED C!repVars
    <3>1. CASE a = "ok" /\ r # "none"
      BY <1>0, <2>1, <3>1, Saying DEF Checks, Said, C!Say, C!Record, FieldOf
    <3>2. CASE ~(a = "ok" /\ r # "none")
      BY <3>2, Silence DEF C!repVars
    <3> QED
      BY <3>1, <3>2
  <2> QED
    BY <2>1, <2>2, <2>3, <2>4, Steps, Seeing DEF C!MigrationSkipReason, C!InTime
<1>2. ASSUME NEW a \in Answers, CreateMigration(a) PROVE C!CreateMigration(a)
  <2> USE <1>2 DEF CreateMigration
  <2>1. pc = "migrate" /\ vmim = "absent"
    BY DEF IInv, Fresh
  <2>2. C!Create("vmim", a)
    <3>1. Done(a) => \A x \in ObjectNames : Present(x)' <=> x = "vmim" \/ Present(x)
      BY DEF Present, storageVars
    <3>2. ~Done(a) => ClusterSeen' = ClusterSeen
      BY Unseen DEF storageVars
    <3> QED
      BY <2>1, <3>1, <3>2, Creating DEF Present, ObjectNames
  <2>3. C!OrAbort(a, "waitMigration")
    BY <2>1, Proceeding, Steps
  <2>4. (pc # "create")' = (pc # "create")
    BY <2>1 DEF OrAbort
  <2> QED
    BY <2>1, <2>2, <2>3, <2>4, Steps, Silence DEF C!CreateMigration, C!repVars, C!locVars
<1>3. ASSUME WaitForMigration PROVE C!WaitForMigration
  <2>1. pc = "waitMigration" /\ result["migration"] = "none"
    BY <1>3 DEF IInv, Fresh, WaitForMigration
  <2>2. C!Poll(FieldOf("migration"), running, StepOf("createSnapshot"))
    BY <1>0, <1>3, <2>1, Polling DEF WaitForMigration, Checks
  <2> QED
    BY <2>1, <2>2, Steps, Seeing DEF C!WaitForMigration, C!Exists, FieldOf, C!Poll
<1>4. ASSUME NEW a \in Answers, CreateSnapshot(a) PROVE C!CreateSnapshot(a)
  <2> USE <1>4 DEF CreateSnapshot
  <2>1. pc = "createSnapshot" /\ snapshot.phase = "absent"
    BY DEF IInv, Snapshotted, UpToSnapshot
  <2>2. C!Create("snapshot", a)
    <3>1. Done(a) => snapshot'.phase # "absent"
      BY <1>0 DEF TypeOK, SnapshotType
    <3>2. Done(a) => \A x \in ObjectNames : Present(x)' <=> x = "snapshot" \/ Present(x)
      BY <3>1 DEF Present, instanceVars
    <3>3. ~Done(a) => ClusterSeen' = ClusterSeen
      BY Unseen DEF instanceVars
    <3> QED
      BY <2>1, <3>2, <3>3, Creating DEF Present, ObjectNames
  <2>3. C!OrAbort(a, "waitSnapshot")
    BY <2>1, Proceeding, Steps
  <2>4. (pc # "create")' = (pc # "create")
    BY <2>1 DEF OrAbort
  <2> QED
    BY <1>0, <2>1, <2>2, <2>3, <2>4, Steps, Worldly, Silence
       DEF C!CreateSnapshot, C!InTime, C!repVars, C!locVars
<1>5. ASSUME WaitForSnapshot PROVE C!WaitForVMSnapshotReady
  <2> USE <1>5 DEF WaitForSnapshot
  <2>1. pc = "waitSnapshot" /\ pc' \in {"validateSnapshot", "restore"} /\ result["snapshot"] = "none"
    BY DEF IInv, Snapshotted, UpToValidation
  <2>2. C!Frame
    <3>1. result'["snapshot"] # "pass"
      BY <1>0, <2>1 DEF Say, TypeOK, Checks
    <3>2. input' = input /\ halted' = halted /\ ClusterSeen' = ClusterSeen
      BY Unseen DEF Unchanged, clusterVars, instanceVars, storageVars
    <3> QED
      BY <2>1, <3>1, <3>2 DEF C!Frame, C!cluVars, C!locVars
  <2>3. CASE pc' = "validateSnapshot"
    <3>1. snapshot.phase = "Succeeded" /\ UNCHANGED result
      BY <2>3
    <3>2. C!Goto("getSnapshot")
      BY <2>1, <2>3, GoingOn, Steps
    <3> QED
      BY <2>1, <2>2, <3>1, <3>2, Steps, Seeing, Silence
         DEF C!WaitForVMSnapshotReady, C!Exists, C!repVars
  <2>4. CASE Say("snapshot", "fail") /\ pc' = "restore"
    <3>1. C!Fail("snapshot")
      BY <1>0, <2>1, <2>4, Saying DEF Checks, Said, C!Fail, C!Record, FieldOf
    <3>2. C!Goto("restore")
      BY <2>1, <2>4, GoingOn, Steps
    <3> QED
      BY <2>1, <2>2, <3>1, <3>2, Steps DEF C!WaitForVMSnapshotReady
  <2> QED
    BY <2>3, <2>4
<1>6. ASSUME NEW a \in Reads, ValidateSnapshot(a)
      PROVE  \E valid \in BOOLEAN : C!ValidateVMSnapshot(a, valid)
  <2> USE <1>6 DEF ValidateSnapshot
  <2> DEFINE valid == snapshot.phase = "Succeeded" /\ snapshot.online
  <2>0. valid \in BOOLEAN
    BY <1>0 DEF TypeOK, SnapshotType
  <2>1. pc = "validateSnapshot" /\ pc' # "create" /\ result["snapshot"] = "none"
    BY DEF IInv, Snapshotted, UpToValidation, OrAbort
  <2>2. C!OrAbort(a, "restore")
    BY <2>1, Proceeding, Steps
  <2>3. input' = input /\ halted' = halted /\ ClusterSeen' = ClusterSeen
    BY Unseen DEF Unchanged, clusterVars, instanceVars, storageVars
  <2>4. result'["snapshot"] = "pass" <=> a = "ok" /\ valid
    BY <1>0, <2>1 DEF Say, TypeOK, Checks
  <2>5. IF a # "ok" THEN UNCHANGED C!repVars
        ELSE IF valid THEN C!Say("snapshot", "pass") ELSE C!Fail("snapshot")
    <3>1. CASE a # "ok"
      BY <3>1, Silence DEF C!repVars
    <3>2. CASE a = "ok" /\ valid
      <4>1. Say("snapshot", "pass")
        BY <3>2
      <4> HIDE DEF valid
      <4> QED
        BY <1>0, <2>1, <3>2, <4>1, Saying DEF Checks, Said, C!Say, C!Record, FieldOf
    <3>3. CASE a = "ok" /\ ~valid
      <4>1. Say("snapshot", "fail")
        BY <3>3
      <4> HIDE DEF valid
      <4> QED
        BY <1>0, <2>1, <3>3, <4>1, Saying DEF Checks, Said, C!Fail, C!Record, FieldOf
    <3> QED
      BY <3>1, <3>2, <3>3
  <2> HIDE DEF valid
  <2>6. C!ValidateVMSnapshot(a, valid)
    BY <2>1, <2>2, <2>3, <2>4, <2>5, Steps DEF C!ValidateVMSnapshot, C!InTime, C!cluVars
  <2> QED
    BY <2>0, <2>6
<1>7. ASSUME SkipRestore PROVE C!SkipRestore
  <2> USE <1>7 DEF SkipRestore
  <2>1. pc = "restore" /\ pc' = "end" /\ result["restore"] = "none" /\ result["snapshot"] # "pass"
    BY <1>0 DEF IInv, Stopped, TypeOK, Checks
  <2>2. C!Say("restore", "skip")
    BY <1>0, <2>1, Saying DEF Checks, Said, C!Say, C!Record, FieldOf
  <2>3. C!Goto("concurrent")
    BY <2>1, GoingOn, Steps
  <2>4. C!Frame
    <3>1. result'["snapshot"] = result["snapshot"]
      BY <1>0 DEF Say, TypeOK, Checks
    <3> QED
      BY <2>1, <3>1, Framing
  <2> QED
    BY <2>1, <2>2, <2>3, <2>4, Steps DEF C!SkipRestore, C!Skip
<1>8. ASSUME NEW a \in Answers, StopVM(a) PROVE C!StopVM(a)
  <2> USE <1>8 DEF StopVM
  <2>1. pc = "restore" /\ pc' # "create" /\ result["snapshot"] = "pass" /\ ~halted
    BY DEF IInv, Fresh, Restoring, OrAbort
  <2>2. C!OrAbort(a, "waitStop")
    BY <2>1, Proceeding, Steps
  <2>3. halted' = (a # "refused")
    BY <1>0, <2>1 DEF Done
  <2>4. ClusterSeen' = ClusterSeen
    BY Unseen DEF instanceVars, storageVars
  <2> QED
    BY <2>1, <2>2, <2>3, <2>4, Steps, Silence DEF C!StopVM, C!InTime, C!repVars, C!locVars
<1>9. ASSUME WaitForStop PROVE C!WaitForStop
  <2> USE <1>9 DEF WaitForStop
  <2>1. pc = "waitStop" /\ pc' # "create"
    OBVIOUS
  <2>2. C!Frame
    BY <2>1, Framing
  <2>3. CASE ~running /\ pc' = "createRestore"
    <3>1. C!Goto("createRestore")
      BY <2>1, <2>3, GoingOn, Steps
    <3> QED
      BY <2>1, <2>2, <2>3, <3>1, Steps, Seeing, Silence DEF C!WaitForStop, C!repVars
  <2>4. CASE pc' = "aborted"
    <3>1. C!Return("aborted")
      BY <2>4, Steps DEF C!Return
    <3> QED
      BY <2>1, <2>2, <3>1, Steps, Silence DEF C!WaitForStop, C!repVars
  <2> QED
    BY <2>3, <2>4
<1>10. ASSUME NEW a \in Answers, CreateRestore(a) PROVE C!CreateRestore(a)
  <2> USE <1>10 DEF CreateRestore
  <2>1. pc = "createRestore" /\ pc' # "create" /\ restore.phase = "absent"
    BY DEF IInv, Restored, OrAbort
  <2>2. C!Create("restore", a)
    <3>1. Done(a) => restore'.phase # "absent"
      BY <1>0 DEF TypeOK
    <3>2. Done(a) => \A x \in ObjectNames : Present(x)' <=> x = "restore" \/ Present(x)
      BY <3>1 DEF Present, instanceVars
    <3>3. ~Done(a) => ClusterSeen' = ClusterSeen
      BY Unseen DEF instanceVars
    <3> QED
      BY <2>1, <3>2, <3>3, Creating DEF Present, ObjectNames
  <2>3. C!OrAbort(a, "waitRestore")
    BY <2>1, Proceeding, Steps
  <2> QED
    BY <2>1, <2>2, <2>3, Steps, Silence DEF C!CreateRestore, C!InTime, C!repVars, C!locVars
<1>11. ASSUME WaitForRestore PROVE C!WaitForVMRestoreComplete
  <2> USE <1>11 DEF WaitForRestore
  <2>1. /\ pc = "waitRestore" /\ pc' \in {"validateRestore", "end"}
        /\ result["restore"] = "none"
    BY <1>0 DEF IInv, Stopped, TypeOK, Checks
  <2>2. C!Frame
    <3>1. result'["snapshot"] = result["snapshot"]
      BY <1>0 DEF Say, TypeOK, Checks
    <3> QED
      BY <2>1, <3>1, Framing
  <2>3. CASE pc' = "validateRestore"
    <3>1. restore.phase = "complete" /\ UNCHANGED result
      BY <2>3
    <3>2. C!Goto("getRestore")
      BY <2>1, <2>3, GoingOn, Steps
    <3> QED
      BY <2>1, <2>2, <3>1, <3>2, Steps, Seeing, Silence
         DEF C!WaitForVMRestoreComplete, C!Exists, C!repVars
  <2>4. CASE Say("restore", "fail") /\ pc' = "end"
    <3>1. C!Fail("restore")
      BY <1>0, <2>1, <2>4, Saying DEF Checks, Said, C!Fail, C!Record, FieldOf
    <3>2. C!Goto("concurrent")
      BY <2>1, <2>4, GoingOn, Steps
    <3> QED
      BY <2>1, <2>2, <3>1, <3>2, Steps DEF C!WaitForVMRestoreComplete
  <2> QED
    BY <2>3, <2>4
<1>12. ASSUME NEW a \in Reads, ValidateRestore(a)
       PROVE  \E valid \in BOOLEAN : C!ValidateVMRestore(a, valid)
  <2> USE <1>12 DEF ValidateRestore
  <2>0. AllRestored \in BOOLEAN
    BY DEF AllRestored
  <2>1. pc = "validateRestore" /\ pc' # "create" /\ result["restore"] = "none"
    BY <1>0 DEF IInv, Stopped, TypeOK, Checks, OrAbort
  <2>2. C!OrAbort(a, "concurrent")
    BY <2>1, Proceeding, Steps
  <2>3. C!Frame
    <3>1. result'["snapshot"] = result["snapshot"]
      BY <1>0 DEF Say, TypeOK, Checks
    <3> QED
      BY <2>1, <3>1, Framing
  <2>4. IF a # "ok" THEN UNCHANGED C!repVars
        ELSE IF AllRestored THEN C!Say("restore", "pass") ELSE C!Fail("restore")
    <3>1. CASE a # "ok"
      BY <3>1, Silence DEF C!repVars
    <3>2. CASE a = "ok" /\ AllRestored
      BY <1>0, <2>1, <3>2, Saying DEF Checks, Said, C!Say, C!Record, FieldOf
    <3>3. CASE a = "ok" /\ ~AllRestored
      BY <1>0, <2>1, <3>3, Saying DEF Checks, Said, C!Fail, C!Record, FieldOf
    <3> QED
      BY <3>1, <3>2, <3>3
  <2>5. C!ValidateVMRestore(a, AllRestored)
    BY <2>1, <2>2, <2>3, <2>4, Steps DEF C!ValidateVMRestore, C!InTime
  <2> QED
    BY <2>0, <2>5
<1> QED
  <2>1. \A a : (a \in Answers => a \in C!Answers) /\ (a \in Reads => a \in C!Reads)
    BY DEF Answers, C!Answers, Reads, C!Reads
  <2>2. C!VMChecks \/ C!SnapshotChecks \/ C!Polls => C!Next
    BY DEF C!Next, C!Run, C!Requests
  <2>3. ASSUME NEW a \in Answers,
               CreateMigration(a) \/ CreateSnapshot(a) \/ StopVM(a) \/ CreateRestore(a)
        PROVE  C!Next
    BY <1>2, <1>4, <1>8, <1>10, <2>1, <2>2, <2>3 DEF C!VMChecks, C!SnapshotChecks
  <2>4. ASSUME NEW a \in Reads, ValidateSnapshot(a) \/ ValidateRestore(a) PROVE C!Next
    BY <1>6, <1>12, <2>1, <2>2, <2>4 DEF C!SnapshotChecks
  <2>5. ASSUME NEW a \in Reads, NEW r \in {"none", "singleNode", "notMigratable"},
               MigrationSkipReason(a, r)
        PROVE  C!Next
    BY <1>1, <2>1, <2>2, <2>5 DEF C!VMChecks
  <2>6. CASE WaitForMigration \/ WaitForSnapshot \/ SkipRestore \/ WaitForStop \/ WaitForRestore
    BY <1>3, <1>5, <1>7, <1>9, <1>11, <2>2, <2>6 DEF C!SnapshotChecks, C!Polls
  <2> QED
    BY <2>3, <2>4, <2>5, <2>6 DEF LaterChecks

(* KubeVirt starts and ends the instance there as here; what else happens  *)
(* in the cluster Checkup does not see.                                    *)
LEMMA EnvironmentSteps == ASSUME IInv, Environment PROVE [C!Next]_(C!vars)
<1> DEFINE Still == UNCHANGED <<input, halted, pc, result>>
<1>1. ASSUME Still PROVE C!EnvFrame /\ UNCHANGED halted
  BY <1>1, Silence
     DEF C!EnvFrame, C!checkVars, C!ctlVars, C!repVars, C!locVars
<1>2. ASSUME Still, ClusterSeen' = ClusterSeen PROVE UNCHANGED C!vars
  BY <1>1, <1>2
     DEF C!EnvFrame, C!checkVars, C!vars, C!cluVars, C!ctlVars, C!repVars, C!locVars
<1>3. ASSUME StartVMI PROVE C!StartVMI
  <2> USE <1>3 DEF StartVMI, Kubevirt
  <2>1. \A x \in ObjectNames : Present(x)' <=> x = "vmi" \/ Present(x)
    BY DEF Present, storageVars
  <2>2. ClusterSeen' = [ClusterSeen EXCEPT !["vmi"] = "ours"]
    BY <2>1 DEF ClusterSeen, ObjectNames
  <2> QED
    BY <1>1, <2>2, Seeing DEF C!StartVMI
<1>4. ASSUME NoInstance, Still, UNCHANGED <<vm, hotplugDV, vmim, snapshot, restore>> PROVE C!EndVMI
  <2> USE <1>4 DEF NoInstance
  <2>1. \A x \in ObjectNames : Present(x)' <=> x # "vmi" /\ Present(x)
    BY DEF Present
  <2>2. ClusterSeen' = [ClusterSeen EXCEPT !["vmi"] = "absent"]
    BY <2>1 DEF ClusterSeen, ObjectNames
  <2> QED
    BY <1>1, <2>2, Seeing DEF C!EndVMI
<1>5. CASE StopVMI \/ Crash
  <2>1. C!EndVMI
    BY <1>4, <1>5 DEF StopVMI, Crash, Kubevirt, storageVars
  <2> QED
    BY <2>1 DEF C!Env, C!Next
<1>6. ASSUME NEW v \in {Hotplug, Extra}, Attach(v) \/ MakeReady(v) \/ BeginDetach(v) \/ Detach(v)
      PROVE  UNCHANGED C!vars
  BY <1>2, <1>6, Unseen DEF Attach, MakeReady, BeginDetach, Detach, Kubevirt, storageVars
<1>7. ASSUME BeginMigration \/ Evacuate \/ \E how \in {"done", "failed"} : EndMigration(how)
      PROVE  UNCHANGED C!vars
  BY <1>2, <1>7, Unseen DEF BeginMigration, Evacuate, EndMigration, Kubevirt, storageVars
<1>8. ASSUME CompleteRestore PROVE UNCHANGED C!vars
  BY <1>2, <1>8, Unseen DEF CompleteRestore, Kubevirt, instanceVars
<1>9. ASSUME LoseSnapshot \/ \E without \in SUBSET Own : TakeSnapshot(without)
      PROVE  UNCHANGED C!vars
  <2>1. snapshot.phase # "absent" /\ snapshot'.phase # "absent"
    BY <1>9 DEF IInv, TypeOK, SnapshotType, LoseSnapshot, TakeSnapshot
  <2> QED
    BY <1>2, <1>9, <2>1, Unseen DEF LoseSnapshot, TakeSnapshot, Kubevirt, instanceVars
<1>10. ASSUME NEW wants \in BOOLEAN, UserEdits(wants) PROVE UNCHANGED C!vars
  <2>1. vm # {} /\ vm' # {}
    BY <1>10, OwnVolumes DEF IInv, Patching, UserEdits
  <2> QED
    BY <1>2, <1>10, <2>1, Unseen DEF UserEdits, instanceVars, storageVars
<1> QED
  BY <1>3, <1>5, <1>6, <1>7, <1>8, <1>9, <1>10 DEF Environment, C!Env, C!Next

(* What VMUnderTest does step by step to the VM is what Checkup, which the *)
(* launcher's view and the whole program rest on, says of it: no request,  *)
(* poll or verdict of the detailed checks is missing there, whatever users,*)
(* guests and nodes do.                                                    *)
THEOREM ChecksFollowCheckup == Spec => FollowsCheckup
<1>1. ASSUME IInv, [Next]_vars PROVE [C!Next]_(C!vars)
  <2>1. CASE UNCHANGED vars
    <3>1. ClusterSeen' = ClusterSeen
      BY <2>1, Unseen DEF vars, clusterVars, instanceVars, storageVars
    <3>2. UNCHANGED <<input, halted, pc, result>>
      BY <2>1 DEF vars, clusterVars
    <3> QED
      BY <3>1, <3>2, Silence
         DEF C!vars, C!cluVars, C!ctlVars, C!repVars, C!locVars
  <2> QED
    BY <1>1, <2>1, BootSteps, HotplugSteps, LaterSteps, EnvironmentSteps DEF Next
<1> QED
  BY <1>1, Inductive, PTL DEF Spec, FollowsCheckup
===============================================================================
