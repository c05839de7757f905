------------------------------ MODULE VMIAudit ------------------------------
(***************************************************************************)
(* The audit of the running VMs of the cluster: checkVMIs and the functions*)
(* below it in src/pkg/internal/checkup/checkup.go. It looks for the       *)
(* storage class meant for VMs and for an EFS class without uid and gid,   *)
(* then goes through the volumes of every running VM while their owners go *)
(* on using, and deleting, them.                                           *)
(***************************************************************************)
EXTENDS ListScan

CONSTANTS
    VMs,                \* the VM instances of the cluster
    NoVM,
    NumNamespaces,      \* number of namespaces
    ProvisionedLists,   \* the lists of storage classes to start from
    VolumeLists         \* the lists of volumes a VM may have

(* name: the suffix of the class made for VMs. virt: its provisioner and   *)
(* parameters. unset: an EFS class without uid or gid.                     *)
ProvisionedClass == [name : BOOLEAN, virt : BOOLEAN, unset : BOOLEAN]

(* claim: the volume is a PVC or a DataVolume; driver and class are those  *)
(* of its PersistentVolume, a class by its place in the list, 0 for others.*)
VolumeType == [claim : BOOLEAN, driver : {"rbd", "efs", "other"}, class : Nat]

ASSUME NoVMAssumption == NoVM \notin VMs
ASSUME NamespacesAssumption == NumNamespaces \in Nat \ {0}
ASSUME AuditListsAssumption ==
    ProvisionedLists \subseteq Seq(ProvisionedClass) /\ VolumeLists \subseteq Seq(VolumeType)

VARIABLES
    volumes,                \* the volumes of each VM that was listed
    gone,                   \* the VMs that were deleted since, with their volumes
    refused,                \* history: a request was refused
    virtSC, unsetEfsSC,     \* the two classes, 0 if there is none
    namespace, waiting,     \* the namespace, and its VMs that are still to be looked at
    listed,                 \* history: all VMs that were found running
    current, marks,         \* the VM being looked at, and what was found so far
    nonVirt, unsetEfs       \* the VMs to report

listVars  == <<classes, volumes>>
classVars == <<virtSC, unsetEfsSC>>
scanVars  == <<namespace, waiting, listed, current, marks, nonVirt, unsetEfs>>
auditVars == <<listVars, gone, refused, step, i, classVars, scanVars>>

AuditTypeOK ==
    /\ classes \in ProvisionedLists
    /\ volumes \in [VMs -> VolumeLists \cup {<<>>}]
    /\ gone \subseteq VMs /\ refused \in BOOLEAN
    /\ step \in {"byName", "byParameters", "efs", "list", "vms", "volumes", "done", "aborted"}
    /\ i \in Nat
    /\ {virtSC, unsetEfsSC} \subseteq {0} \cup DOMAIN classes
    /\ namespace \in 1..NumNamespaces
    /\ waiting \subseteq listed /\ listed \subseteq VMs
    /\ current \in VMs \cup {NoVM}
    /\ marks \subseteq {"nonVirt", "unsetEfs"}
    /\ nonVirt \subseteq listed /\ unsetEfs \subseteq listed

AuditInit ==
    /\ classes \in ProvisionedLists
    /\ volumes = [v \in VMs |-> <<>>]
    /\ gone = {} /\ refused = FALSE
    /\ step = "byName" /\ i = 1
    /\ virtSC = 0 /\ unsetEfsSC = 0
    /\ namespace = 1 /\ waiting = {} /\ listed = {} /\ current = NoVM /\ marks = {}
    /\ nonVirt = {} /\ unsetEfs = {}
-----------------------------------------------------------------------------
AuditAborts == Goto("aborted") /\ UNCHANGED <<listVars, gone, classVars, scanVars>>

(* A class with the name is taken if it has the parameters; any class with *)
(* the name that comes after it is one too many.                           *)
ByName ==
    /\ step = "byName"
    /\ i \in DOMAIN classes
    /\ classes[i].name => virtSC = 0
    /\ virtSC' = IF classes[i].name /\ classes[i].virt THEN i ELSE virtSC
    /\ i' = i + 1
    /\ UNCHANGED <<listVars, gone, refused, step, unsetEfsSC, scanVars>>

NoneByName ==
    /\ step = "byName" /\ i \notin DOMAIN classes
    /\ Goto(IF virtSC # 0 THEN "efs" ELSE "byParameters")
    /\ UNCHANGED <<listVars, gone, refused, classVars, scanVars>>

ByParameters ==
    /\ step = "byParameters"
    /\ i \in DOMAIN classes
    /\ classes[i].virt => virtSC = 0
    /\ virtSC' = IF classes[i].virt THEN i ELSE virtSC
    /\ i' = i + 1
    /\ UNCHANGED <<listVars, gone, refused, step, unsetEfsSC, scanVars>>

NoneByParameters ==
    /\ step = "byParameters" /\ i \notin DOMAIN classes
    /\ Goto("efs")
    /\ UNCHANGED <<listVars, gone, refused, classVars, scanVars>>

Efs ==
    /\ step = "efs"
    /\ i \in DOMAIN classes
    /\ classes[i].unset => unsetEfsSC = 0
    /\ unsetEfsSC' = IF classes[i].unset THEN i ELSE unsetEfsSC
    /\ i' = i + 1
    /\ UNCHANGED <<listVars, gone, refused, step, virtSC, scanVars>>

(* Without either class no VM is looked at.                                *)
EndOfClasses ==
    /\ step = "efs" /\ i \notin DOMAIN classes
    /\ Goto(IF virtSC = 0 /\ unsetEfsSC = 0 THEN "done" ELSE "list")
    /\ UNCHANGED <<listVars, gone, refused, classVars, scanVars>>

(* Bug: the EFS class is compared with the class for VMs.                  *)
BugAmbiguous ==
    /\ i \in DOMAIN classes
    /\ \/ step = "byName" /\ virtSC # 0 /\ classes[i].name
       \/ step = "byParameters" /\ virtSC # 0 /\ classes[i].virt
       \/ step = "efs" /\ virtSC # 0 /\ classes[i].unset
    /\ AuditAborts
    /\ UNCHANGED refused

(* The turn of a loop that finds one class too many.                       *)
Ambiguous ==
    /\ i \in DOMAIN classes
    /\ \/ step = "byName" /\ virtSC # 0 /\ classes[i].name
       \/ step = "byParameters" /\ virtSC # 0 /\ classes[i].virt
       \/ step = "efs" /\ unsetEfsSC # 0 /\ classes[i].unset
    /\ AuditAborts
    /\ UNCHANGED refused
-----------------------------------------------------------------------------
(* The VMs of the namespace that run at the time of the list, which are    *)
(* not known before.                                                       *)
ListVMIs(found) ==
    /\ step = "list"
    /\ waiting' = found
    /\ \E lists \in [found -> VolumeLists] :
           volumes' = [v \in VMs |-> IF v \in found THEN lists[v] ELSE volumes[v]]
    /\ listed' = listed \cup found
    /\ Goto("vms")
    /\ UNCHANGED <<classes, gone, refused, classVars, namespace, current, marks,
                   nonVirt, unsetEfs>>

(* Bug: what was found for the VM before is kept.                          *)
BugTakeVM(v) ==
    /\ step = "vms" /\ v \in waiting
    /\ waiting' = waiting \ {v}
    /\ current' = v
    /\ Goto("volumes")
    /\ UNCHANGED <<listVars, gone, refused, classVars, namespace, listed, marks,
                   nonVirt, unsetEfs>>

TakeVM(v) ==
    /\ step = "vms" /\ v \in waiting
    /\ waiting' = waiting \ {v}
    /\ current' = v /\ marks' = {}
    /\ Goto("volumes")
    /\ UNCHANGED <<listVars, gone, refused, classVars, namespace, listed, nonVirt, unsetEfs>>

(* What a PersistentVolume shows of its VM.                                *)
Found(volume) ==
    {m \in {"nonVirt", "unsetEfs"} :
        \/ m = "nonVirt"  /\ virtSC # 0 /\ volume.driver = "rbd" /\ volume.class # virtSC
        \/ m = "unsetEfs" /\ unsetEfsSC # 0 /\ volume.driver = "efs" /\ volume.class = unsetEfsSC}

Volume == volumes[current][i]

(* The PVC and its PersistentVolume are read.                              *)
ReadVolume ==
    /\ step = "volumes" /\ i \in DOMAIN volumes[current]
    /\ Volume.claim /\ current \notin gone
    /\ marks' = marks \cup Found(Volume)
    /\ i' = i + 1
    /\ UNCHANGED <<listVars, gone, refused, step, classVars, namespace, waiting, listed, current,
                   nonVirt, unsetEfs>>

Noted(set, mark) == IF mark \in marks THEN set \cup {current} ELSE set

(* The VM is judged by the volumes up to the first that is not a claim.    *)
Judge ==
    /\ step = "volumes"
    /\ i \in DOMAIN volumes[current] => ~Volume.claim
    /\ nonVirt' = Noted(nonVirt, "nonVirt")
    /\ unsetEfs' = Noted(unsetEfs, "unsetEfs")
    /\ current' = NoVM
    /\ Goto("vms")
    /\ UNCHANGED <<listVars, gone, refused, classVars, namespace, waiting, listed, marks>>

(* Bug: one namespace more than there are.                                 *)
BugEndOfVMs ==
    /\ step = "vms" /\ waiting = {}
    /\ IF namespace <= NumNamespaces
       THEN namespace' = namespace + 1 /\ Goto("list")
       ELSE UNCHANGED namespace /\ Goto("done")
    /\ UNCHANGED <<listVars, gone, refused, classVars, waiting, listed, current, marks,
                   nonVirt, unsetEfs>>

EndOfVMs ==
    /\ step = "vms" /\ waiting = {}
    /\ IF namespace < NumNamespaces
       THEN namespace' = namespace + 1 /\ Goto("list")
       ELSE UNCHANGED namespace /\ Goto("done")
    /\ UNCHANGED <<listVars, gone, refused, classVars, waiting, listed, current, marks,
                   nonVirt, unsetEfs>>

(* A PVC or PersistentVolume that is gone since the VM was listed.         *)
NotFound ==
    /\ step = "volumes" /\ i \in DOMAIN volumes[current]
    /\ Volume.claim /\ current \in gone
    /\ AuditAborts
    /\ UNCHANGED refused

(* The list, a PVC or a PersistentVolume cannot be read.                   *)
Refused ==
    /\ step = "list" \/ (step = "volumes" /\ i \in DOMAIN volumes[current] /\ Volume.claim)
    /\ AuditAborts
    /\ refused' = TRUE

(* An owner deletes a VM, and its volumes with it.                         *)
DeleteVM(v) ==
    /\ v \in listed \ gone
    /\ gone' = gone \cup {v}
    /\ UNCHANGED <<listVars, refused, step, i, classVars, scanVars>>

FindClasses ==
    ByName \/ NoneByName \/ ByParameters \/ NoneByParameters \/ Efs \/ EndOfClasses \/ Ambiguous

Audit ==
    \/ \E found \in SUBSET (VMs \ listed) : ListVMIs(found)
    \/ (\E v \in VMs : TakeVM(v)) \/ ReadVolume \/ Judge \/ EndOfVMs
    \/ NotFound \/ Refused

AuditNext == FindClasses \/ Audit \/ (\E v \in VMs : DeleteVM(v))

AuditSpec == AuditInit /\ [][AuditNext]_auditVars
-----------------------------------------------------------------------------
Named   == {c \in DOMAIN classes : classes[c].name}
Virtual == {c \in DOMAIN classes : classes[c].virt}
Unset   == {c \in DOMAIN classes : classes[c].unset}

(* The audit ends Run only for a reason that is outside of it: classes     *)
(* that cannot be told apart, a request that was refused, or a VM that was *)
(* deleted after it was listed. Two classes with the name, one of them     *)
(* without the parameters, may or may not be a reason: it depends on their *)
(* order.                                                                  *)
AbortIsExplained ==
    step = "aborted" =>
        ~AtMostOne(Named) \/ ~AtMostOne(Virtual) \/ ~AtMostOne(Unset)
        \/ gone \cap listed # {} \/ refused

(* The class that VMs should use: the one with both the name and the       *)
(* parameters, or, if none has both, the one with the parameters.          *)
Meant == IF Named \cap Virtual # {} THEN Named \cap Virtual ELSE Virtual

AtFault(volume, mark) ==
    /\ volume.claim
    /\ CASE mark = "nonVirt"  -> volume.driver = "rbd" /\ Meant # {} /\ volume.class \notin Meant
         [] mark = "unsetEfs" -> volume.driver = "efs" /\ volume.class \in Unset

Culprits(mark) == {v \in listed : \E k \in DOMAIN volumes[v] : AtFault(volumes[v][k], mark)}

OnlyClaims == {v \in VMs : \A k \in DOMAIN volumes[v] : volumes[v][k].claim}

(* A VM is reported only for a volume of its own that is not of the class  *)
(* meant for VMs, or of the EFS class, as they are found in a list of any  *)
(* order; one whose volumes are all claims is never missed, whatever was   *)
(* read of the VMs before it. With a volume that is no claim, a VM may be  *)
(* missed.                                                                 *)
AuditIsExact ==
    step = "done" =>
        /\ nonVirt \subseteq Culprits("nonVirt") /\ unsetEfs \subseteq Culprits("unsetEfs")
        /\ Culprits("nonVirt") \cap OnlyClaims \subseteq nonVirt
        /\ Culprits("unsetEfs") \cap OnlyClaims \subseteq unsetEfs
=============================================================================
