---------------------------- MODULE StorageSurvey ----------------------------
(***************************************************************************)
(* The checks of src/pkg/internal/checkup/checkup.go that read the storage *)
(* of the cluster: checkDefaultStorageClass over the list of storage       *)
(* classes, checkStorageProfiles and checkVolumeSnapShotClasses over the   *)
(* list of storage profiles, item by item and in the order of the lists.   *)
(* Their results choose the class that the test volumes are created in and *)
(* the classes that golden images are preferred in.                        *)
(***************************************************************************)
EXTENDS ListScan

CONSTANTS
    Provisioners,
    Unsupported,    \* the provisioners of UnsupportedProvisioners
    NoProvisioner,
    AnnotatedLists, \* the lists of storage classes to start from
    ProfileLists    \* the lists of storage profiles to start from

AnnotatedClass == [virt : BOOLEAN, default : BOOLEAN]

(* sc: the profile names its storage class. strategy "unset": CloneStrategy*)
(* is nil. sets: the access modes of the ClaimPropertySets of its status.  *)
(* spec: the administrator has set ClaimPropertySets.                      *)
ProfileType ==
    [sc : BOOLEAN, provisioner : Provisioners \cup {NoProvisioner},
     strategy : {"unset", "copy", "snapshot", "csi-clone"},
     sets : SUBSET {"RWO", "RWX"}, spec : BOOLEAN]

ASSUME UnsupportedAssumption ==
    Unsupported \subseteq Provisioners /\ NoProvisioner \notin Provisioners
ASSUME SurveyListsAssumption ==
    AnnotatedLists \subseteq Seq(AnnotatedClass) /\ ProfileLists \subseteq Seq(ProfileType)

VARIABLES
    profiles,               \* the list of storage profiles, as the API server returns it
    snapshotDrivers,        \* drivers that have a VolumeSnapshotClass
    csiDrivers,             \* provisioners that have a CSIDriver object
    virtClass, k8sClass,    \* the first class with each annotation, 0 if there is none
    multiple,               \* multipleDefaultStorageClasses
    defaultStorageClass,    \* 0 if it is empty
    said,                   \* what results.DefaultStorageClass says
    preferred,              \* goldenImageScs, as profiles
    empty, spec, smartProfiles, rwx,    \* the profiles that each list of the report names
    missing,                \* the profiles reported without a VolumeSnapshotClass
    unread,                 \* history: profiles whose CSIDriver could not be read
    failed                  \* what was appended to errStr

clusterVars == <<classes, profiles, snapshotDrivers, csiDrivers>>
defaultVars == <<virtClass, k8sClass, multiple, defaultStorageClass, said>>
profileVars == <<preferred, empty, spec, smartProfiles, rwx, unread>>
surveyVars  == <<clusterVars, step, i, defaultVars, profileVars, missing, failed>>

Profiles == DOMAIN profiles

SurveyTypeOK ==
    /\ classes \in Seq(AnnotatedClass) /\ profiles \in Seq(ProfileType)
    /\ snapshotDrivers \subseteq Provisioners /\ csiDrivers \subseteq Provisioners
    /\ step \in {"classes", "default", "profiles", "scan", "snapshotClasses", "done", "aborted"}
    /\ i \in Nat
    /\ {virtClass, k8sClass, defaultStorageClass} \subseteq {0} \cup DOMAIN classes
    /\ multiple \in BOOLEAN
    /\ said \in {"nothing", "one", "none", "multiple"}
    /\ \A found \in {preferred, empty, spec, smartProfiles, rwx, missing, unread} :
           found \subseteq Profiles
    /\ failed \subseteq {"default", "empty"}

SurveyInit ==
    /\ classes \in AnnotatedLists /\ profiles \in ProfileLists
    /\ snapshotDrivers \in SUBSET (Provisioners \ Unsupported)
    /\ csiDrivers \in SUBSET (Provisioners \ Unsupported)
    /\ step = "classes" /\ i = 1
    /\ virtClass = 0 /\ k8sClass = 0 /\ defaultStorageClass = 0
    /\ multiple = FALSE /\ said = "nothing"
    /\ preferred = {} /\ empty = {} /\ spec = {} /\ smartProfiles = {} /\ rwx = {}
    /\ missing = {} /\ unread = {} /\ failed = {}
-----------------------------------------------------------------------------
(* A list that cannot be read ends Run.                                    *)
ListRefused(list) ==
    /\ step = list /\ Goto("aborted")
    /\ UNCHANGED <<clusterVars, defaultVars, profileVars, missing, failed>>

AddIf(set, test, p) == IF test THEN set \cup {p} ELSE set

ListStorageClasses ==
    /\ step = "classes" /\ Goto("default")
    /\ UNCHANGED <<clusterVars, defaultVars, profileVars, missing, failed>>

(* Bug: a second default class of either kind makes them multiple.         *)
BugScanClass ==
    /\ step = "default" /\ i \in DOMAIN classes
    /\ virtClass' = IF classes[i].virt /\ virtClass = 0 THEN i ELSE virtClass
    /\ k8sClass' = IF classes[i].default /\ k8sClass = 0 THEN i ELSE k8sClass
    /\ multiple' = (multiple \/ (classes[i].virt /\ virtClass # 0)
                             \/ (classes[i].default /\ k8sClass + virtClass # 0))
    /\ defaultStorageClass' = IF virtClass' # 0 THEN virtClass' ELSE k8sClass'
    /\ i' = i + 1
    /\ UNCHANGED <<clusterVars, step, said, profileVars, missing, failed>>

(* Bug: an index that counts from another base.                            *)
BugScanClassIndex ==
    /\ step = "default" /\ i \in DOMAIN classes
    /\ virtClass' = IF classes[i].virt /\ virtClass = 0 THEN i ELSE virtClass
    /\ defaultStorageClass' = IF virtClass' # virtClass THEN i + 1 ELSE defaultStorageClass
    /\ i' = i + 1
    /\ UNCHANGED <<clusterVars, step, k8sClass, multiple, said, profileVars, missing, failed>>

(* The class with the virtualization annotation wins, whatever the order.  *)
ScanClass ==
    /\ step = "default" /\ i \in DOMAIN classes
    /\ virtClass' = IF classes[i].virt /\ virtClass = 0 THEN i ELSE virtClass
    /\ k8sClass' = IF classes[i].default /\ k8sClass = 0 THEN i ELSE k8sClass
    /\ multiple' = (multiple \/ (classes[i].virt /\ virtClass # 0)
                             \/ (classes[i].default /\ k8sClass # 0))
    /\ defaultStorageClass' = IF virtClass' # virtClass \/ (k8sClass' # k8sClass /\ virtClass' = 0)
                  THEN i ELSE defaultStorageClass
    /\ i' = i + 1
    /\ UNCHANGED <<clusterVars, step, said, profileVars, missing, failed>>

ReportDefault ==
    /\ step = "default" /\ i \notin DOMAIN classes
    /\ said' = IF multiple THEN "multiple" ELSE IF defaultStorageClass # 0 THEN "one" ELSE "none"
    /\ failed' = AddIf(failed, said' # "one", "default")
    /\ Goto("profiles")
    /\ UNCHANGED <<clusterVars, virtClass, k8sClass, multiple, defaultStorageClass,
                   profileVars, missing>>
-----------------------------------------------------------------------------
(* The storage profiles and the VolumeSnapshotClasses are listed.          *)
ListStorageProfiles ==
    /\ step = "profiles" /\ Goto("scan")
    /\ UNCHANGED <<clusterVars, defaultVars, profileVars, missing, failed>>

Supported(p) == profiles[p].provisioner \notin Unsupported \cup {NoProvisioner}

HasDriver(p) == profiles[p].provisioner \in snapshotDrivers

SnapshotStrategy(p) == profiles[p].strategy \in {"unset", "snapshot"}

(* Bug: an unset strategy is taken for one that copies.                    *)
BugHasSmartClone(p, answer) ==
    \/ profiles[p].strategy = "csi-clone" /\ profiles[p].provisioner \in csiDrivers /\ answer = "ok"
    \/ profiles[p].strategy = "snapshot" /\ HasDriver(p)

(* Any error of GetCSIDriver, not only NotFound, means no smart clone.     *)
HasSmartClone(p, answer) ==
    \/ /\ profiles[p].strategy = "csi-clone"
       /\ profiles[p].provisioner \in csiDrivers
       /\ answer = "ok"
    \/ SnapshotStrategy(p) /\ HasDriver(p)

HasRWX(p) == "RWX" \in profiles[p].sets

PassOverProfile ==
    /\ step = "scan" /\ i \in Profiles
    /\ ~Supported(i)
    /\ i' = i + 1
    /\ UNCHANGED <<clusterVars, step, defaultVars, profileVars, missing, failed>>

ScanProfile(answer) ==
    /\ step = "scan" /\ i \in Profiles
    /\ Supported(i)
    /\ answer = "refused" => profiles[i].strategy = "csi-clone"
    /\ LET smartClone == HasSmartClone(i, answer) IN
       /\ preferred' = AddIf(preferred, smartClone /\ HasRWX(i) /\ profiles[i].sc, i)
       /\ empty' = AddIf(empty, profiles[i].sets = {}, i)
       /\ spec' = AddIf(spec, profiles[i].spec, i)
       /\ smartProfiles' = AddIf(smartProfiles, smartClone, i)
       /\ rwx' = AddIf(rwx, HasRWX(i), i)
       /\ unread' = AddIf(unread, answer = "refused", i)
    /\ i' = i + 1
    /\ UNCHANGED <<clusterVars, step, defaultVars, missing, failed>>

ReportProfiles ==
    /\ step = "scan" /\ i \notin Profiles
    /\ failed' = AddIf(failed, empty # {}, "empty")
    /\ Goto("snapshotClasses")
    /\ UNCHANGED <<clusterVars, defaultVars, profileVars, missing>>

(* checkVolumeSnapShotClasses goes through the same profiles again; what it*)
(* finds is reported and is no failure.                                    *)
ScanSnapshotClass ==
    /\ step = "snapshotClasses" /\ i \in Profiles
    /\ missing' = AddIf(missing, SnapshotStrategy(i) /\ Supported(i) /\ ~HasDriver(i), i)
    /\ i' = i + 1
    /\ UNCHANGED <<clusterVars, step, defaultVars, profileVars, failed>>

ReportSnapshotClasses ==
    /\ step = "snapshotClasses" /\ i \notin Profiles
    /\ Goto("done")
    /\ UNCHANGED <<clusterVars, defaultVars, profileVars, missing, failed>>

SurveyNext ==
    \/ ListRefused("classes") \/ ListStorageClasses \/ ScanClass \/ ReportDefault
    \/ ListRefused("profiles") \/ ListStorageProfiles \/ PassOverProfile
    \/ (\E answer \in {"ok", "refused"} : ScanProfile(answer)) \/ ReportProfiles
    \/ ScanSnapshotClass \/ ReportSnapshotClasses

SurveySpec == SurveyInit /\ [][SurveyNext]_surveyVars
-----------------------------------------------------------------------------
VirtDefaults == {c \in DOMAIN classes : classes[c].virt}
K8sDefaults  == {c \in DOMAIN classes : classes[c].default}

(* The default class does not depend on the order of the list: it is one   *)
(* with the annotation that counts. A class of each annotation is no       *)
(* ambiguity, two of the same annotation always are, even when the other   *)
(* annotation would decide; but then one of them is still used, so that    *)
(* the checks that are skipped without a class are skipped only if there   *)
(* is none.                                                                *)
DefaultIsDeterminate ==
    said # "nothing" =>
        LET best == IF VirtDefaults # {} THEN VirtDefaults ELSE K8sDefaults IN
        /\ said = "none" <=> best = {}
        /\ said = "multiple" <=> ~(AtMostOne(VirtDefaults) /\ AtMostOne(K8sDefaults))
        /\ IF best = {} THEN defaultStorageClass = 0 ELSE defaultStorageClass \in best

(* What a profile promises, read off the cluster.                          *)
CanCloneSmartly(p) ==
    CASE profiles[p].strategy = "copy"      -> FALSE
      [] profiles[p].strategy = "csi-clone" -> profiles[p].provisioner \in csiDrivers
      [] OTHER                              -> profiles[p].provisioner \in snapshotDrivers

(* Two checks written apart from each other agree on every profile they    *)
(* both judge: a supported one that clones by snapshots either can clone   *)
(* smartly or is reported to lack a VolumeSnapshotClass, and no other is.  *)
(* Golden images are preferred in a class only if it can clone smartly and *)
(* be shared; such a class is missed only if its CSI driver could not be   *)
(* read, an error that is not reported. An object storage provisioner,     *)
(* which never has claim property sets, does not fail the checkup.         *)
ProfilesAreJudgedAlike ==
    step = "done" =>
        LET judged == {p \in Profiles : Supported(p)}
            able   == {p \in judged : CanCloneSmartly(p)}
            best   == {p \in able : HasRWX(p) /\ profiles[p].sc}
        IN  /\ smartProfiles \subseteq able /\ able \ smartProfiles \subseteq unread
            /\ missing = {p \in judged : SnapshotStrategy(p)} \ smartProfiles
            /\ preferred \subseteq best /\ best \ preferred \subseteq unread
            /\ "empty" \in failed <=> \E p \in judged : profiles[p].sets = {}
=============================================================================
