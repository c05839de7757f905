---------------------------- MODULE GoldenImages ----------------------------
(***************************************************************************)
(* The choice of the golden image that the VMs are cloned from:            *)
(* checkGoldenImages and the functions below it in                         *)
(* src/pkg/internal/checkup/checkup.go. DataImportCrons are scanned        *)
(* namespace by namespace, the well-known one first, newest import first;  *)
(* one PVC and one snapshot are kept, and the crons that are out of date   *)
(* or have no data source are reported.                                    *)
(***************************************************************************)
EXTENDS Naturals

CONSTANTS
    Crons,          \* DataImportCrons of the cluster
    Classes,        \* storage classes
    None,           \* no image, no class
    MaxTime         \* bound on the import times

ASSUME NoneAssumption == None \notin Crons /\ None \notin Classes
ASSUME TimeAssumption == MaxTime \in Nat

VARIABLES
    cron,           \* what each DataImportCron is
    smart,          \* goldenImageScs: classes with smart clone and RWX
    default,        \* results.DefaultStorageClass, None if that is an error text
    configured,     \* spec.param.storageClass
    ns,             \* the namespace being scanned
    todo,           \* its crons that are still to be looked at
    scanned,        \* the namespaces that were listed
    pvc, snap,      \* goldenImagePvc, goldenImageSnap
    fallbackDefault, fallback,      \* the two fallback PVCs
    notReady, noDataSource,         \* crons to report
    pc

envVars  == <<cron, smart, default, configured>>
imgVars  == <<pvc, snap, fallbackDefault, fallback>>
repVars  == <<notReady, noDataSource>>
vars     == <<envVars, ns, todo, scanned, imgVars, repVars, pc>>

Namespaces == {"well-known", "other"}

(* time 0: never imported (LastImportTimestamp is nil); class None: the    *)
(* PVC has no storageClassName, or the source is not a PVC.                *)
CronType ==
    {c \in [ns : Namespaces, time : 0..MaxTime,
            source : {"outdated", "missing", "snapshot", "pvc"}, class : Classes \cup {None}] :
        c.source # "pvc" => c.class = None}

PVCs == {c \in Crons : cron[c].source = "pvc"}

Class(c) == cron[c].class

TypeOK ==
    /\ cron \in [Crons -> CronType]
    /\ smart \in SUBSET Classes
    /\ default \in Classes \cup {None}
    /\ configured \in Classes \cup {None}
    /\ ns \in Namespaces \cup {"end"}
    /\ todo \in SUBSET Crons
    /\ scanned \in SUBSET Namespaces
    /\ \A i \in {pvc, fallbackDefault, fallback} : i \in PVCs \cup {None}
    /\ snap \in Crons \cup {None}
    /\ notReady \in SUBSET Crons /\ noDataSource \in SUBSET Crons
    /\ pc \in {"list", "scan", "select", "done", "aborted", "panic"}

Init ==
    /\ cron \in [Crons -> CronType]
    /\ smart \in SUBSET Classes
    /\ default \in Classes \cup {None}
    /\ configured \in Classes \cup {None}
    /\ ns = "well-known"
    /\ todo = {} /\ scanned = {}
    /\ pvc = None /\ snap = None /\ fallbackDefault = None /\ fallback = None
    /\ notReady = {} /\ noDataSource = {}
    /\ pc = "list"

-----------------------------------------------------------------------------
NextNamespace == IF ns = "well-known" THEN "other" ELSE "end"

List ==
    /\ pc = "list"
    /\ todo' = {c \in Crons : cron[c].ns = ns}
    /\ scanned' = scanned \cup {ns}
    /\ pc' = "scan"
    /\ UNCHANGED <<envVars, ns, imgVars, repVars>>

(* If the well-known namespace cannot be read, its images are passed over. *)
PassOver ==
    /\ pc = "list" /\ ns = "well-known"
    /\ ns' = "other"
    /\ UNCHANGED <<envVars, todo, scanned, imgVars, repVars, pc>>

(* The order of sort.Slice, which may put equals in any order.             *)
Newest(c) == \A d \in todo : cron[c].time >= cron[d].time

Take(c) ==
    c \in todo /\ Newest(c) /\ todo' = todo \ {c}

(* The DataImportCron is not up to date or its data source is not ready.   *)
Outdated(c) ==
    /\ pc = "scan"
    /\ cron[c].source = "outdated"
    /\ Take(c)
    /\ notReady' = notReady \cup {c}
    /\ UNCHANGED <<envVars, ns, scanned, imgVars, noDataSource, pc>>

(* Bug: the scan of the namespace stops.                                   *)
BugMissing(c) ==
    /\ pc = "scan"
    /\ cron[c].source = "missing"
    /\ c \in todo /\ Newest(c) /\ todo' = {}
    /\ noDataSource' = noDataSource \cup {c}
    /\ UNCHANGED <<envVars, ns, scanned, imgVars, notReady, pc>>

(* The data source is ready but names neither a PVC nor a snapshot.        *)
Missing(c) ==
    /\ pc = "scan"
    /\ cron[c].source = "missing"
    /\ Take(c)
    /\ noDataSource' = noDataSource \cup {c}
    /\ UNCHANGED <<envVars, ns, scanned, imgVars, notReady, pc>>

(* Bug: every snapshot is also kept as if it were the PVC.                 *)
BugSnapshot(c) ==
    /\ pc = "scan"
    /\ cron[c].source = "snapshot"
    /\ Take(c)
    /\ snap' = IF snap = None THEN c ELSE snap
    /\ fallback' = c
    /\ UNCHANGED <<envVars, ns, scanned, pvc, fallbackDefault, repVars, pc>>

(* updateGoldenImageSnapshot keeps the first.                              *)
Snapshot(c) ==
    /\ pc = "scan"
    /\ cron[c].source = "snapshot"
    /\ Take(c)
    /\ snap' = IF snap = None THEN c ELSE snap
    /\ UNCHANGED <<envVars, ns, scanned, pvc, fallbackDefault, fallback, repVars, pc>>

Preferred(class) == class # None /\ class \in {default, configured}

(* Bug: the first usable PVC is kept, preferred or not.                    *)
BugKeeps(p) == p # None

(* A PVC of the default or the configured class is kept once found.        *)
Keeps(p) == p # None /\ Preferred(Class(p))

IsDefault(class) == class = None \/ class = default

(* updateGoldenImagePvc.                                                   *)
Pvc(c) ==
    /\ pc = "scan"
    /\ c \in PVCs
    /\ Take(c)
    /\ IF Keeps(pvc)
       THEN UNCHANGED imgVars
       ELSE /\ pvc' = IF Class(c) \in smart THEN c ELSE pvc
            /\ fallbackDefault' =
                 IF Class(c) \notin smart /\ fallbackDefault = None /\ IsDefault(Class(c))
                 THEN c ELSE fallbackDefault
            /\ fallback' =
                 IF /\ Class(c) \notin smart /\ fallback = None
                    /\ ~(fallbackDefault = None /\ IsDefault(Class(c)))
                 THEN c ELSE fallback
            /\ UNCHANGED snap
    /\ UNCHANGED <<envVars, ns, scanned, repVars, pc>>

EndOfNamespace ==
    /\ pc = "scan" /\ todo = {}
    /\ ns' = NextNamespace
    /\ pc' = IF NextNamespace = "end" THEN "select" ELSE "list"
    /\ UNCHANGED <<envVars, todo, scanned, imgVars, repVars>>

(* The list, or the Get of a data source or an image, fails.               *)
Abort ==
    /\ pc \in {"list", "scan"}
    /\ pc' = "aborted"
    /\ UNCHANGED <<envVars, ns, todo, scanned, imgVars, repVars>>

Fallback == IF fallbackDefault # None THEN fallbackDefault ELSE fallback

(* The choice is logged with *StorageClassName, which crashes on nil:      *)
(* updateGoldenImagePvc tests for nil, its caller does not.                *)
Select ==
    /\ pc = "select"
    /\ pvc' = IF pvc = None THEN Fallback ELSE pvc
    /\ pc' = IF pvc' # None /\ Class(pvc') = None THEN "panic" ELSE "done"
    /\ UNCHANGED <<envVars, ns, todo, scanned, snap, fallbackDefault, fallback, repVars>>

Next ==
    \/ List \/ PassOver \/ EndOfNamespace \/ Abort \/ Select
    \/ \E c \in Crons : Outdated(c) \/ Missing(c) \/ Snapshot(c) \/ Pvc(c)

Spec == Init /\ [][Next]_vars

-----------------------------------------------------------------------------
Seen == {c \in Crons : cron[c].ns \in scanned}

SmartPVCs == {c \in PVCs \cap Seen : Class(c) \in smart}

(* c is at least as new as the others of its namespace, and no other       *)
(* namespace scanned before has one.                                       *)
First(c, set) ==
    \A d \in set :
        /\ cron[d].ns = cron[c].ns => cron[c].time >= cron[d].time
        /\ cron[c].ns = "other" => cron[d].ns = "other"

Ended == pc \in {"done", "panic"}

(* The PVC chosen is the best there is, by definition and not by the order *)
(* of the scan: the newest of the default or configured class with smart   *)
(* clone, else any with smart clone, else the newest of the default class  *)
(* (or none), else any; and there is none only if there is no PVC at all.  *)
(* The snapshot kept is the newest, well-known namespace first.            *)
ChoiceIsBest ==
    Ended =>
        LET snapshots == {c \in Seen : cron[c].source = "snapshot"}
            preferred == {c \in SmartPVCs : Preferred(Class(c))}
            defaults  == {c \in PVCs \cap Seen : IsDefault(Class(c))}
        IN  /\ IF snapshots = {} THEN snap = None ELSE snap \in snapshots /\ First(snap, snapshots)
            /\ IF preferred # {} THEN pvc \in preferred /\ First(pvc, preferred)
               ELSE IF SmartPVCs # {} THEN pvc \in SmartPVCs
               ELSE IF defaults # {} THEN pvc \in defaults /\ First(pvc, defaults)
               ELSE IF PVCs \cap Seen # {} THEN pvc \in PVCs \cap Seen /\ First(pvc, PVCs \cap Seen)
               ELSE pvc = None

(* The crons reported are exactly those out of date and those without a    *)
(* data source: no error of one cron hides another.                        *)
ReportIsExact ==
    Ended => /\ notReady = {c \in Seen : cron[c].source = "outdated"}
             /\ noDataSource = {c \in Seen : cron[c].source = "missing"}
=============================================================================
