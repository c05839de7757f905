-------------------------- MODULE ReadingChecksProofs --------------------------
(***************************************************************************)
(* Proofs about the checks of Run that only read the cluster: GoldenImages,*)
(* StorageSurvey and VMIAudit. Each of them goes through lists item by     *)
(* item, and is correct because its variables summarise the items that it  *)
(* has gone past: the invariants below say so of every item, in terms of   *)
(* the definitions that the properties are stated with.                    *)
(*                                                                         *)
(* The three modules have no name in common, but for what the two that     *)
(* start from the list of storage classes take from ListScan. A theorem is *)
(* about one of them and leaves the variables of the others free.          *)
(***************************************************************************)
EXTENDS GoldenImages, StorageSurvey, VMIAudit, TLAPS
-----------------------------------------------------------------------------
(* The choice of the golden image.                                         *)

(* The DataImportCrons that were looked at.                                *)
Looked == {c \in Crons : cron[c].ns \in scanned /\ c \notin todo}

LookedPVCs == PVCs \cap Looked

LookedSmart == {c \in LookedPVCs : Class(c) \in smart}

LookedPreferred == {c \in LookedSmart : Preferred(Class(c))}

LookedDefaults == {c \in LookedPVCs : IsDefault(Class(c))}

LookedSnapshots == {c \in Looked : cron[c].source = "snapshot"}

FirstOf(c, set) == IF set = {} THEN c = None ELSE c \in set /\ First(c, set)

(* Where the scan is: the crons that wait are of the namespace at hand and *)
(* none of them is newer than one of the same namespace that was looked at.*)
ScanPosition ==
    /\ pc \in {"list", "scan"} => ns # "end"
    /\ pc = "list" => ns \notin scanned
    /\ pc \in {"list", "scan"} /\ ns = "well-known" => "other" \notin scanned
    /\ pc = "scan" => ns \in scanned
    /\ pc # "scan" /\ pc # "aborted" => todo = {}
    /\ \A c \in todo :
           /\ cron[c].ns = ns
           /\ \A d \in Looked : cron[d].ns = ns => cron[d].time >= cron[c].time

(* The variables of the choice as functions of the crons that were looked  *)
(* at: the PVC is any with smart clone until one of a preferred class is   *)
(* found, and then the first of these; the fallbacks count as long as no   *)
(* PVC with smart clone was found.                                         *)
ChoiceSoFar ==
    /\ FirstOf(snap, LookedSnapshots)
    /\ pvc \in LookedSmart \/ (pvc = None /\ LookedSmart = {})
    /\ LookedPreferred # {} => FirstOf(pvc, LookedPreferred)
    /\ pvc = None =>
           /\ FirstOf(fallbackDefault, LookedDefaults)
           /\ LookedDefaults = {} => FirstOf(fallback, LookedPVCs)

(* What is to be reported of the crons that were looked at.                *)
ReportSoFar ==
    /\ notReady = {c \in Looked : cron[c].source = "outdated"}
    /\ noDataSource = {c \in Looked : cron[c].source = "missing"}

(* The inductive invariant of the golden images.                           *)
ImagesInv ==
    /\ TypeOK
    /\ ScanPosition
    /\ ReportSoFar
    /\ pc \in {"list", "scan", "select"} => ChoiceSoFar
    /\ ChoiceIsBest

(* Before the scan nothing was looked at and nothing chosen.               *)
LEMMA ImagesInit ==
    ASSUME Init
    PROVE  ImagesInv
<1>1. TypeOK
  BY NoneAssumption, TimeAssumption DEF Init, TypeOK, Namespaces
<1>2. Looked = {}
  BY DEF Init, Looked
<1>3. ScanPosition
  BY <1>2 DEF Init, ScanPosition
<1>4. ReportSoFar
  BY <1>2 DEF Init, ReportSoFar
<1>5. ChoiceSoFar
  BY <1>2 DEF Init, ChoiceSoFar, FirstOf, LookedSnapshots, LookedPreferred, LookedSmart,
              LookedDefaults, LookedPVCs
<1> QED
  BY <1>1, <1>3, <1>4, <1>5 DEF Init, ImagesInv, ChoiceIsBest, Ended

(* Every step of the scan keeps the types.                                 *)
LEMMA ImagesTypes ==
    ASSUME TypeOK, ScanPosition, [Next]_vars
    PROVE  TypeOK'
<1> USE DEF TypeOK, envVars, imgVars, repVars, PVCs,
            Class, Take
<1>1. CASE List
  BY <1>1 DEF List, Namespaces, ScanPosition
<1>2. CASE PassOver
  BY <1>2 DEF PassOver, Namespaces
<1>3. CASE EndOfNamespace
  BY <1>3 DEF EndOfNamespace, NextNamespace, Namespaces
<1>4. CASE Abort
  BY <1>4 DEF Abort
<1>5. CASE Select
  BY <1>5 DEF Select, Fallback
<1>6. ASSUME NEW c \in Crons, Outdated(c) PROVE TypeOK'
  BY <1>6 DEF Outdated
<1>7. ASSUME NEW c \in Crons, Missing(c) PROVE TypeOK'
  BY <1>7 DEF Missing
<1>8. ASSUME NEW c \in Crons, Snapshot(c) PROVE TypeOK'
  BY <1>8 DEF Snapshot
<1>9. ASSUME NEW c \in Crons, Pvc(c) PROVE TypeOK'
  BY <1>9 DEF Pvc
<1>10. CASE UNCHANGED vars
  BY <1>10 DEF vars
<1> QED
  BY <1>1, <1>2, <1>3, <1>4, <1>5, <1>6, <1>7, <1>8, <1>9, <1>10 DEF Next

(* Looking at a cron, the newest that waits, adds it to those looked at.   *)
LEMMA TakeMoves ==
    ASSUME TypeOK, ScanPosition, NEW c \in Crons, pc = "scan", Take(c),
           UNCHANGED <<cron, ns, scanned, pc>>
    PROVE  c \notin Looked /\ Looked' = Looked \cup {c} /\ ScanPosition'
<1>1. c \in todo /\ todo' = todo \ {c} /\ cron[c].ns = ns /\ ns \in scanned
  BY DEF Take, ScanPosition
<1>2. c \notin Looked /\ Looked' = Looked \cup {c}
  BY <1>1 DEF Looked
<1>3. \A e \in todo' : \A d \in Looked' : cron[d].ns = ns => cron[d].time >= cron[e].time
  BY <1>1, <1>2 DEF Take, Newest, ScanPosition
<1> QED
  BY <1>1, <1>2, <1>3 DEF ScanPosition

(* The first of the crons looked at stays the first, and a cron is the     *)
(* first if there was none.                                                *)
LEMMA FirstStays ==
    ASSUME TypeOK, ScanPosition, pc = "scan", NEW c \in todo,
           NEW set \in SUBSET Looked, NEW x, FirstOf(x, set)
    PROVE  FirstOf(IF set = {} THEN c ELSE x, set \cup {c})
<1>1. cron[c].ns = ns /\ ns \in Namespaces /\ cron[c].time \in 0..MaxTime
  BY DEF ScanPosition, TypeOK, CronType
<1>2. CASE set = {}
  BY <1>1, <1>2 DEF FirstOf, First
<1>3. CASE set # {}
  <2>1. x \in Looked /\ cron[x].ns \in scanned
    BY <1>3 DEF FirstOf, Looked
  <2>2. cron[x].ns = ns => cron[x].time >= cron[c].time
    BY <2>1 DEF ScanPosition
  <2>3. cron[x].ns = "other" => cron[c].ns = "other"
    BY <1>1, <2>1 DEF ScanPosition, Namespaces
  <2> QED
    BY <1>1, <1>3, <2>2, <2>3 DEF FirstOf, First
<1> QED
  BY <1>2, <1>3

(* Listing a namespace, or ending its scan, looks at no cron.              *)
LEMMA ListMoves ==
    ASSUME TypeOK, ScanPosition, List \/ PassOver \/ EndOfNamespace
    PROVE  Looked' = Looked /\ ScanPosition' /\ UNCHANGED <<envVars, imgVars>>
<1> USE DEF TypeOK, Namespaces, ScanPosition, Looked, envVars, imgVars
<1>1. CASE List
  BY <1>1 DEF List
<1>2. CASE PassOver
  BY <1>2 DEF PassOver
<1>3. CASE EndOfNamespace
  BY <1>3 DEF EndOfNamespace, NextNamespace
<1> QED
  BY <1>1, <1>2, <1>3

(* A cron is looked at in exactly one way.                                 *)
LEMMA LookMoves ==
    ASSUME TypeOK, ScanPosition, NEW c \in Crons,
           Outdated(c) \/ Missing(c) \/ Snapshot(c) \/ Pvc(c)
    PROVE  /\ pc = "scan" /\ c \in todo /\ c \notin Looked
           /\ Looked' = Looked \cup {c}
           /\ ScanPosition'
           /\ UNCHANGED <<envVars, ns, scanned, pc>>
<1>1. pc = "scan" /\ Take(c) /\ UNCHANGED <<envVars, ns, scanned, pc>>
  BY DEF Outdated, Missing, Snapshot, Pvc
<1> QED
  BY <1>1, TakeMoves DEF envVars, Take

(* What is reported is what was seen of the crons that were looked at.     *)
LEMMA ReportKept ==
    ASSUME TypeOK, ScanPosition, ReportSoFar, [Next]_vars
    PROVE  ReportSoFar' /\ ScanPosition'
<1> USE DEF ReportSoFar, envVars, repVars
<1>1. CASE List \/ PassOver \/ EndOfNamespace
  BY <1>1, ListMoves DEF List, PassOver, EndOfNamespace
<1>2. CASE Abort
  BY <1>2 DEF Abort, ScanPosition, Looked
<1>3. CASE Select
  BY <1>3 DEF Select, ScanPosition, Looked
<1>4. ASSUME NEW c \in Crons, Outdated(c) PROVE ReportSoFar' /\ ScanPosition'
  BY <1>4, LookMoves DEF Outdated
<1>5. ASSUME NEW c \in Crons, Missing(c) PROVE ReportSoFar' /\ ScanPosition'
  BY <1>5, LookMoves DEF Missing
<1>6. ASSUME NEW c \in Crons, Snapshot(c) PROVE ReportSoFar' /\ ScanPosition'
  BY <1>6, LookMoves DEF Snapshot
<1>7. ASSUME NEW c \in Crons, Pvc(c) PROVE ReportSoFar' /\ ScanPosition'
  BY <1>7, LookMoves DEF Pvc, PVCs
<1>8. CASE UNCHANGED vars
  BY <1>8 DEF vars, ScanPosition, Looked
<1> QED
  BY <1>1, <1>2, <1>3, <1>4, <1>5, <1>6, <1>7, <1>8 DEF Next

(* The choice depends on the crons that were looked at and on the images.  *)
LEMMA ChoiceStays ==
    ASSUME ChoiceSoFar, UNCHANGED <<envVars, imgVars>>,
           LookedPVCs' = LookedPVCs, LookedSnapshots' = LookedSnapshots
    PROVE  ChoiceSoFar'
  BY DEF ChoiceSoFar, FirstOf, First, LookedPreferred, LookedSmart, LookedDefaults,
         Preferred, IsDefault, Class, envVars, imgVars

(* A snapshot is kept if it is the first.                                  *)
LEMMA SnapshotKept ==
    ASSUME TypeOK, ScanPosition, ChoiceSoFar, NEW c \in Crons, Snapshot(c),
           None \notin Crons
    PROVE  ChoiceSoFar'
<1>1. /\ pc = "scan" /\ c \in todo /\ Looked' = Looked \cup {c} /\ UNCHANGED envVars
      /\ cron[c].source = "snapshot" /\ UNCHANGED <<pvc, fallbackDefault, fallback>>
      /\ snap' = IF snap = None THEN c ELSE snap
  BY LookMoves DEF Snapshot
<1>2. LookedSnapshots' = LookedSnapshots \cup {c} /\ LookedPVCs' = LookedPVCs
  BY <1>1 DEF LookedSnapshots, LookedPVCs, PVCs, envVars
<1>3. snap = None <=> LookedSnapshots = {}
  BY DEF ChoiceSoFar, FirstOf, LookedSnapshots, Looked
<1>4. FirstOf(snap', LookedSnapshots \cup {c})
  BY <1>1, <1>3, FirstStays DEF ChoiceSoFar, LookedSnapshots
<1>5. FirstOf(snap, LookedSnapshots)'
  BY <1>1, <1>2, <1>4 DEF FirstOf, First, envVars
<1> QED
  BY <1>1, <1>2, <1>5
     DEF ChoiceSoFar, FirstOf, First, LookedPreferred, LookedSmart, LookedDefaults,
         Preferred, IsDefault, Class, envVars

(* The PVC, and the fallbacks as long as there is none, are what the crons *)
(* looked at call for, the new one included.                               *)
LEMMA PvcKept ==
    ASSUME TypeOK, ScanPosition, ChoiceSoFar, NEW c \in Crons, Pvc(c),
           None \notin Crons
    PROVE  ChoiceSoFar'
<1> DEFINE class == Class(c)
           Grown(set, new) == IF new THEN set \cup {c} ELSE set
<1>1. /\ pc = "scan" /\ c \in todo /\ Looked' = Looked \cup {c} /\ c \in PVCs
      /\ UNCHANGED <<envVars, snap>>
  BY LookMoves DEF Pvc, imgVars
<1>2. UNCHANGED <<cron, smart, default, configured>>
  BY <1>1 DEF envVars
<1>3. LookedSnapshots' = LookedSnapshots /\ LookedPVCs' = LookedPVCs \cup {c}
  BY <1>1, <1>2 DEF LookedSnapshots, LookedPVCs, PVCs
<1>4. /\ LookedSmart' = Grown(LookedSmart, class \in smart)
      /\ LookedPreferred' = Grown(LookedPreferred, class \in smart /\ Preferred(class))
      /\ LookedDefaults' = Grown(LookedDefaults, IsDefault(class))
  BY <1>2, <1>3 DEF LookedSmart, LookedPreferred, LookedDefaults, Class, Preferred,
     IsDefault
<1>5. ASSUME NEW set \in SUBSET Looked, NEW x, FirstOf(x, set)
      PROVE  FirstOf(IF set = {} THEN c ELSE x, set \cup {c})
  BY <1>1, <1>5, FirstStays
<1>6. ASSUME NEW x, NEW set PROVE First(x, set)' <=> First(x, set')
  BY <1>2 DEF First
<1>7. /\ LookedPVCs \subseteq Looked /\ LookedSmart \subseteq LookedPVCs
      /\ LookedPreferred \subseteq LookedSmart /\ LookedDefaults \subseteq LookedPVCs
      /\ None \notin Looked
  BY DEF LookedPVCs, LookedSmart, LookedPreferred, LookedDefaults, Looked
<1>8. FirstOf(snap, LookedSnapshots)'
  BY <1>1, <1>2, <1>3 DEF ChoiceSoFar, FirstOf, First
<1>9. CASE Keeps(pvc)
  <2>1. UNCHANGED <<pvc, fallbackDefault, fallback>> /\ pvc # None
    BY <1>9 DEF Pvc, Keeps, imgVars
  <2>2. pvc \in LookedPreferred /\ FirstOf(pvc, LookedPreferred)
    BY <1>9 DEF ChoiceSoFar, Keeps, LookedPreferred
  <2>3. FirstOf(pvc, LookedPreferred')
    BY <1>4, <1>5, <1>7, <2>2
  <2>4. FirstOf(pvc, LookedPreferred)'
    BY <1>2, <2>1, <2>3 DEF FirstOf, First
  <2> QED
    BY <1>4, <1>7, <1>8, <2>1, <2>2, <2>4 DEF ChoiceSoFar
<1>10. CASE ~Keeps(pvc) /\ class \in smart
  <2>1. pvc' = c
    BY <1>10 DEF Pvc
  <2>2. LookedPreferred = {}
    BY <1>10 DEF ChoiceSoFar, FirstOf, Keeps, LookedPreferred, LookedSmart,
       LookedPVCs, Looked
  <2>3. FirstOf(c, {c})
    BY <1>5, <2>2 DEF FirstOf
  <2>4. LookedPreferred' # {} => FirstOf(pvc, LookedPreferred)'
    BY <1>2, <1>4, <2>1, <2>2, <2>3 DEF FirstOf, First
  <2> QED
    BY <1>4, <1>7, <1>8, <1>10, <2>1, <2>4 DEF ChoiceSoFar
<1>11. CASE ~Keeps(pvc) /\ class \notin smart
  <2>1. /\ pvc' = pvc
        /\ fallbackDefault' = IF fallbackDefault = None /\ IsDefault(class)
                              THEN c ELSE fallbackDefault
        /\ fallback' = IF fallback = None /\ ~(fallbackDefault = None /\ IsDefault(class))
                       THEN c ELSE fallback
    BY <1>11 DEF Pvc
  <2>2. LookedPreferred' = {} /\ LookedSmart' = LookedSmart
    BY <1>4, <1>7, <1>11 DEF ChoiceSoFar, FirstOf, Keeps, LookedPreferred
  <2>3. CASE pvc # None
    BY <1>8, <2>1, <2>2, <2>3 DEF ChoiceSoFar
  <2>4. CASE pvc = None
    <3>1. /\ FirstOf(fallbackDefault, LookedDefaults)
          /\ LookedDefaults = {} => FirstOf(fallback, LookedPVCs)
      BY <2>4 DEF ChoiceSoFar
    <3>2. FirstOf(fallbackDefault', LookedDefaults')
      BY <1>4, <1>5, <1>7, <2>1, <3>1 DEF FirstOf
    <3>3. LookedDefaults' = {} => FirstOf(fallback', LookedPVCs')
      BY <1>3, <1>4, <1>5, <1>7, <2>1, <3>1 DEF FirstOf
    <3>4. /\ FirstOf(fallbackDefault, LookedDefaults)'
          /\ LookedDefaults' = {} => FirstOf(fallback, LookedPVCs)'
      BY <1>2, <3>2, <3>3 DEF FirstOf, First
    <3> QED
      BY <1>8, <2>1, <2>2, <2>4, <3>4 DEF ChoiceSoFar
  <2> QED
    BY <2>3, <2>4
<1> QED
  BY <1>9, <1>10, <1>11

(* The scan keeps its summary of the crons that were looked at.            *)
LEMMA ChoiceKept ==
    ASSUME TypeOK, ScanPosition, pc \in {"list", "scan", "select"} => ChoiceSoFar,
           [Next]_vars, None \notin Crons
    PROVE  (pc \in {"list", "scan", "select"} => ChoiceSoFar)'
<1>1. CASE List \/ PassOver \/ EndOfNamespace
  <2>1. ChoiceSoFar
    BY <1>1 DEF List, PassOver, EndOfNamespace
  <2>2. LookedPVCs' = LookedPVCs /\ LookedSnapshots' = LookedSnapshots
    BY <1>1, ListMoves DEF LookedPVCs, LookedSnapshots, PVCs, envVars
  <2> QED
    BY <1>1, <2>1, <2>2, ListMoves, ChoiceStays
<1>2. CASE Abort \/ Select
  BY <1>2 DEF Abort, Select
<1>3. ASSUME NEW c \in Crons, Outdated(c) \/ Missing(c) PROVE ChoiceSoFar'
  <2>1. ChoiceSoFar /\ UNCHANGED imgVars
    BY <1>3 DEF Outdated, Missing
  <2>2. LookedPVCs' = LookedPVCs /\ LookedSnapshots' = LookedSnapshots
    BY <1>3, LookMoves DEF LookedPVCs, LookedSnapshots, PVCs, envVars,
       Outdated, Missing
  <2> QED
    BY <1>3, <2>1, <2>2, LookMoves, ChoiceStays
<1>4. ASSUME NEW c \in Crons, Snapshot(c) PROVE ChoiceSoFar'
  BY <1>4, SnapshotKept DEF Snapshot
<1>5. ASSUME NEW c \in Crons, Pvc(c) PROVE ChoiceSoFar'
  BY <1>5, PvcKept DEF Pvc
<1>6. CASE UNCHANGED vars
  BY <1>6, ChoiceStays DEF vars, LookedPVCs, LookedSnapshots, Looked, PVCs,
     envVars, imgVars
<1> QED
  BY <1>1, <1>2, <1>3, <1>4, <1>5, <1>6 DEF Next

(* When the scan has ended every cron seen was looked at, so that the      *)
(* summary is the specification of the choice.                             *)
LEMMA SelectIsBest ==
    ASSUME TypeOK, ScanPosition, ChoiceSoFar, Select, None \notin Crons,
           None \notin Classes
    PROVE  ChoiceIsBest'
<1>1. /\ pc = "select" /\ pvc' = IF pvc = None THEN Fallback ELSE pvc
      /\ UNCHANGED <<cron, smart, default, configured, scanned, snap>>
  BY DEF Select, envVars
<1>2. Looked = Seen
  BY <1>1 DEF ScanPosition, Looked, Seen
<1>3. /\ LookedPVCs = PVCs \cap Seen
      /\ LookedSmart = SmartPVCs
      /\ LookedPreferred = {c \in SmartPVCs : Preferred(Class(c))}
      /\ LookedDefaults = {c \in PVCs \cap Seen : IsDefault(Class(c))}
      /\ LookedSnapshots = {c \in Seen : cron[c].source = "snapshot"}
  BY <1>2 DEF LookedPVCs, LookedSmart, LookedPreferred, LookedDefaults, LookedSnapshots,
     SmartPVCs
<1>4. /\ FirstOf(snap', LookedSnapshots)
      /\ IF LookedPreferred # {} THEN FirstOf(pvc', LookedPreferred)
         ELSE IF LookedSmart # {} THEN pvc' \in LookedSmart
         ELSE IF LookedDefaults # {} THEN FirstOf(pvc', LookedDefaults)
         ELSE FirstOf(pvc', LookedPVCs)
  <2>1. LookedSmart \subseteq Crons /\ LookedPreferred \subseteq LookedSmart
        /\ LookedDefaults \subseteq Crons
    BY DEF LookedPreferred, LookedSmart, LookedDefaults, LookedPVCs, PVCs
  <2>2. FirstOf(snap', LookedSnapshots)
    BY <1>1 DEF ChoiceSoFar
  <2>3. CASE pvc # None
    BY <1>1, <2>1, <2>2, <2>3 DEF ChoiceSoFar
  <2>4. CASE pvc = None
    <3>1. LookedSmart = {} /\ LookedPreferred = {}
      BY <2>1, <2>4 DEF ChoiceSoFar
    <3>2. fallbackDefault # None <=> LookedDefaults # {}
      BY <2>1, <2>4 DEF ChoiceSoFar, FirstOf
    <3> QED
      BY <1>1, <2>2, <2>4, <3>1, <3>2 DEF ChoiceSoFar, Fallback
  <2> QED
    BY <2>3, <2>4
<1>5. /\ Seen' = Seen /\ PVCs' = PVCs
      /\ SmartPVCs' = SmartPVCs
  BY <1>1 DEF Seen, PVCs, SmartPVCs, Class
<1> QED
  BY <1>1, <1>3, <1>4, <1>5 DEF ChoiceIsBest, FirstOf, First, Preferred,
     IsDefault, Class

(* Every step of the scan keeps the invariant.                             *)
LEMMA ImagesKept == ImagesInv /\ [Next]_vars => ImagesInv'
<1> SUFFICES ASSUME ImagesInv, [Next]_vars PROVE ImagesInv'
  OBVIOUS
<1>1. TypeOK' /\ ScanPosition' /\ ReportSoFar'
  BY ImagesTypes, ReportKept DEF ImagesInv
<1>2. (pc \in {"list", "scan", "select"} => ChoiceSoFar)'
  BY ChoiceKept, NoneAssumption DEF ImagesInv
<1>3. ChoiceIsBest'
  <2>1. CASE Select
    BY <2>1, SelectIsBest, NoneAssumption DEF ImagesInv, Select
  <2>2. CASE UNCHANGED vars
    BY <2>2 DEF ImagesInv, ChoiceIsBest, Ended, Seen, PVCs,
       SmartPVCs, First, Preferred, IsDefault, Class,
       vars, envVars, imgVars
  <2>3. CASE ~Select /\ Next
    <3>1. ~Ended'
      BY <2>3 DEF Next, List, PassOver, EndOfNamespace, Abort,
         Outdated, Missing, Snapshot, Pvc, Ended
    <3> QED
      BY <3>1 DEF ChoiceIsBest
  <2> QED
    BY <2>1, <2>2, <2>3
<1> QED
  BY <1>1, <1>2, <1>3 DEF ImagesInv

(* The scan of the golden images keeps its types.                          *)
THEOREM ImagesTypeCorrect == Spec => []TypeOK
<1>1. ImagesInv => TypeOK
  BY DEF ImagesInv
<1> QED
  BY <1>1, ImagesInit, ImagesKept, PTL DEF Spec

(* For any number of DataImportCrons, in any order that their times allow, *)
(* checkGoldenImages and updateGoldenImagePvc choose the best image.       *)
THEOREM ChoiceCorrect == Spec => []ChoiceIsBest
<1>1. ImagesInv => ChoiceIsBest
  BY DEF ImagesInv
<1> QED
  BY <1>1, ImagesInit, ImagesKept, PTL DEF Spec

(* And they report exactly the crons that are at fault.                    *)
THEOREM ReportCorrect == Spec => []ReportIsExact
<1>1. ImagesInv => ReportIsExact
  BY DEF ImagesInv, ReportIsExact, Ended, Seen, ReportSoFar, ScanPosition,
     Looked
<1> QED
  BY <1>1, ImagesInit, ImagesKept, PTL DEF Spec
-----------------------------------------------------------------------------
(* The default storage class, the storage profiles and the snapshot        *)
(* classes.                                                                *)

(* The items of the two lists that the loops have gone past.               *)
PastClasses  == {c \in DOMAIN classes : c < i}
(* The profiles the scan has gone past.                                    *)
PastProfiles == {p \in Profiles : step = "scan" => p < i}
PastMissing  ==
    {p \in Profiles : step # "done" => step = "snapshotClasses" /\ p < i}

(* While the classes are scanned: the first class with each annotation,    *)
(* whether there was another, and which of the two is taken.               *)
ClassesSoFar ==
    LET virt == VirtDefaults \cap PastClasses
        k8s  == K8sDefaults \cap PastClasses
    IN  /\ IF virt = {} THEN virtClass = 0 ELSE virtClass \in virt
        /\ IF k8s = {} THEN k8sClass = 0 ELSE k8sClass \in k8s
        /\ multiple <=> ~(AtMostOne(virt) /\ AtMostOne(k8s))
        /\ defaultStorageClass = IF virt # {} THEN virtClass ELSE k8sClass

(* While the profiles are scanned: the lists of the report.                *)
ProfilesSoFar ==
    LET judged == {p \in PastProfiles : Supported(p)}
        able   == {p \in judged : CanCloneSmartly(p)}
    IN  /\ smartProfiles \subseteq able /\ able \ smartProfiles \subseteq unread
        /\ unread \subseteq {p \in judged : profiles[p].strategy = "csi-clone"}
        /\ preferred = {p \in smartProfiles : HasRWX(p) /\ profiles[p].sc}
        /\ empty = {p \in judged : profiles[p].sets = {}}

(* Where the survey is, and what it has said by then.                      *)
SurveyInv ==
    /\ SurveyTypeOK
    /\ i # 0
    /\ step = "classes" => i = 1
    /\ step \in {"classes", "default"} => said = "nothing" /\ ClassesSoFar
    /\ step \in {"classes", "default", "profiles"} =>
           smartProfiles = {} /\ unread = {} /\ preferred = {} /\ empty = {}
    /\ step \in {"classes", "default", "profiles", "scan"} => "empty" \notin failed
    /\ step \in {"scan", "snapshotClasses", "done"} => ProfilesSoFar
    /\ step \in {"snapshotClasses", "done"} => ("empty" \in failed <=> empty # {})
    /\ step # "aborted" =>
           missing = {p \in PastMissing : SnapshotStrategy(p) /\ Supported(p)
                                          /\ ~HasDriver(p)}
    /\ DefaultIsDeterminate

(* The places of a list are counted from 1 on, and past the end of it all  *)
(* of them are behind.                                                     *)
LEMMA PlacesOfList ==
    ASSUME NEW T, NEW list \in Seq(T), i \in Nat, i # 0
    PROVE  /\ DOMAIN list \subseteq Nat \ {0}
           /\ i \notin DOMAIN list => \A c \in DOMAIN list : c < i
<1>1. DOMAIN list = 1..Len(list) /\ Len(list) \in Nat
  OBVIOUS
<1> QED
  BY <1>1

(* The places of the two lists of the survey.                              *)
LEMMA Places ==
    ASSUME SurveyTypeOK, i # 0
    PROVE  /\ DOMAIN classes \subseteq Nat \ {0} /\ Profiles \subseteq Nat \ {0}
           /\ i \notin DOMAIN classes => \A c \in DOMAIN classes : c < i
           /\ i \notin Profiles => \A p \in Profiles : p < i
  BY PlacesOfList DEF SurveyTypeOK, Profiles

(* Nothing is found before the lists are read.                             *)
LEMMA SurveyInitInv ==
    ASSUME SurveyInit
    PROVE  SurveyInv
<1>1. SurveyTypeOK /\ i # 0 /\ step = "classes" /\ i = 1
  <2>1. classes \in Seq(AnnotatedClass) /\ profiles \in Seq(ProfileType)
    BY SurveyListsAssumption DEF SurveyInit
  <2>2. snapshotDrivers \subseteq Provisioners /\ csiDrivers \subseteq Provisioners
    BY DEF SurveyInit
  <2>3. /\ \A found \in {preferred, empty, spec, smartProfiles, rwx, missing, unread} :
               found \subseteq Profiles
        /\ {virtClass, k8sClass, defaultStorageClass} \subseteq {0} \cup DOMAIN classes
        /\ failed \subseteq {"default", "empty"}
    BY DEF SurveyInit
  <2>4. /\ step = "classes" /\ i = 1 /\ i \in Nat /\ multiple \in BOOLEAN
        /\ step \in {"classes", "default", "profiles", "scan", "snapshotClasses", "done", "aborted"}
        /\ said \in {"nothing", "one", "none", "multiple"}
    BY DEF SurveyInit
  <2> QED
    BY <2>1, <2>2, <2>3, <2>4 DEF SurveyTypeOK
<1>2. PastClasses = {} /\ PastMissing = {}
  BY <1>1, Places DEF PastClasses, PastMissing
<1>3. ClassesSoFar
  BY <1>2 DEF SurveyInit, ClassesSoFar, AtMostOne
<1> QED
  BY <1>1, <1>2, <1>3 DEF SurveyInit, SurveyInv, DefaultIsDeterminate

(* Every step of the survey keeps the types.                               *)
LEMMA SurveyTypes ==
    ASSUME SurveyTypeOK, [SurveyNext]_surveyVars
    PROVE  SurveyTypeOK'
<1> USE DEF SurveyTypeOK, clusterVars, defaultVars, profileVars, Goto,
            AddIf, Profiles
<1>1. CASE ListRefused("classes") \/ ListRefused("profiles")
  BY <1>1 DEF ListRefused
<1>2. CASE ListStorageClasses
  BY <1>2 DEF ListStorageClasses
<1>3. CASE ScanClass
  BY <1>3 DEF ScanClass
<1>4. CASE ReportDefault
  BY <1>4 DEF ReportDefault
<1>5. CASE ListStorageProfiles
  BY <1>5 DEF ListStorageProfiles
<1>6. CASE PassOverProfile
  BY <1>6 DEF PassOverProfile
<1>7. ASSUME NEW answer \in {"ok", "refused"}, ScanProfile(answer) PROVE SurveyTypeOK'
  <2>1. /\ preferred' \subseteq DOMAIN profiles /\ empty' \subseteq DOMAIN profiles
        /\ spec' \subseteq DOMAIN profiles /\ smartProfiles' \subseteq DOMAIN profiles
        /\ rwx' \subseteq DOMAIN profiles /\ unread' \subseteq DOMAIN profiles
    BY <1>7 DEF ScanProfile
  <2>2. i' \in Nat /\ UNCHANGED <<clusterVars, step, defaultVars, missing, failed>>
    BY <1>7 DEF ScanProfile
  <2> QED
    BY <2>1, <2>2
<1>8. CASE ReportProfiles
  BY <1>8 DEF ReportProfiles
<1>9. CASE ScanSnapshotClass
  BY <1>9 DEF ScanSnapshotClass
<1>10. CASE ReportSnapshotClasses
  BY <1>10 DEF ReportSnapshotClasses
<1>11. CASE UNCHANGED surveyVars
  BY <1>11 DEF surveyVars
<1> QED
  BY <1>1, <1>2, <1>3, <1>4, <1>5, <1>6, <1>7, <1>8, <1>9, <1>10, <1>11 DEF SurveyNext

(* One more class: the first with an annotation stays the first, a second  *)
(* makes them multiple.                                                    *)
LEMMA ScanClassKept ==
    ASSUME SurveyTypeOK, i # 0, ClassesSoFar, ScanClass
    PROVE  ClassesSoFar'
<1> DEFINE virt == VirtDefaults \cap PastClasses
           k8s  == K8sDefaults \cap PastClasses
<1>1. PastClasses' = PastClasses \cup {i} /\ i \notin PastClasses /\ UNCHANGED classes
  BY Places DEF ScanClass, PastClasses, SurveyTypeOK, clusterVars
<1>2. /\ virt' = IF classes[i].virt THEN virt \cup {i} ELSE virt
      /\ k8s' = IF classes[i].default THEN k8s \cup {i} ELSE k8s
  BY <1>1 DEF ScanClass, VirtDefaults, K8sDefaults
<1>3. i \notin virt /\ i \notin k8s /\ 0 \notin virt /\ 0 \notin k8s
  BY <1>1, Places DEF PastClasses
<1>4. /\ virtClass = 0 <=> virt = {}
      /\ k8sClass = 0 <=> k8s = {}
  BY <1>3 DEF ClassesSoFar
<1>5. /\ IF virt' = {} THEN virtClass' = 0 ELSE virtClass' \in virt'
      /\ IF k8s' = {} THEN k8sClass' = 0 ELSE k8sClass' \in k8s'
  BY <1>2, <1>4 DEF ScanClass, ClassesSoFar
<1>6. ASSUME NEW set, i \notin set
      PROVE  AtMostOne(set \cup {i}) <=> set = {}
  BY <1>6 DEF AtMostOne
<1>7. multiple' <=> ~(AtMostOne(virt') /\ AtMostOne(k8s'))
  <2>1. multiple' <=> multiple \/ (classes[i].virt /\ virt # {}) \/ (classes[i].default /\ k8s # {})
    BY <1>4 DEF ScanClass, SurveyTypeOK
  <2>2. /\ AtMostOne(virt') <=> IF classes[i].virt THEN virt = {} ELSE AtMostOne(virt)
        /\ AtMostOne(k8s') <=> IF classes[i].default THEN k8s = {} ELSE AtMostOne(k8s)
    BY <1>2, <1>3, <1>6
  <2>3. (virt = {} => AtMostOne(virt)) /\ (k8s = {} => AtMostOne(k8s))
    BY DEF AtMostOne
  <2>4. multiple <=> ~(AtMostOne(virt) /\ AtMostOne(k8s))
    BY DEF ClassesSoFar
  <2> HIDE DEF virt, k8s
  <2> QED
    BY <2>1, <2>2, <2>3, <2>4
<1>8. defaultStorageClass' = IF virt' # {} THEN virtClass' ELSE k8sClass'
  BY <1>2, <1>3, <1>4 DEF ScanClass, ClassesSoFar
<1> QED
  BY <1>5, <1>7, <1>8 DEF ClassesSoFar, AtMostOne

(* At the end of the classes the default is the one that counts.           *)
LEMMA ReportDefaultIsDeterminate ==
    ASSUME SurveyTypeOK, i # 0, ClassesSoFar, ReportDefault
    PROVE  DefaultIsDeterminate'
<1>1. PastClasses = DOMAIN classes
  BY Places DEF ReportDefault, PastClasses
<1>2. /\ VirtDefaults \cap PastClasses = VirtDefaults
      /\ K8sDefaults \cap PastClasses = K8sDefaults
      /\ 0 \notin VirtDefaults \cup K8sDefaults
  BY <1>1, Places DEF VirtDefaults, K8sDefaults
<1>3. /\ VirtDefaults' = VirtDefaults /\ K8sDefaults' = K8sDefaults
      /\ UNCHANGED <<virtClass, k8sClass, multiple, defaultStorageClass>>
      /\ said' = IF multiple THEN "multiple" ELSE IF defaultStorageClass # 0 THEN "one" ELSE "none"
  BY DEF ReportDefault, clusterVars, VirtDefaults, K8sDefaults
<1>4. /\ IF VirtDefaults = {} THEN virtClass = 0 ELSE virtClass \in VirtDefaults
      /\ IF K8sDefaults = {} THEN k8sClass = 0 ELSE k8sClass \in K8sDefaults
      /\ multiple <=> ~(AtMostOne(VirtDefaults) /\ AtMostOne(K8sDefaults))
      /\ defaultStorageClass = IF VirtDefaults # {} THEN virtClass ELSE k8sClass
  BY <1>2 DEF ClassesSoFar
<1>5. multiple => VirtDefaults # {} \/ K8sDefaults # {}
  BY <1>4 DEF AtMostOne
<1> QED
  BY <1>2, <1>3, <1>4, <1>5 DEF DefaultIsDeterminate, AtMostOne

(* One more profile goes into the lists it belongs to.                     *)
LEMMA ScanProfileKept ==
    ASSUME SurveyTypeOK, i # 0, ProfilesSoFar, NEW answer \in {"ok", "refused"},
           PassOverProfile \/ ScanProfile(answer)
    PROVE  ProfilesSoFar'
<1>1. /\ step = "scan" /\ step' = "scan" /\ i' = i + 1 /\ i \in Profiles
      /\ UNCHANGED clusterVars
  BY DEF PassOverProfile, ScanProfile
<1>2. PastProfiles' = PastProfiles \cup {i} /\ i \notin PastProfiles
  BY <1>1, Places DEF PastProfiles, SurveyTypeOK, clusterVars, Profiles
<1>3. ASSUME NEW p
      PROVE  /\ Supported(p)' <=> Supported(p)
             /\ CanCloneSmartly(p)' <=> CanCloneSmartly(p)
             /\ HasRWX(p)' <=> HasRWX(p)
             /\ profiles'[p] = profiles[p]
  BY <1>1 DEF Supported, CanCloneSmartly, HasRWX, clusterVars
<1>4. CASE PassOverProfile
  BY <1>2, <1>3, <1>4 DEF ProfilesSoFar, PassOverProfile, profileVars
<1>5. CASE ScanProfile(answer)
  <2>1. Supported(i) /\ profiles[i].strategy \in {"unset", "copy", "snapshot", "csi-clone"}
    <3>1. profiles[i] \in ProfileType
      BY <1>1 DEF SurveyTypeOK, Profiles
    <3> QED
      BY <1>5, <3>1 DEF ScanProfile, ProfileType
  <2>2. /\ HasSmartClone(i, answer) => CanCloneSmartly(i)
        /\ CanCloneSmartly(i) /\ ~HasSmartClone(i, answer) => answer = "refused"
        /\ answer = "refused" => profiles[i].strategy = "csi-clone"
    BY <1>5, <2>1 DEF ScanProfile, HasSmartClone, CanCloneSmartly,
       SnapshotStrategy, HasDriver
  <2>3. /\ smartProfiles' = IF HasSmartClone(i, answer) THEN smartProfiles \cup {i}
                                                        ELSE smartProfiles
        /\ unread' = IF answer = "refused" THEN unread \cup {i} ELSE unread
        /\ preferred' = IF HasSmartClone(i, answer) /\ HasRWX(i) /\ profiles[i].sc
                        THEN preferred \cup {i} ELSE preferred
        /\ empty' = IF profiles[i].sets = {} THEN empty \cup {i} ELSE empty
    BY <1>5 DEF ScanProfile, AddIf
  <2> QED
    BY <1>2, <1>3, <2>1, <2>2, <2>3 DEF ProfilesSoFar
<1> QED
  BY <1>4, <1>5

(* What was found does not change any more once its scan is over.          *)
LEMMA ProfilesStay ==
    ASSUME ProfilesSoFar, UNCHANGED <<clusterVars, profileVars>>,
           PastProfiles' = PastProfiles
    PROVE  ProfilesSoFar'
  BY DEF ProfilesSoFar, Supported, CanCloneSmartly, HasRWX,
     clusterVars, profileVars

(* Steps after the choice of the default class leave it alone.             *)
LEMMA DefaultStays ==
    ASSUME DefaultIsDeterminate, UNCHANGED <<clusterVars, defaultVars>>
    PROVE  DefaultIsDeterminate'
  BY DEF DefaultIsDeterminate, VirtDefaults, K8sDefaults, AtMostOne,
     clusterVars, defaultVars

(* Steps that look at no snapshot class leave the missing ones alone.      *)
LEMMA MissingStays ==
    ASSUME UNCHANGED <<clusterVars, missing>>, PastMissing' = PastMissing,
           missing = {p \in PastMissing : SnapshotStrategy(p) /\ Supported(p)
                                          /\ ~HasDriver(p)}
    PROVE  missing' = {p \in PastMissing' : SnapshotStrategy(p)' /\ Supported(p)'
                                            /\ ~HasDriver(p)'}
  BY DEF SnapshotStrategy, Supported, HasDriver, clusterVars

(* Every step of the survey keeps the invariant.                           *)
LEMMA SurveyKept == SurveyInv /\ [SurveyNext]_surveyVars => SurveyInv'
<1> SUFFICES ASSUME SurveyInv, [SurveyNext]_surveyVars PROVE SurveyInv'
  OBVIOUS
<1>0. SurveyTypeOK' /\ i \in Nat
  BY SurveyTypes DEF SurveyInv, SurveyTypeOK
<1> USE <1>0, Places DEF SurveyInv, Goto
<1>1. CASE ListRefused("classes") \/ ListRefused("profiles")
  BY <1>1, DefaultStays DEF ListRefused
<1>2. CASE ListStorageClasses
  <2>1. ClassesSoFar'
    BY <1>2 DEF ListStorageClasses, ClassesSoFar, PastClasses, VirtDefaults,
       K8sDefaults, AtMostOne, clusterVars, defaultVars
  <2>2. PastMissing' = PastMissing
    BY <1>2 DEF ListStorageClasses, PastMissing, Profiles, clusterVars
  <2> QED
    BY <1>2, <2>1, <2>2, DefaultStays, MissingStays DEF ListStorageClasses,
       defaultVars, profileVars
<1>3. CASE ScanClass
  <2>1. ClassesSoFar'
    BY <1>3, ScanClassKept DEF ScanClass
  <2>2. PastMissing' = PastMissing
    BY <1>3 DEF ScanClass, PastMissing, Profiles, clusterVars
  <2>3. i' # 0 /\ step = "default" /\ step' = "default" /\ UNCHANGED <<said, profileVars, failed>>
    BY <1>3 DEF ScanClass
  <2>4. DefaultIsDeterminate'
    BY <2>3 DEF DefaultIsDeterminate
  <2> QED
    BY <1>3, <2>1, <2>2, <2>3, <2>4, MissingStays DEF ScanClass, profileVars
<1>4. CASE ReportDefault
  <2>1. DefaultIsDeterminate'
    BY <1>4, ReportDefaultIsDeterminate DEF ReportDefault
  <2>2. PastMissing' = PastMissing
    BY <1>4 DEF ReportDefault, PastMissing, Profiles, clusterVars
  <2> QED
    BY <1>4, <2>1, <2>2, MissingStays DEF ReportDefault, profileVars, AddIf
<1>5. CASE ListStorageProfiles
  <2>1. PastProfiles' = {} /\ PastMissing' = PastMissing
    BY <1>5 DEF ListStorageProfiles, PastProfiles, PastMissing, Profiles,
       clusterVars
  <2>2. ProfilesSoFar'
    BY <1>5, <2>1 DEF ListStorageProfiles, ProfilesSoFar, profileVars
  <2> QED
    BY <1>5, <2>1, <2>2, DefaultStays, MissingStays DEF ListStorageProfiles
<1>6. ASSUME NEW answer \in {"ok", "refused"}, PassOverProfile \/ ScanProfile(answer)
      PROVE  SurveyInv'
  <2>1. ProfilesSoFar'
    BY <1>6, ScanProfileKept DEF PassOverProfile, ScanProfile
  <2>2. PastMissing' = PastMissing
    BY <1>6 DEF PassOverProfile, ScanProfile, PastMissing, Profiles, clusterVars
  <2> QED
    BY <1>6, <2>1, <2>2, DefaultStays, MissingStays DEF PassOverProfile, ScanProfile
<1>7. CASE ReportProfiles
  <2>1. PastProfiles' = PastProfiles
    BY <1>7 DEF ReportProfiles, PastProfiles, Profiles, clusterVars
  <2>2. PastMissing' = PastMissing
    BY <1>7 DEF ReportProfiles, PastMissing, Profiles, clusterVars
  <2> QED
    BY <1>7, <2>1, <2>2, ProfilesStay, DefaultStays, MissingStays
       DEF ReportProfiles, AddIf, profileVars
<1>8. CASE ScanSnapshotClass
  <2>1. PastProfiles' = PastProfiles
    BY <1>8 DEF ScanSnapshotClass, PastProfiles, Profiles, clusterVars
  <2>2. PastMissing' = PastMissing \cup {i} /\ i \notin PastMissing
    BY <1>8 DEF ScanSnapshotClass, PastMissing, Profiles, clusterVars
  <2>3. missing' = {p \in PastMissing' : SnapshotStrategy(p)' /\ Supported(p)'
                                         /\ ~HasDriver(p)'}
    BY <1>8, <2>2 DEF ScanSnapshotClass, AddIf, SnapshotStrategy,
       Supported, HasDriver, clusterVars
  <2> QED
    BY <1>8, <2>1, <2>3, ProfilesStay, DefaultStays
       DEF ScanSnapshotClass, profileVars
<1>9. CASE ReportSnapshotClasses
  <2>1. PastProfiles' = PastProfiles
    BY <1>9 DEF ReportSnapshotClasses, PastProfiles, Profiles, clusterVars
  <2>2. PastMissing' = PastMissing
    BY <1>9 DEF ReportSnapshotClasses, PastMissing, Profiles, clusterVars
  <2> QED
    BY <1>9, <2>1, <2>2, ProfilesStay, DefaultStays, MissingStays
       DEF ReportSnapshotClasses, profileVars
<1>10. CASE UNCHANGED surveyVars
  <2>1. /\ PastProfiles' = PastProfiles /\ PastMissing' = PastMissing
        /\ PastClasses' = PastClasses
    BY <1>10 DEF surveyVars, PastProfiles, PastMissing, PastClasses, Profiles,
       clusterVars
  <2>2. ClassesSoFar => ClassesSoFar'
    BY <1>10, <2>1 DEF surveyVars, ClassesSoFar, VirtDefaults, K8sDefaults,
       AtMostOne, clusterVars, defaultVars
  <2> QED
    BY <1>10, <2>1, <2>2, ProfilesStay, DefaultStays, MissingStays
       DEF surveyVars, defaultVars, profileVars
<1> QED
  BY <1>1, <1>2, <1>3, <1>4, <1>5, <1>6, <1>7, <1>8, <1>9, <1>10 DEF SurveyNext

(* The survey of the storage keeps its types.                              *)
THEOREM SurveyTypeCorrect == SurveySpec => []SurveyTypeOK
<1>1. SurveyInv => SurveyTypeOK
  BY DEF SurveyInv
<1> QED
  BY <1>1, SurveyInitInv, SurveyKept, PTL DEF SurveySpec

(* For storage classes in any number and order, checkDefaultStorageClass   *)
(* settles on a class with the annotation that counts.                     *)
THEOREM DefaultCorrect == SurveySpec => []DefaultIsDeterminate
<1>1. SurveyInv => DefaultIsDeterminate
  BY DEF SurveyInv
<1> QED
  BY <1>1, SurveyInitInv, SurveyKept, PTL DEF SurveySpec

(* For storage profiles in any number and order, checkStorageProfiles and  *)
(* checkVolumeSnapShotClasses agree.                                       *)
THEOREM ProfilesCorrect == SurveySpec => []ProfilesAreJudgedAlike
<1>1. SurveyInv => ProfilesAreJudgedAlike
  <2> SUFFICES ASSUME SurveyInv, step = "done" PROVE ProfilesAreJudgedAlike
    BY DEF ProfilesAreJudgedAlike
  <2> DEFINE judged == {p \in Profiles : Supported(p)}
             able   == {p \in judged : CanCloneSmartly(p)}
             best   == {p \in able : HasRWX(p) /\ profiles[p].sc}
  <2>1. PastProfiles = Profiles /\ PastMissing = Profiles
    BY DEF PastProfiles, PastMissing
  <2>2. /\ smartProfiles \subseteq able /\ able \ smartProfiles \subseteq unread
        /\ unread \subseteq {p \in judged : profiles[p].strategy = "csi-clone"}
        /\ preferred = {p \in smartProfiles : HasRWX(p) /\ profiles[p].sc}
        /\ empty = {p \in judged : profiles[p].sets = {}}
    BY <2>1 DEF SurveyInv, ProfilesSoFar
  <2>3. ASSUME NEW p \in judged, SnapshotStrategy(p)
        PROVE  p \in smartProfiles <=> HasDriver(p)
    BY <2>2, <2>3 DEF SnapshotStrategy, HasDriver, CanCloneSmartly
  <2>4. missing = {p \in judged : SnapshotStrategy(p)} \ smartProfiles
    BY <2>1, <2>3 DEF SurveyInv
  <2>5. "empty" \in failed <=> \E p \in judged : profiles[p].sets = {}
    BY <2>2 DEF SurveyInv
  <2> QED
    BY <2>2, <2>4, <2>5 DEF ProfilesAreJudgedAlike
<1> QED
  BY <1>1, SurveyInitInv, SurveyKept, PTL DEF SurveySpec
-----------------------------------------------------------------------------
(* The audit of the running VMs.                                           *)

(* What a loop over the classes has gone past when it is at n.             *)
Before(set, n) == {c \in set : c < n}

(* The class that was found is the only one the loop has to choose: it     *)
(* stands for the set, 0 for none.                                         *)
Only(class, set) == set = {class} \ {0}

(* The class for VMs by its name and parameters, then by its parameters,   *)
(* then the EFS class: a second one would have ended the audit.            *)
ClassesFound ==
    /\ step = "byName" =>
           Only(virtSC, Before(Named \cap Virtual, i)) /\ unsetEfsSC = 0
    /\ step = "byParameters" =>
           /\ Named \cap Virtual = {}
           /\ Only(virtSC, Before(Virtual, i)) /\ unsetEfsSC = 0
    /\ step = "efs" => Only(virtSC, Meant) /\ Only(unsetEfsSC, Before(Unset, i))
    /\ step \in {"list", "vms", "volumes", "done"} =>
           Only(virtSC, Meant) /\ Only(unsetEfsSC, Unset)

(* The VMs that were judged.                                               *)
Judged == listed \ (waiting \cup {current})

(* Which VMs are listed, wait and are looked at, and that the marks are    *)
(* those of the volumes of the current VM up to here, all of them claims.  *)
AuditPosition ==
    /\ step \in {"byName", "byParameters", "efs"} => listed = {}
    /\ step \in {"list", "done"} => waiting = {}
    /\ step \notin {"volumes", "aborted"} => current = NoVM
    /\ step = "volumes" =>
           /\ current \in listed \ waiting
           /\ \A k \in DOMAIN volumes[current] : k < i => volumes[current][k].claim
           /\ \A m \in {"nonVirt", "unsetEfs"} :
                  m \in marks <=> \E k \in DOMAIN volumes[current] :
                                      k < i /\ AtFault(volumes[current][k], m)

(* What is reported of the VMs that were judged.                           *)
Reported ==
    /\ nonVirt \subseteq Culprits("nonVirt") /\ unsetEfs \subseteq Culprits("unsetEfs")
    /\ Culprits("nonVirt") \cap OnlyClaims \cap Judged \subseteq nonVirt
    /\ Culprits("unsetEfs") \cap OnlyClaims \cap Judged \subseteq unsetEfs

(* The inductive invariant of the audit.                                   *)
AuditInv ==
    /\ AuditTypeOK
    /\ i # 0
    /\ ClassesFound
    /\ AuditPosition
    /\ step # "aborted" => Reported
    /\ AbortIsExplained

(* The places of the list of classes, and of the volumes of any VM.        *)
LEMMA AuditPlaces ==
    ASSUME AuditTypeOK, i # 0
    PROVE  /\ i \in Nat /\ i + 1 \in Nat /\ i + 1 # 0
           /\ DOMAIN classes \subseteq Nat \ {0}
           /\ i \notin DOMAIN classes => \A c \in DOMAIN classes : c < i
           /\ \A v \in VMs :
                  /\ DOMAIN volumes[v] \subseteq Nat \ {0}
                  /\ i \notin DOMAIN volumes[v] => \A k \in DOMAIN volumes[v] : k < i
<1>1. classes \in Seq(ProvisionedClass)
  BY AuditListsAssumption DEF AuditTypeOK
<1>2. ASSUME NEW v \in VMs PROVE volumes[v] \in Seq(VolumeType)
  <2>1. volumes[v] \in VolumeLists \/ volumes[v] = <<>>
    BY DEF AuditTypeOK
  <2>2. <<>> \in Seq(VolumeType)
    OBVIOUS
  <2> QED
    BY <2>1, <2>2, AuditListsAssumption
<1>3. i \in Nat
  BY DEF AuditTypeOK
<1> QED
  BY <1>1, <1>2, <1>3, PlacesOfList

(* No class is found and no VM is listed at first.                         *)
LEMMA AuditInitInv ==
    ASSUME AuditInit
    PROVE  AuditInv
<1>1. AuditTypeOK /\ i # 0
  <2>1. namespace \in 1..NumNamespaces /\ i \in Nat /\ i # 0
    BY NamespacesAssumption DEF AuditInit
  <2>2. volumes \in [VMs -> VolumeLists \cup {<<>>}]
    BY DEF AuditInit
  <2>3. refused \in BOOLEAN /\ {virtSC, unsetEfsSC} \subseteq {0} \cup DOMAIN classes
    BY DEF AuditInit
  <2> QED
    BY <2>1, <2>2, <2>3 DEF AuditInit, AuditTypeOK
<1>2. ClassesFound
  <2>1. Before(Named \cap Virtual, i) = {}
    BY <1>1, AuditPlaces DEF AuditInit, Before, Named
  <2> QED
    BY <2>1 DEF AuditInit, ClassesFound, Only
<1>3. AuditPosition /\ Reported
  BY DEF AuditInit, AuditPosition, Reported, Judged, Culprits
<1> QED
  BY <1>1, <1>2, <1>3 DEF AuditInit, AuditInv, AbortIsExplained

(* What a volume shows is one of the two marks.                            *)
LEMMA FoundMarks ==
    ASSUME NEW volume, NEW m, m \in Found(volume)
    PROVE  m \in {"nonVirt", "unsetEfs"}
  BY DEF Found

(* Every step of the audit keeps the types.                                *)
LEMMA AuditTypes ==
    ASSUME AuditTypeOK, AuditPosition, [AuditNext]_auditVars
    PROVE  AuditTypeOK'
<1> USE DEF AuditTypeOK, listVars, classVars, scanVars, Goto, AuditAborts,
            Noted
<1>1. CASE ByName
  BY <1>1 DEF ByName
<1>2. CASE NoneByName
  BY <1>2 DEF NoneByName
<1>3. CASE ByParameters
  BY <1>3 DEF ByParameters
<1>4. CASE NoneByParameters
  BY <1>4 DEF NoneByParameters
<1>5. CASE Efs
  BY <1>5 DEF Efs
<1>6. CASE EndOfClasses
  BY <1>6 DEF EndOfClasses
<1>7. CASE Ambiguous
  BY <1>7 DEF Ambiguous
<1>8. ASSUME NEW found \in SUBSET (VMs \ listed), ListVMIs(found) PROVE AuditTypeOK'
  <2>1. volumes' \in [VMs -> VolumeLists \cup {<<>>}]
    BY <1>8 DEF ListVMIs
  <2> QED
    BY <1>8, <2>1 DEF ListVMIs
<1>9. ASSUME NEW v \in VMs, TakeVM(v) PROVE AuditTypeOK'
  BY <1>9 DEF TakeVM
<1>10. CASE ReadVolume
  <2>1. Found(Volume) \subseteq {"nonVirt", "unsetEfs"}
    BY FoundMarks
  <2>2. marks' = marks \cup Found(Volume) /\ i' = i + 1
    BY <1>10 DEF ReadVolume
  <2>3. UNCHANGED <<listVars, gone, refused, step, classVars, namespace, waiting, listed, current,
                    nonVirt, unsetEfs>>
    BY <1>10 DEF ReadVolume
  <2>4. marks' \subseteq {"nonVirt", "unsetEfs"}
    <3> DEFINE found == Found(Volume)
    <3> HIDE DEF found
    <3> QED
      BY <2>1, <2>2, Zenon DEF found
  <2>5. i' \in Nat
    BY <2>2
  <2> QED
    BY <2>3, <2>4, <2>5
<1>11. CASE Judge
  BY <1>11 DEF Judge, AuditPosition
<1>12. CASE EndOfVMs
  BY <1>12, NamespacesAssumption DEF EndOfVMs
<1>13. CASE NotFound
  BY <1>13 DEF NotFound
<1>14. CASE Refused
  BY <1>14 DEF Refused
<1>15. ASSUME NEW v \in VMs, DeleteVM(v) PROVE AuditTypeOK'
  BY <1>15 DEF DeleteVM
<1>16. CASE UNCHANGED auditVars
  BY <1>16 DEF auditVars
<1> QED
  BY <1>1, <1>2, <1>3, <1>4, <1>5, <1>6, <1>7, <1>8, <1>9, <1>10, <1>11, <1>12, <1>13, <1>14,
     <1>15, <1>16 DEF AuditNext, FindClasses, Audit

(* A loop begins with nothing behind it, and ends with the whole set there.*)
LEMMA BeforeEnds ==
    ASSUME NEW set \in SUBSET (Nat \ {0}), NEW n \in Nat
    PROVE  /\ Before(set, 1) = {}
           /\ (\A c \in set : c < n) => Before(set, n) = set
<1>1. ASSUME NEW c \in set PROVE ~(c < 1)
  BY <1>1
<1> QED
  BY <1>1, Zenon DEF Before

(* One turn of a loop, which takes the class it is at if it has none yet.  *)
LEMMA Turn ==
    ASSUME NEW set \in SUBSET (Nat \ {0}), NEW n \in Nat, NEW class, NEW next,
           Only(class, Before(set, n)), n \in set => class = 0,
           next = IF n \in set THEN n ELSE class
    PROVE  Only(next, Before(set, n + 1))
<1>1. ASSUME NEW c \in set PROVE c < n + 1 <=> c < n \/ c = n
  BY <1>1
<1>2. Before(set, n + 1) = IF n \in set THEN Before(set, n) \cup {n} ELSE Before(set, n)
  <2>1. CASE n \in set
    BY <1>1, <2>1, Zenon DEF Before
  <2>2. CASE n \notin set
    BY <1>1, <2>2, Zenon DEF Before
  <2> QED
    BY <2>1, <2>2
<1>3. CASE n \in set
  BY <1>2, <1>3 DEF Only
<1>4. CASE n \notin set
  BY <1>2, <1>4 DEF Only
<1> QED
  BY <1>3, <1>4

(* The loops over the classes keep what they found, or end the audit       *)
(* because of a class too many.                                            *)
LEMMA ClassesKept ==
    ASSUME AuditTypeOK, i # 0, ClassesFound, [AuditNext]_auditVars
    PROVE  ClassesFound'
<1> DEFINE both == Named \cap Virtual
           virt == Virtual
           unset == Unset
<1>1. /\ both \in SUBSET (Nat \ {0}) /\ virt \in SUBSET (Nat \ {0})
      /\ unset \in SUBSET (Nat \ {0}) /\ i \in Nat
      /\ i \notin DOMAIN classes => \A c \in both \cup virt \cup unset : c < i
  BY AuditPlaces DEF Named, Virtual, Unset
<1>2. UNCHANGED classes => both' = both /\ virt' = virt /\ unset' = unset /\ Meant' = Meant
  BY DEF Named, Virtual, Unset, Meant
<1>3. i \in DOMAIN classes =>
          /\ i \in both <=> classes[i].name /\ classes[i].virt
          /\ i \in virt <=> classes[i].virt
          /\ i \in unset <=> classes[i].unset
  BY DEF Named, Virtual, Unset
<1>4. Meant = IF both # {} THEN both ELSE virt
  BY DEF Meant
<1>5. 0 \notin both \cup virt \cup unset
  BY <1>1
<1> HIDE DEF both, virt, unset
<1>6. ClassesFound <=>
          /\ step = "byName" => Only(virtSC, Before(both, i)) /\ unsetEfsSC = 0
          /\ step = "byParameters" => both = {} /\ Only(virtSC, Before(virt, i)) /\ unsetEfsSC = 0
          /\ step = "efs" => Only(virtSC, Meant) /\ Only(unsetEfsSC, Before(unset, i))
          /\ step \in {"list", "vms", "volumes", "done"} =>
                 Only(virtSC, Meant) /\ Only(unsetEfsSC, unset)
  BY DEF ClassesFound, both, virt, unset
<1>7. ClassesFound' <=>
          /\ step' = "byName" => Only(virtSC', Before(both', i')) /\ unsetEfsSC' = 0
          /\ step' = "byParameters" =>
                 both' = {} /\ Only(virtSC', Before(virt', i')) /\ unsetEfsSC' = 0
          /\ step' = "efs" => Only(virtSC', Meant') /\ Only(unsetEfsSC', Before(unset', i'))
          /\ step' \in {"list", "vms", "volumes", "done"} =>
                 Only(virtSC', Meant') /\ Only(unsetEfsSC', unset')
  BY DEF ClassesFound, both, virt, unset, Only, Before
<1> USE DEF listVars, classVars, Goto
<1>8. CASE ByName
  <2>1. /\ i \in both => virtSC = 0
        /\ virtSC' = IF i \in both THEN i ELSE virtSC
        /\ step = "byName" /\ step' = "byName" /\ i' = i + 1 /\ both' = both
        /\ unsetEfsSC' = unsetEfsSC
    BY <1>2, <1>3, <1>8 DEF ByName
  <2>2. Only(virtSC', Before(both, i + 1))
    BY <1>1, <1>6, <2>1, Turn
  <2> QED
    BY <1>6, <1>7, <2>1, <2>2
<1>9. CASE NoneByName
  <2>1. /\ step = "byName" /\ step' = (IF virtSC # 0 THEN "efs" ELSE "byParameters") /\ i' = 1
        /\ UNCHANGED <<virtSC, unsetEfsSC>>
        /\ both' = both /\ virt' = virt /\ unset' = unset /\ Meant' = Meant
    BY <1>2, <1>9 DEF NoneByName
  <2>2. Before(both, i) = both /\ Before(virt, 1) = {} /\ Before(unset, 1) = {}
    BY <1>1, <1>9, BeforeEnds DEF NoneByName
  <2>3. Only(virtSC, both) /\ unsetEfsSC = 0
    BY <1>6, <2>1, <2>2
  <2>4. CASE virtSC # 0
    <3>1. Meant = both
      BY <1>4, <2>3, <2>4 DEF Only
    <3>2. Only(0, {})
      BY DEF Only
    <3> QED
      BY <1>7, <2>1, <2>2, <2>3, <2>4, <3>1, <3>2
  <2>5. CASE virtSC = 0
    <3>1. both = {} /\ Only(0, {})
      BY <2>3, <2>5 DEF Only
    <3> QED
      BY <1>7, <2>1, <2>2, <2>3, <2>5, <3>1
  <2> QED
    BY <2>4, <2>5
<1>10. CASE ByParameters
  <2>1. /\ i \in virt => virtSC = 0
        /\ virtSC' = IF i \in virt THEN i ELSE virtSC
        /\ step = "byParameters" /\ step' = "byParameters" /\ i' = i + 1
        /\ both' = both /\ virt' = virt
        /\ unsetEfsSC' = unsetEfsSC
    BY <1>2, <1>3, <1>10 DEF ByParameters
  <2>2. Only(virtSC', Before(virt, i + 1))
    BY <1>1, <1>6, <2>1, Turn
  <2> QED
    BY <1>6, <1>7, <2>1, <2>2
<1>11. CASE NoneByParameters
  <2>1. /\ step = "byParameters" /\ step' = "efs" /\ i' = 1
        /\ UNCHANGED <<virtSC, unsetEfsSC>>
        /\ both' = both /\ virt' = virt /\ unset' = unset /\ Meant' = Meant
    BY <1>2, <1>11 DEF NoneByParameters
  <2>2. Before(virt, i) = virt /\ Before(unset, 1) = {} /\ Only(0, {})
    BY <1>1, <1>11, BeforeEnds DEF NoneByParameters, Only
  <2> QED
    BY <1>4, <1>6, <1>7, <2>1, <2>2
<1>12. CASE Efs
  <2>1. /\ i \in unset => unsetEfsSC = 0
        /\ unsetEfsSC' = IF i \in unset THEN i ELSE unsetEfsSC
        /\ step = "efs" /\ step' = "efs" /\ i' = i + 1 /\ unset' = unset /\ Meant' = Meant
        /\ virtSC' = virtSC
    BY <1>2, <1>3, <1>12 DEF Efs
  <2>2. Only(unsetEfsSC', Before(unset, i + 1))
    BY <1>1, <1>6, <2>1, Turn
  <2> QED
    BY <1>6, <1>7, <2>1, <2>2
<1>13. CASE EndOfClasses
  <2>1. /\ step = "efs" /\ step' \in {"list", "done"}
        /\ UNCHANGED <<virtSC, unsetEfsSC>>
        /\ unset' = unset /\ Meant' = Meant
    BY <1>2, <1>13 DEF EndOfClasses
  <2>2. Before(unset, i) = unset
    BY <1>1, <1>13, BeforeEnds DEF EndOfClasses
  <2> QED
    BY <1>6, <1>7, <2>1, <2>2
<1>14. CASE Ambiguous \/ NotFound \/ Refused
  BY <1>7, <1>14 DEF Ambiguous, NotFound, Refused, AuditAborts
<1>15. CASE UNCHANGED auditVars
  BY <1>2, <1>6, <1>7, <1>15 DEF auditVars
<1>16. ASSUME (\E found \in SUBSET (VMs \ listed) : ListVMIs(found))
              \/ (\E v \in VMs : TakeVM(v)) \/ ReadVolume \/ Judge
              \/ EndOfVMs \/ (\E v \in VMs : DeleteVM(v))
       PROVE  ClassesFound'
  <2>1. /\ UNCHANGED <<classes, virtSC, unsetEfsSC>>
        /\ \/ UNCHANGED <<step, i>>
           \/ step \in {"list", "vms", "volumes"} /\ step' \in {"list", "vms", "volumes", "done"}
    BY <1>16 DEF ListVMIs, TakeVM, ReadVolume, Judge, EndOfVMs,
       DeleteVM
  <2> QED
    BY <1>2, <1>6, <1>7, <2>1
<1> QED
  BY <1>8, <1>9, <1>10, <1>11, <1>12, <1>13, <1>14, <1>15, <1>16
     DEF AuditNext, FindClasses, Audit

(* Whether volume k of VM v is at fault depends on the classes and on the  *)
(* volume only.                                                            *)
Faulty(v, k, m) == AtFault(volumes[v][k], m)

LEMMA SameFault ==
    ASSUME UNCHANGED classes, NEW v, volumes'[v] = volumes[v], NEW k, NEW m
    PROVE  Faulty(v, k, m)' <=> Faulty(v, k, m)
<1>1. Meant' = Meant /\ Unset' = Unset
  BY DEF Meant, Named, Virtual, Unset
<1> QED
  BY <1>1, Zenon DEF Faulty, AtFault

(* What is found in a claim is what it is at fault for, once the classes   *)
(* are known.                                                              *)
LEMMA FoundIsFault ==
    ASSUME NEW volume, volume.claim, Only(virtSC, Meant), Only(unsetEfsSC, Unset),
           NEW m \in {"nonVirt", "unsetEfs"}
    PROVE  m \in Found(volume) <=> AtFault(volume, m)
<1>1. Meant # {} /\ volume.class \notin Meant <=> virtSC # 0 /\ volume.class # virtSC
  BY DEF Only
<1>2. volume.class \in Unset <=> unsetEfsSC # 0 /\ volume.class = unsetEfsSC
  BY DEF Only
<1>3. CASE m = "nonVirt"
  BY <1>1, <1>3 DEF Found, AtFault
<1>4. CASE m = "unsetEfs"
  BY <1>2, <1>4 DEF Found, AtFault
<1> QED
  BY <1>3, <1>4

(* The marks of the VM that is looked at stay those of its volumes.        *)
LEMMA PositionKept ==
    ASSUME AuditTypeOK, i # 0, ClassesFound, AuditPosition, [AuditNext]_auditVars
    PROVE  AuditPosition'
<1> DEFINE Marked ==
        step = "volumes" =>
           /\ current \in listed \ waiting
           /\ \A k \in DOMAIN volumes[current] : k < i => volumes[current][k].claim
           /\ \A m \in {"nonVirt", "unsetEfs"} :
                  m \in marks <=> \E k \in DOMAIN volumes[current] : k < i /\ Faulty(current, k, m)
<1> DEFINE Placed ==
        /\ step \in {"byName", "byParameters", "efs"} => listed = {}
        /\ step \in {"list", "done"} => waiting = {}
        /\ step \notin {"volumes", "aborted"} => current = NoVM
<1>1. AuditPosition <=> Placed /\ Marked
  BY DEF AuditPosition, Faulty
<1>2. AuditPosition' <=> Placed' /\ Marked'
  BY DEF AuditPosition, Faulty
<1> HIDE DEF Marked
<1>3. Placed'
  <2> USE <1>1 DEF listVars, classVars, scanVars, Goto, AuditAborts
  <2>1. CASE FindClasses
    <3>1. waiting = {}
      BY <2>1 DEF AuditTypeOK, FindClasses, ByName, NoneByName, ByParameters,
         NoneByParameters, Efs, EndOfClasses, Ambiguous
    <3> QED
      BY <2>1, <3>1 DEF FindClasses, ByName, NoneByName, ByParameters,
         NoneByParameters, Efs, EndOfClasses, Ambiguous
  <2>2. CASE Audit
    BY <2>2 DEF Audit, ListVMIs, TakeVM, ReadVolume, Judge,
       EndOfVMs, NotFound, Refused
  <2>3. CASE (\E v \in VMs : DeleteVM(v)) \/ UNCHANGED auditVars
    BY <2>3 DEF DeleteVM, auditVars
  <2> QED
    BY <2>1, <2>2, <2>3 DEF AuditNext
<1>4. Marked'
  <2>1. ASSUME NEW v \in VMs, TakeVM(v) PROVE Marked'
    <3>1. /\ current' = v /\ marks' = {} /\ i' = 1 /\ waiting' = waiting \ {v}
          /\ UNCHANGED <<volumes, listed>> /\ v \in waiting
      BY <2>1 DEF TakeVM, Goto, listVars
    <3>2. ASSUME NEW k \in DOMAIN volumes[v] PROVE ~(k < 1)
      BY AuditPlaces
    <3>3. current' \in listed' \ waiting'
      BY <3>1 DEF AuditTypeOK
    <3>4. volumes'[current'] = volumes[v]
      BY <3>1
    <3> QED
      BY <3>1, <3>2, <3>3, <3>4, Zenon DEF Marked
  <2>2. CASE ReadVolume
    <3>1. /\ step = "volumes" /\ i \in DOMAIN volumes[current]
          /\ volumes[current][i].claim
          /\ marks' = marks \cup Found(volumes[current][i])
          /\ i' = i + 1
          /\ UNCHANGED <<classes, volumes, current, listed, waiting>>
      BY <2>2 DEF ReadVolume, Volume, listVars
    <3>2. ASSUME NEW k \in DOMAIN volumes[current] PROVE k < i + 1 <=> k < i \/ k = i
      <4>1. current \in VMs
        BY <1>1, <3>1 DEF Marked, AuditTypeOK
      <4>2. k \in Nat /\ i \in Nat
        BY <4>1, AuditPlaces
      <4> QED
        BY <4>2
    <3>3. ASSUME NEW m \in {"nonVirt", "unsetEfs"}
          PROVE  m \in Found(volumes[current][i]) <=> Faulty(current, i, m)
      <4>1. Only(virtSC, Meant) /\ Only(unsetEfsSC, Unset)
        BY <3>1 DEF ClassesFound
      <4> QED
        BY <3>1, <4>1, FoundIsFault DEF Faulty
    <3>4. ASSUME NEW k, NEW m PROVE Faulty(current, k, m)' <=> Faulty(current, k, m)
      <4>1. Faulty(current, k, m)' <=> AtFault(volumes[current][k], m)'
        BY DEF Faulty
      <4>2. Meant' = Meant /\ Unset' = Unset
        BY <3>1 DEF Meant, Named, Virtual, Unset
      <4> QED
        BY <3>1, <4>2, Zenon DEF Faulty, AtFault
    <3>5. current' \in listed' \ waiting'
      BY <1>1, <3>1 DEF Marked
    <3>6. \A k \in DOMAIN volumes'[current'] : k < i' => volumes'[current'][k].claim
      BY <1>1, <3>1, <3>2 DEF Marked
    <3>7. ASSUME NEW m \in {"nonVirt", "unsetEfs"}
          PROVE  m \in marks' <=>
                     \E k \in DOMAIN volumes'[current'] : k < i' /\ Faulty(current, k, m)'
      <4>1. m \in marks' <=> m \in marks \/ Faulty(current, i, m)
        BY <3>1, <3>3
      <4>2. m \in marks <=> \E k \in DOMAIN volumes[current] : k < i /\ Faulty(current, k, m)
        BY <1>1, <3>1 DEF Marked
      <4>3. volumes'[current'] = volumes[current] /\ i' = i + 1 /\ i \in DOMAIN volumes[current]
        BY <3>1
      <4> QED
        BY <4>1, <4>2, <4>3, <3>2, <3>4, Zenon
    <3> QED
      BY <3>5, <3>6, <3>7, Zenon DEF Marked
  <2>3. ASSUME (\E found \in SUBSET (VMs \ listed) : ListVMIs(found))
               \/ Judge \/ EndOfVMs \/ NotFound \/ Refused
               \/ FindClasses
        PROVE  Marked'
    <3>1. step' # "volumes"
      BY <2>3 DEF ListVMIs, Judge, EndOfVMs, NotFound, Refused,
         Goto, AuditAborts, FindClasses, ByName, NoneByName, ByParameters,
         NoneByParameters, Efs, EndOfClasses, Ambiguous
    <3> QED
      BY <3>1 DEF Marked
  <2>4. CASE (\E v \in VMs : DeleteVM(v)) \/ UNCHANGED auditVars
    <3>1. UNCHANGED <<classes, volumes, current, listed, waiting, marks, i, step>>
      BY <2>4 DEF DeleteVM, auditVars, listVars, scanVars
    <3>2. Meant' = Meant /\ Unset' = Unset
      BY <3>1 DEF Meant, Named, Virtual, Unset
    <3>3. ASSUME NEW k, NEW m PROVE Faulty(current, k, m)' <=> Faulty(current, k, m)
      BY <3>1, <3>2, Zenon DEF Faulty, AtFault
    <3> QED
      BY <1>1, <3>1, <3>3 DEF Marked
  <2> QED
    BY <2>1, <2>2, <2>3, <2>4 DEF AuditNext, Audit
<1> QED
  BY <1>2, <1>3, <1>4

(* A step that judges no VM leaves what is reported right: VMs that are    *)
(* listed later are not judged yet, and the volumes of the others stay.    *)
LEMMA SameReport ==
    ASSUME Reported, UNCHANGED <<classes, nonVirt, unsetEfs>>, listed \subseteq listed',
           \A v \in listed : volumes'[v] = volumes[v], Judged' \subseteq Judged,
           listed' \subseteq VMs
    PROVE  Reported'
<1>1. ASSUME NEW v \in listed, NEW m
      PROVE  v \in Culprits(m) <=> \E k \in DOMAIN volumes[v] : Faulty(v, k, m)
  BY Zenon DEF Culprits, Faulty
<1>2. ASSUME NEW v \in listed', NEW m
      PROVE  v \in Culprits(m)' <=> \E k \in DOMAIN volumes'[v] : Faulty(v, k, m)'
  BY Zenon DEF Culprits, Faulty
<1>3. ASSUME NEW v \in listed, NEW m
      PROVE  v \in Culprits(m) <=> v \in Culprits(m)'
  <2>1. v \in listed' /\ volumes'[v] = volumes[v]
    OBVIOUS
  <2>2. ASSUME NEW k PROVE Faulty(v, k, m)' <=> Faulty(v, k, m)
    BY <2>1, SameFault
  <2> QED
    BY <1>1, <1>2, <2>1, <2>2, Zenon
<1>4. ASSUME NEW v \in listed PROVE v \in OnlyClaims <=> v \in OnlyClaims'
  BY Zenon DEF OnlyClaims
<1>5. Judged \subseteq listed
  BY DEF Judged
<1>6. ASSUME NEW m, Culprits(m) \subseteq listed
      PROVE  Culprits(m) \subseteq Culprits(m)'
  BY <1>3, <1>6
<1>7. ASSUME NEW m PROVE Culprits(m) \subseteq listed
  BY DEF Culprits
<1>8. ASSUME NEW m
      PROVE  Culprits(m)' \cap OnlyClaims' \cap Judged'
                 \subseteq Culprits(m) \cap OnlyClaims \cap Judged
  BY <1>3, <1>4, <1>5
<1>9. /\ nonVirt' \subseteq Culprits("nonVirt")'
      /\ unsetEfs' \subseteq Culprits("unsetEfs")'
      /\ Culprits("nonVirt")' \cap OnlyClaims' \cap Judged' \subseteq nonVirt'
      /\ Culprits("unsetEfs")' \cap OnlyClaims' \cap Judged' \subseteq unsetEfs'
  BY <1>6, <1>7, <1>8 DEF Reported
<1> QED
  BY <1>9 DEF Reported

(* The VM that is judged is reported for what its volumes show, of which   *)
(* none is left unread if all of them are claims.                          *)
LEMMA JudgeReports ==
    ASSUME AuditTypeOK, i # 0, AuditPosition, Reported, Judge
    PROVE  Reported'
<1>1. /\ step = "volumes" /\ current' = NoVM
      /\ i \in DOMAIN volumes[current] => ~volumes[current][i].claim
      /\ nonVirt' = Noted(nonVirt, "nonVirt") /\ unsetEfs' = Noted(unsetEfs, "unsetEfs")
      /\ UNCHANGED <<classes, volumes, listed, waiting>>
  BY DEF Judge, Volume, listVars
<1>2. /\ current \in listed /\ current \in VMs
      /\ \A m \in {"nonVirt", "unsetEfs"} :
             m \in marks <=> \E k \in DOMAIN volumes[current] :
                                 k < i /\ AtFault(volumes[current][k], m)
  BY <1>1 DEF AuditPosition, AuditTypeOK
<1>3. ASSUME NEW m PROVE Culprits(m)' = Culprits(m)
  <2>1. Meant' = Meant /\ Unset' = Unset
    BY <1>1 DEF Meant, Named, Virtual, Unset
  <2> QED
    BY <1>1, <2>1, Zenon DEF Culprits, AtFault
<1>4. OnlyClaims' = OnlyClaims
  BY <1>1 DEF OnlyClaims
<1>5. Judged' \subseteq Judged \cup {current}
  BY <1>1 DEF Judged, AuditTypeOK
<1>6. ASSUME NEW m \in {"nonVirt", "unsetEfs"}, m \in marks PROVE current \in Culprits(m)
  BY <1>2, <1>6, Zenon DEF Culprits
<1>7. ASSUME NEW m \in {"nonVirt", "unsetEfs"}, current \in Culprits(m) \cap OnlyClaims
      PROVE  m \in marks
  <2>1. i \notin DOMAIN volumes[current]
    BY <1>1, <1>2, <1>7 DEF OnlyClaims
  <2>2. \A k \in DOMAIN volumes[current] : k < i
    BY <1>2, <2>1, AuditPlaces
  <2>3. \E k \in DOMAIN volumes[current] : AtFault(volumes[current][k], m)
    BY <1>7, Zenon DEF Culprits
  <2> QED
    BY <1>2, <2>2, <2>3
<1>8. ASSUME NEW set, NEW m \in {"nonVirt", "unsetEfs"}, set \subseteq Culprits(m),
             Culprits(m) \cap OnlyClaims \cap Judged \subseteq set
      PROVE  /\ Noted(set, m) \subseteq Culprits(m)
             /\ Culprits(m) \cap OnlyClaims \cap Judged' \subseteq Noted(set, m)
  BY <1>5, <1>6, <1>7, <1>8 DEF Noted
<1>9. /\ nonVirt' \subseteq Culprits("nonVirt")'
      /\ unsetEfs' \subseteq Culprits("unsetEfs")'
      /\ Culprits("nonVirt")' \cap OnlyClaims' \cap Judged' \subseteq nonVirt'
      /\ Culprits("unsetEfs")' \cap OnlyClaims' \cap Judged' \subseteq unsetEfs'
  BY <1>1, <1>3, <1>4, <1>8 DEF Reported
<1> QED
  BY <1>9 DEF Reported

(* Every step of the audit keeps the report right, unless it aborts.       *)
LEMMA ReportedKept ==
    ASSUME AuditTypeOK, AuditTypeOK', i # 0, AuditPosition, AuditPosition',
           step # "aborted" => Reported, [AuditNext]_auditVars, step' # "aborted"
    PROVE  Reported'
<1> USE DEF listVars, classVars, scanVars, Goto, AuditAborts
<1>1. listed' \subseteq VMs
  BY DEF AuditTypeOK
<1>2. ASSUME NEW found \in SUBSET (VMs \ listed), ListVMIs(found) PROVE Reported'
  <2>1. /\ step = "list" /\ current' = current /\ waiting' = found /\ listed' = listed \cup found
        /\ UNCHANGED <<classes, nonVirt, unsetEfs>>
    BY <1>2 DEF ListVMIs
  <2>2. waiting = {} /\ current = NoVM
    BY <2>1 DEF AuditPosition
  <2>3. ASSUME NEW v \in listed PROVE volumes'[v] = volumes[v]
    BY <1>2 DEF ListVMIs, AuditTypeOK
  <2>4. Judged' \subseteq Judged
    BY <2>1, <2>2 DEF Judged
  <2> QED
    BY <1>1, <2>1, <2>3, <2>4, SameReport
<1>3. ASSUME NEW v \in VMs, TakeVM(v) PROVE Reported'
  <2>1. /\ step = "vms" /\ current' = v /\ waiting' = waiting \ {v}
        /\ UNCHANGED <<classes, volumes, listed, nonVirt, unsetEfs>>
    BY <1>3 DEF TakeVM
  <2>2. Judged' \subseteq Judged
    BY <2>1, NoVMAssumption DEF Judged, AuditPosition, AuditTypeOK
  <2> QED
    BY <1>1, <2>1, <2>2, SameReport
<1>4. CASE Judge
  <2>1. step # "aborted"
    BY <1>4 DEF Judge
  <2> QED
    BY <1>4, <2>1, JudgeReports
<1>5. ASSUME FindClasses \/ ReadVolume \/ EndOfVMs \/ NotFound
             \/ Refused \/ (\E v \in VMs : DeleteVM(v)) \/ UNCHANGED auditVars
      PROVE  Reported'
  <2>1. /\ step # "aborted"
        /\ UNCHANGED <<classes, volumes, listed, nonVirt, unsetEfs, waiting, current>>
    BY <1>5 DEF FindClasses, ByName, NoneByName, ByParameters,
       NoneByParameters, Efs, EndOfClasses, Ambiguous, ReadVolume,
       EndOfVMs, NotFound, Refused, DeleteVM, auditVars
  <2>2. Judged' = Judged
    BY <2>1 DEF Judged
  <2> QED
    BY <1>1, <2>1, <2>2, SameReport
<1>6. \/ \E found \in SUBSET (VMs \ listed) : ListVMIs(found)
      \/ \E v \in VMs : TakeVM(v)
      \/ Judge
      \/ FindClasses \/ ReadVolume \/ EndOfVMs \/ NotFound
         \/ Refused \/ (\E v \in VMs : DeleteVM(v)) \/ UNCHANGED auditVars
  BY DEF AuditNext, Audit
<1> QED
  BY <1>2, <1>3, <1>4, <1>5, <1>6

(* Every way to abort leaves its reason behind, and no reason goes away.   *)
LEMMA AbortKept ==
    ASSUME AuditTypeOK, i # 0, ClassesFound, AuditPosition, AbortIsExplained,
           [AuditNext]_auditVars
    PROVE  AbortIsExplained'
<1> DEFINE Explained ==
        ~AtMostOne(Named) \/ ~AtMostOne(Virtual)
        \/ ~AtMostOne(Unset)
        \/ gone \cap listed # {} \/ refused
<1>1. AbortIsExplained <=> (step = "aborted" => Explained)
  BY DEF AbortIsExplained
<1>2. AbortIsExplained' <=> (step' = "aborted" => Explained')
  BY DEF AbortIsExplained
<1>3. ASSUME Explained, UNCHANGED classes, gone \subseteq gone', listed \subseteq listed',
             refused => refused'
      PROVE  Explained'
  <2>1. UNCHANGED <<Named, Virtual, Unset>>
    BY <1>3 DEF Named, Virtual, Unset
  <2> QED
    BY <1>3, <2>1 DEF AtMostOne
<1>4. CASE Ambiguous
  <2>1. UNCHANGED <<classes, gone, listed, refused>> /\ i \in DOMAIN classes
    BY <1>4 DEF Ambiguous, AuditAborts, listVars, scanVars
  <2>2. ASSUME NEW set, NEW c, Only(c, Before(set, i)), c # 0, i \in set PROVE ~AtMostOne(set)
    <3>1. c \in set /\ c < i
      BY <2>2 DEF Only, Before
    <3>2. i \in Nat
      BY DEF AuditTypeOK
    <3>3. c # i
      BY <3>1, <3>2
    <3> QED
      BY <2>2, <3>1, <3>3 DEF AtMostOne
  <2>3. CASE step = "byName" /\ virtSC # 0 /\ classes[i].name
    <3>1. Only(virtSC, Before(Named \cap Virtual, i))
      BY <2>3 DEF ClassesFound
    <3>2. virtSC \in Named /\ virtSC < i /\ i \in Named
      BY <2>1, <2>3, <3>1 DEF Only, Before, Named
    <3>3. i \in Nat
      BY DEF AuditTypeOK
    <3>4. virtSC # i
      BY <3>2, <3>3
    <3>5. ~AtMostOne(Named)
      BY <3>2, <3>4 DEF AtMostOne
    <3> QED
      BY <1>2, <1>3, <2>1, <3>5
  <2>4. CASE step = "byParameters" /\ virtSC # 0 /\ classes[i].virt
    <3>1. Only(virtSC, Before(Virtual, i)) /\ i \in Virtual
      BY <2>1, <2>4 DEF ClassesFound, Virtual
    <3>2. ~AtMostOne(Virtual)
      BY <2>2, <2>4, <3>1
    <3> QED
      BY <1>2, <1>3, <2>1, <3>2
  <2>5. CASE step = "efs" /\ unsetEfsSC # 0 /\ classes[i].unset
    <3>1. Only(unsetEfsSC, Before(Unset, i)) /\ i \in Unset
      BY <2>1, <2>5 DEF ClassesFound, Unset
    <3>2. ~AtMostOne(Unset)
      BY <2>2, <2>5, <3>1
    <3> QED
      BY <1>2, <1>3, <2>1, <3>2
  <2> QED
    BY <1>4, <2>3, <2>4, <2>5 DEF Ambiguous
<1>5. CASE NotFound
  <2>1. current \in gone \cap listed /\ UNCHANGED <<classes, gone, listed, refused>>
    BY <1>5 DEF NotFound, AuditAborts, listVars, scanVars, AuditPosition
  <2> QED
    BY <1>2, <1>3, <2>1
<1>6. CASE Refused
  BY <1>2, <1>6 DEF Refused
<1>7. CASE (\E v \in VMs : DeleteVM(v)) \/ UNCHANGED auditVars
  <2>1. UNCHANGED <<classes, listed, refused, step>> /\ gone \subseteq gone'
    BY <1>7 DEF DeleteVM, auditVars, listVars, scanVars
  <2> QED
    BY <1>1, <1>2, <1>3, <2>1
<1>8. ASSUME ByName \/ NoneByName \/ ByParameters \/ NoneByParameters
             \/ Efs \/ EndOfClasses \/ ReadVolume \/ Judge
             \/ EndOfVMs \/ (\E v \in VMs : TakeVM(v))
             \/ (\E found \in SUBSET (VMs \ listed) : ListVMIs(found))
      PROVE  AbortIsExplained'
  <2>1. step' # "aborted"
    BY <1>8 DEF ByName, NoneByName, ByParameters, NoneByParameters,
       Efs, EndOfClasses, ReadVolume, Judge, EndOfVMs,
       TakeVM, ListVMIs, Goto
  <2> QED
    BY <1>2, <2>1
<1> QED
  BY <1>4, <1>5, <1>6, <1>7, <1>8 DEF AuditNext, FindClasses, Audit

(* The place of a loop is never 0.                                         *)
LEMMA PlaceKept ==
    ASSUME i \in Nat, i # 0, [AuditNext]_auditVars
    PROVE  i' # 0
<1>1. i' = i \/ i' = 1 \/ i' = i + 1
  BY DEF AuditNext, FindClasses, Audit, ByName, NoneByName, ByParameters,
     NoneByParameters, Efs, EndOfClasses, Ambiguous, ListVMIs,
     TakeVM, ReadVolume, Judge, EndOfVMs, NotFound, Refused,
     DeleteVM, Goto, AuditAborts, auditVars
<1> QED
  BY <1>1

(* The invariant of the audit: for any VMs, any lists of classes and of    *)
(* volumes, any number of namespaces, and any deletions while it reads.    *)
LEMMA AuditKept == AuditSpec => []AuditInv
<1>1. ASSUME AuditInv, [AuditNext]_auditVars PROVE AuditInv'
  <2>1. AuditTypeOK /\ i # 0 /\ i \in Nat /\ ClassesFound /\ AuditPosition
        /\ AbortIsExplained
        /\ (step # "aborted" => Reported)
    BY <1>1 DEF AuditInv, AuditTypeOK
  <2>2. AuditTypeOK'
    BY <1>1, <2>1, AuditTypes
  <2>3. i' # 0
    BY <1>1, <2>1, PlaceKept
  <2>4. ClassesFound'
    BY <1>1, <2>1, ClassesKept
  <2>5. AuditPosition'
    BY <1>1, <2>1, PositionKept
  <2>6. ASSUME step' # "aborted" PROVE Reported'
    BY <1>1, <2>1, <2>2, <2>5, <2>6, ReportedKept
  <2>7. AbortIsExplained'
    BY <1>1, <2>1, AbortKept
  <2> QED
    BY <2>2, <2>3, <2>4, <2>5, <2>6, <2>7 DEF AuditInv
<1>2. AuditInit => AuditInv
  BY AuditInitInv
<1> QED
  BY <1>1, <1>2, PTL DEF AuditSpec

(* The types of the audit's state.                                         *)
THEOREM AuditTypeCorrect == AuditSpec => []AuditTypeOK
<1>1. AuditInv => AuditTypeOK
  BY DEF AuditInv
<1> QED
  BY <1>1, AuditKept, PTL

(* The audit aborts Run only for classes that cannot be told apart, a      *)
(* request that was refused, or a VM that was deleted after it was listed. *)
THEOREM AbortCorrect == AuditSpec => []AbortIsExplained
<1>1. AuditInv => AbortIsExplained
  BY DEF AuditInv
<1> QED
  BY <1>1, AuditKept, PTL

(* The VMs it reports are exactly those with a volume at fault, but for    *)
(* the ones that also have a volume that is no claim.                      *)
THEOREM AuditCorrect == AuditSpec => []AuditIsExact
<1>1. AuditInv => AuditIsExact
  <2>1. SUFFICES ASSUME AuditInv, step = "done"
                 PROVE  /\ nonVirt \subseteq Culprits("nonVirt")
                        /\ unsetEfs \subseteq Culprits("unsetEfs")
                        /\ Culprits("nonVirt") \cap OnlyClaims \subseteq nonVirt
                        /\ Culprits("unsetEfs") \cap OnlyClaims \subseteq unsetEfs
    BY DEF AuditIsExact
  <2>2. Reported /\ waiting = {} /\ current = NoVM /\ listed \subseteq VMs
    BY <2>1 DEF AuditInv, AuditPosition, AuditTypeOK
  <2>3. ASSUME NEW m PROVE Culprits(m) \subseteq Judged
    BY <2>2, NoVMAssumption DEF Culprits, Judged
  <2> QED
    BY <2>2, <2>3 DEF Reported
<1> QED
  BY <1>1, AuditKept, PTL
===============================================================================
