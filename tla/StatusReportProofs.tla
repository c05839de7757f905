-------------------------- MODULE StatusReportProofs --------------------------
(***************************************************************************)
(* Proofs about StatusReport for every set of processes, every set of      *)
(* specs that users may write and every number of edits.                   *)
(***************************************************************************)
EXTENDS StatusReport, TLAPS

(* Whoever holds the current version of the ConfigMap holds the ConfigMap: *)
(* the optimistic concurrency of the API server.                           *)
Versions ==
    \A p \in Processes :
        /\ copy[p].version <= cm.version
        /\ copy[p].version = cm.version => copy[p] = cm

(* What a process has stored, by the request it is at.                     *)
Progress ==
    \A p \in Processes :
        /\ pc[p] \in {"run", "putFinal"} => p \in claimed /\ copy[p].start = p
        /\ p \in claimed => pc[p] \in {"run", "putFinal", "exited"}
        /\ p \in completed => pc[p] = "exited"

(* The timestamps in the ConfigMap are those of reports that were stored.  *)
Timestamps == cm.start \in claimed \cup {None} /\ cm.done \in completed \cup {None}

(* Until the user takes them away, the defaults that a process wrote stay. *)
DefaultsStay ==
    edits = 0 => \A p \in Processes :
        pc[p] \in {"check", "getStart", "putStart", "run", "putFinal"} => cm.defaulted

(* A process that found the ConfigMap in use gets no further than the      *)
(* second read, as long as the ConfigMap has a start timestamp.            *)
LateAreRefused ==
    \A p \in late :
        /\ cm.start # None
        /\ p \notin claimed
        /\ pc[p] \in {"getDefaults", "putDefaults", "check", "exited"}

(* A start report that is no longer the last word was disturbed.           *)
StaleAreDisturbed ==
    \A p \in Processes :
        pc[p] \in {"run", "putFinal"} /\ p \notin Reporting => p \in disturbed

(* The inductive invariant.                                                *)
IInv ==
    /\ TypeOK /\ Versions /\ Progress /\ Timestamps /\ DefaultsStay
    /\ LateAreRefused /\ StaleAreDisturbed /\ LostReportIsExplained
-----------------------------------------------------------------------------
(* The ConfigMap as the user applied it satisfies the invariant.           *)
LEMMA InitIInv == Init => IInv
<1> SUFFICES ASSUME Init PROVE IInv
  OBVIOUS
<1>1. PICK spec \in Specs : cm = Fresh(spec, 0)
  BY DEF Init
<1>2. TypeOK
  BY <1>1, EditsAssumption DEF EditsAssumption, Init, TypeOK, ConfigMaps, Fresh, Owner, PCs, Exits
<1> QED
  BY <1>1, <1>2, EditsAssumption DEF EditsAssumption, Init, IInv, Versions, Progress, Timestamps, DefaultsStay,
     LateAreRefused, StaleAreDisturbed, LostReportIsExplained, Reporting, Fresh

(* The objects that the two updates before the run send.                   *)
LEMMA Rewritten ==
    ASSUME NEW c \in ConfigMaps
    PROVE  /\ \A p \in Processes :
                [c EXCEPT !.start = p, !.version = c.version + 1] \in ConfigMaps
           /\ [c EXCEPT !.defaulted = TRUE, !.version = c.version + 1] \in ConfigMaps
<1>1. c.version + 1 \in Nat /\ Processes \subseteq Owner
  BY DEF ConfigMaps, Owner
<1>2. TRUE \in BOOLEAN
  OBVIOUS
<1> QED
  BY <1>1, <1>2, Zenon DEF ConfigMaps

(* An update that is stored was made of the ConfigMap as it was.           *)
LEMMA UpdateStores ==
    ASSUME IInv, NEW p \in Processes, NEW new, NEW a \in Answers, Update(p, new, a), cm' # cm
    PROVE  /\ copy[p] = cm
           /\ a \in {"ok", "unacked"}
           /\ cm' = [new EXCEPT !.version = cm.version + 1]
BY DEF IInv, Versions, Update, Answers

(* Requests that do not write.                                             *)
LEMMA ReadsPreserve ==
    ASSUME IInv, NEW p \in Processes, NEW a \in {"ok", "refused"},
           Begin(p, a) \/ GetDefaults(p, a) \/ Check(p, a) \/ GetStart(p, a) \/ Run(p) \/ Kill(p)
    PROVE  IInv'
<1> USE DEF IInv, TypeOK, PCs, Exits, Goto, Exit, Get, histVars
<1>1. TypeOK'
  BY DEF Begin, GetDefaults, Check, GetStart, Run, Kill
<1>2. cm' = cm /\ edits' = edits /\ claimed' = claimed /\ completed' = completed
  BY DEF Begin, GetDefaults, Check, GetStart, Run, Kill
<1>3. Versions'
  BY <1>2 DEF Begin, GetDefaults, Check, GetStart, Run, Kill, Versions, ConfigMaps
<1>4. Progress'
  BY <1>2 DEF Begin, GetDefaults, Check, GetStart, Run, Kill, Progress
<1>5. Timestamps'
  BY <1>2 DEF Timestamps
<1>6. DefaultsStay'
  BY <1>2 DEF Begin, GetDefaults, Check, GetStart, Run, Kill, DefaultsStay
<1>7. LateAreRefused'
  BY <1>2 DEF Begin, GetDefaults, Check, GetStart, Run, Kill, LateAreRefused, Progress, InUse
<1>8. StaleAreDisturbed'
  BY <1>2 DEF Begin, GetDefaults, Check, GetStart, Run, Kill, StaleAreDisturbed, Reporting
<1>9. LostReportIsExplained'
  BY <1>2 DEF Begin, GetDefaults, Check, GetStart, Run, Kill, LostReportIsExplained, Progress
<1> QED
  BY <1>1, <1>3, <1>4, <1>5, <1>6, <1>7, <1>8, <1>9

(* The update that adds the defaults: before the first edit it changes     *)
(* nothing that a reporting process could miss.                            *)
LEMMA PutDefaultsPreserves ==
    ASSUME IInv, NEW p \in Processes, NEW a \in Answers, PutDefaults(p, a)
    PROVE  IInv'
<1> USE DEF IInv, TypeOK, PCs, Exits, Goto, Exit, histVars, Error
<1> DEFINE new == [copy[p] EXCEPT !.defaulted = TRUE]
<1>1. copy' = copy /\ edits' = edits /\ claimed' = claimed /\ completed' = completed /\ late' = late
  BY DEF PutDefaults
<1>2. pc[p] = "putDefaults" /\ Update(p, new, a)
  BY DEF PutDefaults
<1>3. CASE cm' = cm
  <2>1. disturbed' = disturbed
    BY <1>3 DEF PutDefaults
  <2>2. Reporting' = Reporting
    BY <1>1, <1>3 DEF PutDefaults, Reporting
  <2>3. a # "ok" => pc' = [pc EXCEPT ![p] = "exited"]
    BY DEF PutDefaults
  <2>4. a = "ok" => pc' = [pc EXCEPT ![p] = "check"] /\ cm.defaulted
    <3> SUFFICES ASSUME a = "ok" PROVE pc' = [pc EXCEPT ![p] = "check"] /\ cm.defaulted
      OBVIOUS
    <3>1. copy[p] = cm
      BY <1>2 DEF Update, Versions
    <3>2. new = cm \/ cm = [new EXCEPT !.version = cm.version + 1]
      BY <1>2, <1>3 DEF Update
    <3>3. cm.version # cm.version + 1
      BY DEF ConfigMaps
    <3>4. new.defaulted = TRUE /\ new.version = cm.version
      BY <3>1 DEF ConfigMaps
    <3>5. cm.defaulted
      BY <3>2, <3>4 DEF ConfigMaps
    <3> QED
      BY <3>5 DEF PutDefaults
  <2>5. TypeOK'
    BY <1>1, <1>3, <2>1 DEF PutDefaults
  <2>6. Versions' /\ Timestamps' /\ Progress' /\ LateAreRefused'
    BY <1>1, <1>3, <2>3, <2>4, <1>2 DEF Versions, Timestamps, Progress, LateAreRefused
  <2>7. DefaultsStay'
    BY <1>1, <1>3, <2>3, <2>4 DEF DefaultsStay
  <2>8. StaleAreDisturbed'
    BY <1>1, <2>1, <2>2, <2>3, <2>4 DEF StaleAreDisturbed
  <2>9. LostReportIsExplained'
    BY <1>1, <1>2, <2>1 DEF PutDefaults, LostReportIsExplained, Progress
  <2> QED
    BY <2>5, <2>6, <2>7, <2>8, <2>9
<1>4. CASE cm' # cm
  <2>1. copy[p] = cm /\ cm' = [new EXCEPT !.version = cm.version + 1]
    BY <1>2, <1>4, UpdateStores
  <2>2. cm' = [cm EXCEPT !.defaulted = TRUE, !.version = cm.version + 1] /\ ~cm.defaulted
    BY <1>2, <1>4, <2>1 DEF ConfigMaps, Update
  <2>3. edits > 0 \/ Reporting = {}
    BY <2>2 DEF DefaultsStay, Reporting
  <2>4. disturbed' = disturbed \cup Reporting
    BY <1>4, <2>3 DEF PutDefaults
  <2>5. pc' = [pc EXCEPT ![p] = IF a = "ok" THEN "check" ELSE "exited"]
    BY DEF PutDefaults
  <2>6. TypeOK'
    <3>1. cm' \in ConfigMaps
      BY <2>2, Rewritten
    <3> QED
      BY <1>1, <2>4, <3>1 DEF PutDefaults, Reporting
  <2>7. Versions' /\ Timestamps' /\ Progress' /\ LateAreRefused' /\ DefaultsStay'
    BY <1>1, <1>2, <2>2, <2>5
       DEF Versions, Timestamps, Progress, LateAreRefused, DefaultsStay, ConfigMaps
  <2>8. StaleAreDisturbed'
    BY <1>1, <2>4, <2>5 DEF StaleAreDisturbed, Reporting
  <2>9. LostReportIsExplained'
    BY <1>1, <1>2, <2>4 DEF PutDefaults, LostReportIsExplained, Progress
  <2> QED
    BY <2>6, <2>7, <2>8, <2>9
<1> QED
  BY <1>3, <1>4

(* The start report, if it is stored, changes the ConfigMap: only its own  *)
(* process writes this start timestamp, and it writes it once.             *)
LEMMA StartStores ==
    ASSUME IInv, NEW p \in Processes, NEW a \in Answers, PutStart(p, a)
    PROVE  IF a \in {"ok", "unacked"}
           THEN copy[p] = cm /\ cm' = [cm EXCEPT !.start = p, !.version = cm.version + 1] /\ cm' # cm
           ELSE cm' = cm
<1> USE DEF IInv, TypeOK
<1>1. Update(p, [copy[p] EXCEPT !.start = p], a) /\ p \notin claimed
  BY DEF PutStart, Progress
<1>2. CASE a \in {"ok", "unacked"}
  <2>1. copy[p] = cm
    BY <1>1, <1>2 DEF Update, Versions
  <2>2. cm.start # p
    BY <1>1, NoneAssumption DEF Timestamps, NoneAssumption
  <2> QED
    BY <1>1, <1>2, <2>1, <2>2 DEF Update, ConfigMaps
<1>3. CASE a \notin {"ok", "unacked"}
  BY <1>1, <1>3 DEF Update
<1> QED
  BY <1>2, <1>3

(* The start report.                                                       *)
LEMMA PutStartPreserves ==
    ASSUME IInv, NEW p \in Processes, NEW a \in Answers, PutStart(p, a)
    PROVE  IInv'
<1> USE DEF IInv, TypeOK, PCs, Exits, Goto, Exit, histVars, Error
<1>1. pc[p] = "putStart" /\ edits' = edits /\ completed' = completed /\ late' = late
  BY DEF PutStart
<1>2. CASE a \in {"ok", "unacked"}
  <2>1. copy[p] = cm /\ cm' = [cm EXCEPT !.start = p, !.version = cm.version + 1] /\ cm' # cm
    BY <1>2, StartStores
  <2>2. claimed' = claimed \cup {p} /\ disturbed' = disturbed \cup Reporting
    BY <2>1 DEF PutStart
  <2>3. /\ cm' \in ConfigMaps /\ cm'.version = cm.version + 1 /\ cm'.start = p
        /\ cm'.done = cm.done /\ cm'.defaulted = cm.defaulted
    <3>1. cm' \in ConfigMaps
      BY <2>1, Rewritten
    <3> QED
      BY <2>1, <3>1 DEF ConfigMaps
  <2>4. \/ a = "ok" /\ copy' = [copy EXCEPT ![p] = cm'] /\ pc' = [pc EXCEPT ![p] = "run"] /\ exit' = exit
        \/ a = "unacked" /\ copy' = copy /\ pc' = [pc EXCEPT ![p] = "exited"]
           /\ exit' = [exit EXCEPT ![p] = "fault"]
    BY <1>2 DEF PutStart
  <2>5. TypeOK'
    BY <1>1, <2>2, <2>3, <2>4 DEF Reporting
  <2>6. Versions'
    BY <2>3, <2>4 DEF Versions, ConfigMaps
  <2>7. Progress'
    BY <1>1, <2>2, <2>3, <2>4 DEF Progress
  <2>8. Timestamps'
    BY <1>1, <2>2, <2>3 DEF Timestamps
  <2>9. DefaultsStay'
    BY <1>1, <2>3, <2>4 DEF DefaultsStay
  <2>10. LateAreRefused'
    BY <1>1, <2>2, <2>3, <2>4, NoneAssumption DEF LateAreRefused, NoneAssumption
  <2>11. StaleAreDisturbed'
    BY <1>1, <2>2, <2>3, <2>4 DEF StaleAreDisturbed, Reporting
  <2>12. LostReportIsExplained'
    BY <1>1, <2>2, <2>4 DEF LostReportIsExplained, Progress
  <2> QED
    BY <2>5, <2>6, <2>7, <2>8, <2>9, <2>10, <2>11, <2>12
<1>3. CASE a \notin {"ok", "unacked"}
  <2>1. cm' = cm /\ copy' = copy /\ claimed' = claimed /\ disturbed' = disturbed
    BY <1>3, StartStores DEF PutStart
  <2>2. pc' = [pc EXCEPT ![p] = "exited"] /\ exit' = [exit EXCEPT ![p] = Error(a)]
    BY <1>3 DEF PutStart
  <2>3. TypeOK' /\ Versions' /\ Timestamps'
    BY <1>1, <2>1, <2>2 DEF Versions, Timestamps
  <2>4. Progress' /\ DefaultsStay' /\ LateAreRefused' /\ StaleAreDisturbed'
    BY <1>1, <2>1, <2>2 DEF Progress, DefaultsStay, LateAreRefused, StaleAreDisturbed, Reporting
  <2>5. LostReportIsExplained'
    BY <1>1, <2>1, <2>2 DEF LostReportIsExplained, Progress
  <2> QED
    BY <2>3, <2>4, <2>5
<1> QED
  BY <1>2, <1>3

(* At most one start report is the last word.                              *)
LEMMA ReportingIsUnique ==
    ASSUME IInv, NEW p \in Reporting
    PROVE  Reporting = {p} /\ copy[p] = cm
BY DEF IInv, Versions, Progress, Reporting

(* The final report, if it is stored, changes the ConfigMap, and leaves no *)
(* start report standing.                                                  *)
LEMMA FinalStores ==
    ASSUME IInv, NEW p \in Processes, NEW a \in Answers,
           NEW o \in {"success", "failed", "failedEarly"}, PutFinal(p, o, a)
    PROVE  IF a \in {"ok", "unacked"}
           THEN /\ Reporting = {p} /\ completed' = completed \cup {p}
                /\ cm' \in ConfigMaps /\ cm'.version = cm.version + 1
                /\ cm'.spec = cm.spec /\ cm'.start = cm.start /\ cm'.defaulted = cm.defaulted
                /\ cm'.done = p
                /\ cm'.succeeded <=> o = "success"
                /\ cm'.results \in {cm.results, p}
                /\ o = "success" => cm'.results = p
           ELSE cm' = cm
<1> USE DEF IInv, TypeOK
<1>1. pc[p] = "putFinal" /\ p \notin completed
  BY DEF PutFinal, Progress
<1>2. Update(p, FinalReport(p, o), a)
  BY DEF PutFinal
<1>3. CASE a \in {"ok", "unacked"}
  <2>1. p \in Reporting
    BY <1>1, <1>2, <1>3 DEF Update, Reporting
  <2>2. Reporting = {p} /\ copy[p] = cm
    BY <2>1, ReportingIsUnique
  <2>3. cm.done # p
    BY <1>1, NoneAssumption DEF Timestamps, NoneAssumption
  <2>4. FinalReport(p, o).done = p
    BY <2>2 DEF FinalReport, ConfigMaps
  <2>5. cm' = [FinalReport(p, o) EXCEPT !.version = cm.version + 1]
    BY <1>2, <1>3, <2>3, <2>4 DEF Update
  <2>6. cm.version + 1 # cm.version
    BY DEF ConfigMaps
  <2>7. cm' = [cm EXCEPT !.done = p, !.succeeded = (o = "success"),
                        !.results = IF o = "failedEarly" THEN @ ELSE p,
                        !.version = cm.version + 1]
    BY <2>2, <2>5 DEF FinalReport, ConfigMaps
  <2>8. cm' \in ConfigMaps
    <3>1. cm.version + 1 \in Nat /\ p \in Owner /\ (o = "success") \in BOOLEAN
      BY DEF ConfigMaps, Owner
    <3>2. (IF o = "failedEarly" THEN cm.results ELSE p) \in Owner
      BY <3>1 DEF ConfigMaps
    <3> QED
      BY <2>7, <3>1, <3>2, Zenon DEF ConfigMaps
  <2>9. /\ cm'.version = cm.version + 1 /\ cm'.spec = cm.spec /\ cm'.start = cm.start
        /\ cm'.defaulted = cm.defaulted /\ cm'.done = p
        /\ cm'.results = IF o = "failedEarly" THEN cm.results ELSE p
    BY <2>7 DEF ConfigMaps
  <2>10. cm'.succeeded <=> o = "success"
    BY <2>7 DEF ConfigMaps
  <2>11. completed' = completed \cup {p}
    BY <2>6, <2>9 DEF PutFinal
  <2> QED
    BY <1>3, <2>2, <2>8, <2>9, <2>10, <2>11
<1>4. CASE a \notin {"ok", "unacked"}
  BY <1>2, <1>4 DEF Update
<1> QED
  BY <1>3, <1>4

(* The final report.                                                       *)
LEMMA PutFinalPreserves ==
    ASSUME IInv, NEW p \in Processes, NEW a \in Answers,
           NEW o \in {"success", "failed", "failedEarly"}, PutFinal(p, o, a)
    PROVE  IInv'
<1> USE DEF IInv, TypeOK, PCs, Exits, Exit, histVars, Error
<1>1. /\ pc[p] = "putFinal" /\ pc' = [pc EXCEPT ![p] = "exited"]
      /\ copy' = copy /\ edits' = edits /\ claimed' = claimed /\ disturbed' = disturbed /\ late' = late
  BY DEF PutFinal
<1>2. CASE a \in {"ok", "unacked"}
  <2>1. /\ Reporting = {p} /\ completed' = completed \cup {p}
        /\ cm' \in ConfigMaps /\ cm'.version = cm.version + 1
        /\ cm'.start = cm.start /\ cm'.defaulted = cm.defaulted /\ cm'.done = p
    BY <1>2, FinalStores
  <2>2. TypeOK'
    BY <1>1, <2>1 DEF PutFinal
  <2>3. Versions' /\ Timestamps' /\ DefaultsStay'
    BY <1>1, <2>1 DEF Versions, Timestamps, DefaultsStay, ConfigMaps
  <2>4. Progress' /\ LateAreRefused'
    BY <1>1, <2>1 DEF Progress, LateAreRefused
  <2>5. StaleAreDisturbed'
    BY <1>1, <2>1 DEF StaleAreDisturbed
  <2>6. LostReportIsExplained'
    BY <1>1, <2>1 DEF PutFinal, LostReportIsExplained
  <2> QED
    BY <2>2, <2>3, <2>4, <2>5, <2>6
<1>3. CASE a \notin {"ok", "unacked"}
  <2>1. cm' = cm /\ completed' = completed
    BY <1>3, FinalStores DEF PutFinal
  <2>2. exit' = [exit EXCEPT ![p] = Error(a)]
    BY <1>3 DEF PutFinal
  <2>3. a = "conflict" => p \in disturbed
    BY <1>1 DEF PutFinal, Update, StaleAreDisturbed, Reporting
  <2>4. TypeOK' /\ Versions' /\ Timestamps'
    BY <1>1, <2>1, <2>2 DEF Versions, Timestamps
  <2>5. Progress' /\ DefaultsStay' /\ LateAreRefused' /\ StaleAreDisturbed'
    BY <1>1, <2>1, <2>2 DEF Progress, DefaultsStay, LateAreRefused, StaleAreDisturbed, Reporting
  <2>6. LostReportIsExplained'
    BY <1>1, <2>1, <2>2, <2>3 DEF LostReportIsExplained
  <2> QED
    BY <2>4, <2>5, <2>6
<1> QED
  BY <1>2, <1>3

(* An edit of the user takes nothing but reports and defaults away.        *)
LEMMA EditChanges ==
    ASSUME IInv, User
    PROVE  /\ cm' \in ConfigMaps /\ cm'.version = cm.version + 1 /\ edits' \in 1..MaxEdits
           /\ cm'.start \in {cm.start, None} /\ cm'.done \in {cm.done, None}
           /\ late' = IF cm'.start = None THEN {} ELSE late
           /\ cm'.spec \in Specs
           /\ \/ cm'.succeeded = cm.succeeded /\ cm'.done = cm.done /\ cm'.results = cm.results
              \/ ~cm'.succeeded /\ cm'.results = None
<1> USE DEF IInv, TypeOK
<1>1. edits' = edits + 1 /\ edits' \in 1..MaxEdits
  <2>1. edits < MaxEdits /\ edits' = edits + 1
    BY DEF User, UserEdit
  <2> QED
    BY <2>1, EditsAssumption DEF EditsAssumption
<1>2. cm.version + 1 \in Nat /\ None \in Owner
  BY DEF ConfigMaps, Owner
<1>3. ASSUME NEW spec \in Specs, UserEdit([cm EXCEPT !.spec = spec])
      PROVE  cm' = [cm EXCEPT !.spec = spec, !.version = cm.version + 1]
             /\ late' = IF cm.start = None THEN {} ELSE late
  BY <1>3 DEF UserEdit, ConfigMaps
<1>4. ASSUME NEW spec \in Specs, UserEdit(Fresh(spec, 0))
      PROVE  cm' = Fresh(spec, cm.version + 1) /\ late' = {}
  BY <1>4 DEF UserEdit, Fresh
<1>5. CASE UserEdit([cm EXCEPT !.start = None])
  <2>1. cm' = [cm EXCEPT !.start = None, !.version = cm.version + 1] /\ late' = {}
    BY <1>5 DEF UserEdit, ConfigMaps
  <2>2. cm' \in ConfigMaps
    BY <2>1, <1>2, Zenon DEF ConfigMaps
  <2> QED
    BY <1>1, <2>1, <2>2 DEF ConfigMaps
<1>6. ASSUME NEW spec \in Specs, UserEdit([cm EXCEPT !.spec = spec])
      PROVE  cm' \in ConfigMaps
  BY <1>2, <1>3, <1>6, Zenon DEF ConfigMaps
<1>7. ASSUME NEW spec \in Specs, UserEdit(Fresh(spec, 0))
      PROVE  cm' \in ConfigMaps
  <2>1. cm' = Fresh(spec, cm.version + 1)
    BY <1>4, <1>7
  <2>2. FALSE \in BOOLEAN
    OBVIOUS
  <2> QED
    BY <1>2, <2>1, <2>2, Zenon DEF ConfigMaps, Fresh
<1>8. ASSUME NEW spec \in Specs, UserEdit([cm EXCEPT !.spec = spec])
      PROVE  /\ cm'.version = cm.version + 1 /\ cm'.start = cm.start /\ cm'.done = cm.done
             /\ cm'.spec = spec /\ cm'.succeeded = cm.succeeded /\ cm'.results = cm.results
             /\ late' = IF cm.start = None THEN {} ELSE late
  BY <1>3, <1>8 DEF ConfigMaps
<1>9. ASSUME NEW spec \in Specs, UserEdit(Fresh(spec, 0))
      PROVE  /\ cm'.version = cm.version + 1 /\ cm'.start = None /\ cm'.done = None
             /\ cm'.spec = spec /\ ~cm'.succeeded /\ cm'.results = None /\ late' = {}
  BY <1>4, <1>9 DEF Fresh
<1> QED
  BY <1>1, <1>5, <1>6, <1>7, <1>8, <1>9 DEF User

(* An edit disturbs whoever is reporting.                                  *)
LEMMA EditPreserves ==
    ASSUME IInv, User
    PROVE  IInv'
<1> USE DEF IInv, TypeOK
<1>1. /\ pc' = pc /\ copy' = copy /\ exit' = exit /\ claimed' = claimed /\ completed' = completed
      /\ disturbed' = disturbed \cup Reporting
  BY DEF User, UserEdit, procVars
<1>2. /\ cm' \in ConfigMaps /\ cm'.version = cm.version + 1 /\ edits' \in 1..MaxEdits
      /\ cm'.start \in {cm.start, None} /\ cm'.done \in {cm.done, None}
      /\ late' = IF cm'.start = None THEN {} ELSE late
  BY EditChanges
<1>3. TypeOK'
  BY <1>1, <1>2, EditsAssumption DEF EditsAssumption, Reporting
<1>4. Versions' /\ Progress' /\ Timestamps' /\ DefaultsStay'
  BY <1>1, <1>2 DEF Versions, Progress, Timestamps, DefaultsStay, ConfigMaps
<1>5. LateAreRefused'
  BY <1>1, <1>2 DEF LateAreRefused
<1>6. StaleAreDisturbed' /\ LostReportIsExplained'
  BY <1>1 DEF StaleAreDisturbed, LostReportIsExplained
<1> QED
  BY <1>3, <1>4, <1>5, <1>6

(* The invariant is inductive.                                             *)
LEMMA NextPreserves == IInv /\ [Next]_vars => IInv'
<1> SUFFICES ASSUME IInv, [Next]_vars PROVE IInv'
  OBVIOUS
<1>1. ASSUME NEW p \in Processes, Process(p) PROVE IInv'
  BY <1>1, ReadsPreserve, PutDefaultsPreserves, PutStartPreserves, PutFinalPreserves DEF Process
<1>2. ASSUME NEW p \in Processes, Kill(p) PROVE IInv'
  BY <1>2, ReadsPreserve
<1>3. CASE User
  BY <1>3, EditPreserves
<1>4. CASE UNCHANGED vars
  BY <1>4 DEF vars, procVars, histVars, IInv, TypeOK, Versions, Progress, Timestamps, DefaultsStay,
     LateAreRefused, StaleAreDisturbed, LostReportIsExplained, Reporting
<1> QED
  BY <1>1, <1>2, <1>3, <1>4 DEF Next

(* The optimistic concurrency, the timestamps and the fate of every report *)
(* stay explained, whoever writes the ConfigMap in between.                *)
THEOREM Inductive == Spec => []IInv
BY InitIInv, NextPreserves, PTL DEF Spec

(* Every variable keeps its type, and a process that has ended has ended   *)
(* in one of the known ways.                                               *)
THEOREM TypeCorrect == Spec => []TypeOK
<1>1. IInv => TypeOK
  BY DEF IInv
<1> QED
  BY <1>1, Inductive, PTL

(* A report that was started and never completed is explained by a request *)
(* that failed, a kill, or a conflict with an edit, with another start     *)
(* report or with defaults that an edit had taken away.                    *)
THEOREM LostReportCorrect == Spec => []LostReportIsExplained
<1>1. IInv => LostReportIsExplained
  BY DEF IInv
<1> QED
  BY <1>1, Inductive, PTL

(* A process that began while the ConfigMap was in use never reports on it *)
(* unless the user has reopened it: the second read refuses it, and the    *)
(* start timestamp that the second read finds is never taken back by the   *)
(* processes themselves.                                                   *)
THEOREM BusyCorrect == Spec => []BusyIsRespected
<1>1. IInv => BusyIsRespected
  BY DEF IInv, LateAreRefused, BusyIsRespected
<1> QED
  BY <1>1, Inductive, PTL
-----------------------------------------------------------------------------
(* The refinement of StatusLedger, step by step.                           *)

(* The last word is that of the only process that reports.                 *)
LEMMA LastWordIs ==
    ASSUME IInv
    PROVE  \/ Reporting = {} /\ LastWord = None
           \/ \E p \in Processes : Reporting = {p} /\ LastWord = p
<1>1. CASE Reporting = {}
  BY <1>1 DEF LastWord
<1>2. CASE Reporting # {}
  <2>1. PICK p : p \in Reporting
    BY <1>2
  <2>2. p \in Processes
    BY <2>1 DEF Reporting
  <2>3. Reporting = {p}
    BY <2>1, ReportingIsUnique
  <2>4. (CHOOSE q \in Reporting : TRUE) \in Reporting
    BY <2>1
  <2>5. LastWord = p
    BY <1>2, <2>3, <2>4 DEF LastWord
  <2> QED
    BY <2>2, <2>3, <2>5
<1> QED
  BY <1>1, <1>2

(* A step that stores no report and no edit is none of the ledger, unless  *)
(* it gives a report up.                                                   *)
LEMMA QuietStep ==
    ASSUME IInv, IInv', Reporting' \in {Reporting, {}},
           cm'.spec = cm.spec, cm'.succeeded = cm.succeeded, cm'.done = cm.done,
           cm'.results = cm.results, claimed' = claimed, completed' = completed
    PROVE  [Ledger!Next]_Ledger!vars
<1>1. LastWord' \in {LastWord, None}
  BY LastWordIs DEF LastWord
<1>2. CASE LastWord' = LastWord
  BY <1>2 DEF Ledger!vars
<1>3. CASE LastWord' = None
  BY <1>3 DEF Ledger!Next, Ledger!Abandon
<1> QED
  BY <1>1, <1>2, <1>3

(* Once the object is stored anew, only the process that stored it and     *)
(* goes on can be reporting.                                               *)
LEMMA StoredEndsReporting ==
    ASSUME IInv, cm'.version = cm.version + 1, NEW p \in Processes,
           \A q \in Processes \ {p} : copy'[q] = copy[q]
    PROVE  Reporting' \subseteq {p}
BY DEF IInv, TypeOK, Versions, Reporting, ConfigMaps

(* Every step of a process or of the user is one of the ledger, or none.   *)
LEMMA StepRefines ==
    ASSUME IInv, IInv', [Next]_vars
    PROVE  [Ledger!Next]_Ledger!vars
<1> USE DEF IInv, TypeOK
<1>1. ASSUME NEW p \in Processes, NEW a \in {"ok", "refused"},
             Begin(p, a) \/ GetDefaults(p, a) \/ Check(p, a) \/ GetStart(p, a) \/ Run(p) \/ Kill(p)
      PROVE  [Ledger!Next]_Ledger!vars
  <2>1. cm' = cm /\ claimed' = claimed /\ completed' = completed
    BY <1>1 DEF Begin, GetDefaults, Check, GetStart, Run, Kill, histVars
  <2>2. Reporting' \subseteq Reporting
    BY <1>1, <2>1 DEF Begin, GetDefaults, Check, GetStart, Run, Kill, Reporting, Goto, Exit, Get
  <2>3. Reporting' \in {Reporting, {}}
    BY <2>2, LastWordIs
  <2> QED
    BY <2>1, <2>3, QuietStep
<1>2. ASSUME NEW p \in Processes, NEW a \in Answers, PutDefaults(p, a)
      PROVE  [Ledger!Next]_Ledger!vars
  <2>1. claimed' = claimed /\ completed' = completed /\ copy' = copy
        /\ (cm' = cm \/ cm' = [cm EXCEPT !.defaulted = TRUE, !.version = cm.version + 1])
    BY <1>2, UpdateStores DEF PutDefaults, ConfigMaps
  <2>2. Reporting' \subseteq Reporting
    <3>1. cm'.version \in {cm.version, cm.version + 1}
      BY <2>1 DEF ConfigMaps
    <3>2. \A q \in Processes : copy[q].version = cm'.version => copy[q].version = cm.version
      BY <3>1 DEF Versions, ConfigMaps
    <3>3. \A q \in Processes : pc'[q] \in {"run", "putFinal"} => pc'[q] = pc[q]
      BY <1>2 DEF PutDefaults, Goto, Exit
    <3> QED
      BY <2>1, <3>2, <3>3 DEF Reporting
  <2>3. Reporting' \in {Reporting, {}}
    BY <2>2, LastWordIs
  <2> QED
    BY <2>1, <2>3, QuietStep DEF ConfigMaps
<1>3. ASSUME NEW p \in Processes, NEW a \in Answers, PutStart(p, a)
      PROVE  [Ledger!Next]_Ledger!vars
  <2>1. completed' = completed /\ p \notin claimed
    BY <1>3 DEF PutStart, Progress
  <2>2. CASE a \in {"ok", "unacked"}
    <3>1. cm' = [cm EXCEPT !.start = p, !.version = cm.version + 1] /\ cm' # cm
      BY <1>3, <2>2, StartStores
    <3>2. claimed' = claimed \cup {p}
      BY <1>3, <3>1 DEF PutStart
    <3>3. \A q \in Processes \ {p} : copy'[q] = copy[q]
      BY <1>3 DEF PutStart
    <3>4. cm'.version = cm.version + 1
      BY <3>1 DEF ConfigMaps
    <3>5. Reporting' \subseteq {p}
      BY <3>3, <3>4, StoredEndsReporting
    <3>6. LastWord' \in {p, None}
      BY <3>5, LastWordIs DEF LastWord
    <3>7. cm'.spec = cm.spec /\ cm'.succeeded = cm.succeeded /\ cm'.done = cm.done
          /\ cm'.results = cm.results
      BY <3>1 DEF ConfigMaps
    <3> QED
      BY <2>1, <3>2, <3>6, <3>7 DEF Ledger!Next, Ledger!Claim
  <2>3. CASE a \notin {"ok", "unacked"}
    <3>1. cm' = cm /\ claimed' = claimed /\ copy' = copy
      BY <1>3, <2>3, StartStores DEF PutStart
    <3>2. Reporting' = Reporting
      BY <1>3, <2>3, <3>1 DEF PutStart, Reporting, Exit
    <3> QED
      BY <2>1, <3>1, <3>2, QuietStep
  <2> QED
    BY <2>2, <2>3
<1>4. ASSUME NEW p \in Processes, NEW a \in Answers,
             NEW o \in {"success", "failed", "failedEarly"}, PutFinal(p, o, a)
      PROVE  [Ledger!Next]_Ledger!vars
  <2>1. claimed' = claimed /\ copy' = copy /\ pc' = [pc EXCEPT ![p] = "exited"]
    BY <1>4 DEF PutFinal, Exit
  <2>2. p \notin Reporting'
    BY <2>1 DEF Reporting
  <2>3. CASE a \in {"ok", "unacked"}
    <3>1. /\ Reporting = {p} /\ completed' = completed \cup {p}
          /\ cm'.version = cm.version + 1 /\ cm'.spec = cm.spec /\ cm'.done = p
          /\ cm'.succeeded <=> o = "success"
          /\ cm'.results \in {cm.results, p}
          /\ o = "success" => cm'.results = p
      BY <1>4, <2>3, FinalStores
    <3>2. Reporting' = {}
      BY <2>1, <2>2, <3>1, StoredEndsReporting
    <3>3. LastWord = p /\ LastWord' = None
      BY <3>1, <3>2, LastWordIs DEF LastWord
    <3> QED
      BY <2>1, <3>1, <3>3 DEF Ledger!Next, Ledger!Complete
  <2>4. CASE a \notin {"ok", "unacked"}
    <3>1. cm' = cm /\ completed' = completed
      BY <1>4, <2>4, FinalStores DEF PutFinal
    <3>2. Reporting' \subseteq Reporting
      BY <2>1, <3>1 DEF Reporting
    <3>3. Reporting' \in {Reporting, {}}
      BY <3>2, LastWordIs
    <3> QED
      BY <2>1, <3>1, <3>3, QuietStep
  <2> QED
    BY <2>3, <2>4
<1>5. CASE User
  <2>1. claimed' = claimed /\ completed' = completed /\ copy' = copy /\ pc' = pc
    BY <1>5 DEF User, UserEdit, procVars
  <2>2. /\ cm'.version = cm.version + 1 /\ cm'.spec \in Specs
        /\ \/ cm'.succeeded = cm.succeeded /\ cm'.done = cm.done /\ cm'.results = cm.results
           \/ ~cm'.succeeded /\ cm'.results = None
    BY <1>5, EditChanges
  <2>3. Reporting' = {}
    BY <2>1, <2>2 DEF Reporting, Versions, ConfigMaps
  <2>4. LastWord' = None
    BY <2>3 DEF LastWord
  <2> QED
    BY <2>1, <2>2, <2>4 DEF Ledger!Next, Ledger!Edit
<1>6. CASE UNCHANGED vars
  <2>1. Reporting' = Reporting
    BY <1>6 DEF vars, procVars, Reporting
  <2> QED
    BY <1>6, <2>1, QuietStep DEF vars, histVars
<1> QED
  BY <1>1, <1>2, <1>3, <1>4, <1>5, <1>6 DEF Next, Process

(* The processes keep the promise of the ledger: a completion is stored    *)
(* only over the untouched start report of its own process, an edit is     *)
(* never taken back, and a success stands beside its own results.          *)
THEOREM KeepsLedgerCorrect == Spec => KeepsLedger
<1>1. Init => Ledger!Init
  <2> SUFFICES ASSUME Init PROVE Ledger!Init
    OBVIOUS
  <2>1. PICK spec \in Specs : cm = Fresh(spec, 0)
    BY DEF Init
  <2>2. Reporting = {}
    BY DEF Init, Reporting
  <2> QED
    BY <2>1, <2>2 DEF Init, Ledger!Init, LastWord, Fresh
<1>2. IInv /\ IInv' /\ [Next]_vars => [Ledger!Next]_Ledger!vars
  BY StepRefines
<1> QED
  BY <1>1, <1>2, Inductive, PTL DEF Spec, KeepsLedger, Ledger!Spec
===============================================================================
