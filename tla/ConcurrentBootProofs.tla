------------------------ MODULE ConcurrentBootProofs ------------------------
(***************************************************************************)
(* Proofs about ConcurrentBoot for every finite set of goroutines, every   *)
(* set of names they may draw and every behaviour of the API server.       *)
(***************************************************************************)
EXTENDS ConcurrentBoot, FiniteSetTheorems, TLAPS

(* The goroutines that the WaitGroup counts, those that are about to send, *)
(* and those that own a VM.                                                *)
Running == {w \in Workers : wpc[w] \notin {"idle", "exited"}}

Sending == {"sendCreate", "sendBoot"}
Holding == {"poll", "sendBoot", "delete"}

(* The WaitGroup counts the goroutines that were started and not done.     *)
WgCounts == wg = Cardinality(Running)

(* A goroutine's outcome is settled by its create or its poll.             *)
Settled ==
    \A w \in Workers :
        /\ wpc[w] \in {"idle", "create", "poll"} <=> boot[w] = "none"
        /\ wpc[w] \in Sending => boot[w] = "failed"

(* The channel holds one message of every goroutine that failed and sent.  *)
Sent == reasons = {w \in Workers : boot[w] = "failed" /\ wpc[w] \notin Sending}

(* A goroutine holds the VM it created until it deletes it; whatever else  *)
(* it owns is due to a fault.                                              *)
Ownership ==
    /\ \A w \in Workers : wpc[w] \in Holding => owner[vmName[w]] = w
    /\ \A n \in Names : owner[n] \in Workers =>
          /\ vmName[owner[n]] = n
          /\ wpc[owner[n]] \notin {"idle", "create"}
          /\ wpc[owner[n]] \in Holding \/ owner[n] \in faulty

(* What the caller knows at each of its steps.                             *)
CallerPhases ==
    /\ main # "spawn" => \A w \in Workers : wpc[w] # "idle"
    /\ main \in {"drain", "done"} => \A w \in Workers : wpc[w] = "exited"
    /\ closed => main \in {"drain", "done"}
    /\ result # "none" <=> main = "done"
    /\ main = "done" => (result = "pass" <=> reasons = {})

(* The inductive invariant.                                                *)
IInv == TypeOK /\ WgCounts /\ Settled /\ Sent /\ Ownership /\ CallerPhases

-----------------------------------------------------------------------------
(* The three ways a step changes who is running.                           *)
LEMMA RunningFinite == IsFiniteSet(Running) /\ Cardinality(Running) \in Nat
BY WorkersAssumption, FS_Subset, FS_CardinalityType DEF WorkersAssumption, Running

(* How the set of running goroutines changes with the pc of one of them.   *)
LEMMA RunningKept ==
    ASSUME TypeOK, NEW w \in Workers, NEW next \in WorkerPCs \ {"idle", "exited"},
           wpc[w] \notin {"idle", "exited"}, Goto(w, next)
    PROVE  Running' = Running
BY DEF Running, Goto, TypeOK

LEMMA RunningGrows ==
    ASSUME TypeOK, NEW w \in Workers, wpc[w] = "idle", Goto(w, "create")
    PROVE  Cardinality(Running') = Cardinality(Running) + 1
<1>1. Running' = Running \cup {w} /\ w \notin Running
  BY DEF Running, Goto, TypeOK
<1> QED
  BY <1>1, RunningFinite, FS_AddElement

LEMMA RunningShrinks ==
    ASSUME TypeOK, NEW w \in Workers, wpc[w] = "release", Goto(w, "exited")
    PROVE  /\ Cardinality(Running') = Cardinality(Running) - 1
           /\ Cardinality(Running) > 0
<1>1. Running' = Running \ {w} /\ w \in Running
  BY DEF Running, Goto, TypeOK
<1>2. Cardinality(Running') = Cardinality(Running) - 1
  BY <1>1, RunningFinite, FS_RemoveElement
<1>3. Cardinality(Running) # 0
  BY <1>1, RunningFinite, FS_EmptySet
<1> QED
  BY <1>2, <1>3, RunningFinite

(* No goroutine runs at first, and the channel is empty.                   *)
LEMMA InitIInv == Init => IInv
<1> SUFFICES ASSUME Init PROVE IInv
  OBVIOUS
<1> USE DEF Init
<1>1. TypeOK
  BY DEF TypeOK, WorkerPCs, Owners
<1>2. WgCounts
  <2>1. Running = {}
    BY DEF Running
  <2> QED
    BY <2>1, FS_EmptySet DEF WgCounts
<1>3. Settled /\ Sent /\ CallerPhases
  BY DEF Settled, Sent, CallerPhases, Sending
<1>4. Ownership
  BY OwnersAssumption DEF Ownership, OwnersAssumption, Holding
<1> QED
  BY <1>1, <1>2, <1>3, <1>4 DEF IInv

-----------------------------------------------------------------------------
(* The steps of a goroutine.                                               *)
LEMMA CreatePreserves ==
    ASSUME IInv, NEW w \in Workers, Create(w)
    PROVE  IInv'
<1> USE DEF IInv, TypeOK, mainVars, envVars
<1>1. CASE CreateOk(w)
  <2> USE <1>1 DEF CreateOk, Goto
  <2>1. TypeOK'
    BY DEF WorkerPCs, Owners
  <2>2. WgCounts'
    BY RunningKept DEF WgCounts, WorkerPCs
  <2>3. Settled' /\ Sent' /\ CallerPhases'
    BY DEF Settled, Sent, CallerPhases, Sending
  <2>4. Ownership'
    BY OwnersAssumption DEF Ownership, OwnersAssumption, Holding
  <2> QED
    BY <2>1, <2>2, <2>3, <2>4
<1>2. CASE CreateRefused(w)
  <2> USE <1>2 DEF CreateRefused, Goto
  <2>1. TypeOK'
    BY DEF WorkerPCs
  <2>2. WgCounts'
    BY RunningKept DEF WgCounts, WorkerPCs
  <2>3. Settled' /\ Sent' /\ CallerPhases'
    BY DEF Settled, Sent, CallerPhases, Sending
  <2>4. Ownership'
    BY DEF Ownership, Holding
  <2> QED
    BY <2>1, <2>2, <2>3, <2>4
<1>3. CASE CreateUnacked(w)
  <2> USE <1>3 DEF CreateUnacked, Goto
  <2>1. TypeOK'
    BY DEF WorkerPCs, Owners
  <2>2. WgCounts'
    BY RunningKept DEF WgCounts, WorkerPCs
  <2>3. Settled' /\ Sent' /\ CallerPhases'
    BY DEF Settled, Sent, CallerPhases, Sending
  <2>4. Ownership'
    BY OwnersAssumption DEF Ownership, OwnersAssumption, Holding
  <2> QED
    BY <2>1, <2>2, <2>3, <2>4
<1> QED
  BY <1>1, <1>2, <1>3 DEF Create

(* A goroutine sends its outcome.                                          *)
LEMMA SendPreserves ==
    ASSUME IInv, NEW w \in Workers, SendCreate(w) \/ SendBoot(w)
    PROVE  IInv'
<1> USE DEF IInv, TypeOK, mainVars, envVars, Send, Goto
<1>1. CASE SendCreate(w)
  <2> USE <1>1 DEF SendCreate
  <2>1. TypeOK'
    BY DEF WorkerPCs
  <2>2. WgCounts'
    BY RunningKept DEF WgCounts, WorkerPCs
  <2>3. Settled' /\ Sent' /\ CallerPhases'
    BY DEF Settled, Sent, CallerPhases, Sending
  <2>4. Ownership'
    BY DEF Ownership, Holding
  <2> QED
    BY <2>1, <2>2, <2>3, <2>4
<1>2. CASE SendBoot(w)
  <2> USE <1>2 DEF SendBoot
  <2>1. TypeOK'
    BY DEF WorkerPCs
  <2>2. WgCounts'
    BY RunningKept DEF WgCounts, WorkerPCs
  <2>3. Settled' /\ Sent' /\ CallerPhases'
    BY DEF Settled, Sent, CallerPhases, Sending
  <2>4. Ownership'
    BY DEF Ownership, Holding
  <2> QED
    BY <2>1, <2>2, <2>3, <2>4
<1> QED
  BY <1>1, <1>2

(* A goroutine waits for its VM to boot.                                   *)
LEMMA PollPreserves ==
    ASSUME IInv, NEW w \in Workers, Poll(w)
    PROVE  IInv'
<1> PICK errs \in {"booted", "failed"} : PollEnds(w, errs)
  BY DEF Poll
<1> USE DEF IInv, TypeOK, mainVars, envVars, PollEnds, Goto, WaitFailed
<1>1. TypeOK'
  BY DEF WorkerPCs
<1>2. WgCounts'
  BY RunningKept DEF WgCounts, WorkerPCs
<1>3. Settled' /\ Sent' /\ CallerPhases'
  BY DEF Settled, Sent, CallerPhases, Sending
<1>4. Ownership'
  BY DEF Ownership, Holding
<1> QED
  BY <1>1, <1>2, <1>3, <1>4

(* A goroutine deletes its VM.                                             *)
LEMMA DeletePreserves ==
    ASSUME IInv, NEW w \in Workers, Delete(w)
    PROVE  IInv'
<1> USE DEF IInv, TypeOK, mainVars, envVars, Goto
<1>1. CASE DeleteOk(w)
  <2> USE <1>1 DEF DeleteOk
  <2>1. TypeOK'
    BY DEF WorkerPCs, Owners
  <2>2. WgCounts'
    BY RunningKept DEF WgCounts, WorkerPCs
  <2>3. Settled' /\ Sent' /\ CallerPhases'
    BY DEF Settled, Sent, CallerPhases, Sending
  <2>4. Ownership'
    BY OwnersAssumption DEF Ownership, OwnersAssumption, Holding
  <2> QED
    BY <2>1, <2>2, <2>3, <2>4
<1>2. CASE DeleteFails(w)
  <2> USE <1>2 DEF DeleteFails
  <2>1. TypeOK'
    BY DEF WorkerPCs
  <2>2. WgCounts'
    BY RunningKept DEF WgCounts, WorkerPCs
  <2>3. Settled' /\ Sent' /\ CallerPhases'
    BY DEF Settled, Sent, CallerPhases, Sending
  <2>4. Ownership'
    BY DEF Ownership, Holding
  <2> QED
    BY <2>1, <2>2, <2>3, <2>4
<1> QED
  BY <1>1, <1>2 DEF Delete

(* A goroutine ends.                                                       *)
LEMMA ReleasePreserves ==
    ASSUME IInv, NEW w \in Workers, Release(w)
    PROVE  IInv'
<1> USE DEF IInv, TypeOK, mainVars, envVars, Release, Goto
<1>0. Goto(w, "exited") /\ wpc[w] = "release"
  OBVIOUS
<1>1. wg' = Cardinality(Running') /\ wg' \in Nat
  <2>1. Cardinality(Running') = Cardinality(Running) - 1 /\ Cardinality(Running) > 0
    BY <1>0, RunningShrinks
  <2>2. wg' = wg - 1 /\ wg = Cardinality(Running) /\ wg \in Nat
    BY DEF WgCounts
  <2> QED
    BY <2>1, <2>2
<1>2. TypeOK' /\ WgCounts'
  BY <1>1 DEF WorkerPCs, WgCounts
<1>3. Settled' /\ Sent' /\ CallerPhases'
  BY DEF Settled, Sent, CallerPhases, Sending
<1>4. Ownership'
  BY DEF Ownership, Holding
<1> QED
  BY <1>2, <1>3, <1>4

-----------------------------------------------------------------------------
(* The steps of the caller and of the environment.                         *)
LEMMA SpawnPreserves ==
    ASSUME IInv, NEW w \in Workers, Spawn(w)
    PROVE  IInv'
<1> USE DEF IInv, TypeOK, mainVars, envVars, Spawn, Goto
<1>0. Goto(w, "create") /\ wpc[w] = "idle"
  OBVIOUS
<1>1. wg' = Cardinality(Running') /\ wg' \in Nat
  <2>1. Cardinality(Running') = Cardinality(Running) + 1
    BY <1>0, RunningGrows
  <2>2. wg' = wg + 1 /\ wg = Cardinality(Running) /\ wg \in Nat
    BY DEF WgCounts
  <2> QED
    BY <2>1, <2>2
<1>2. TypeOK' /\ WgCounts'
  BY <1>1 DEF WorkerPCs, WgCounts
<1>3. Settled' /\ Sent' /\ CallerPhases'
  BY DEF Settled, Sent, CallerPhases, Sending
<1>4. Ownership'
  BY DEF Ownership, Holding
<1> QED
  BY <1>2, <1>3, <1>4

(* The caller starts goroutines, waits for them and reads the channel.     *)
LEMMA CallerPreserves ==
    ASSUME IInv, AllSpawned \/ WaitReturns \/ Drain
    PROVE  IInv'
<1> USE DEF IInv, TypeOK, mainVars, envVars
<1>1. CASE AllSpawned
  <2> USE <1>1 DEF AllSpawned
  <2>1. Running' = Running
    BY DEF Running
  <2> QED
    BY <2>1 DEF WgCounts, Settled, Sent, CallerPhases, Sending, Ownership, Holding
<1>2. CASE WaitReturns
  <2> USE <1>2 DEF WaitReturns
  <2>1. Running' = Running
    BY DEF Running
  <2>2. Running = {}
    BY RunningFinite, FS_EmptySet DEF WgCounts
  <2>3. \A w \in Workers : wpc[w] = "exited"
    BY <2>2 DEF Running, CallerPhases
  <2> QED
    BY <2>1, <2>3 DEF WgCounts, Settled, Sent, CallerPhases, Sending, Ownership, Holding
<1>3. CASE Drain
  <2> USE <1>3 DEF Drain
  <2>1. Running' = Running
    BY DEF Running
  <2> QED
    BY <2>1 DEF WgCounts, Settled, Sent, CallerPhases, Sending, Ownership, Holding
<1> QED
  BY <1>1, <1>2, <1>3

(* VMs boot and the deadline passes.                                       *)
LEMMA EnvPreserves ==
    ASSUME IInv, Env
    PROVE  IInv'
<1> USE DEF IInv, TypeOK, mainVars, AgentConnects, AgentDisconnects, Deadline
<1>1. TypeOK'
  BY DEF Env
<1>2. Running' = Running
  BY DEF Running, Env
<1>3. WgCounts' /\ Settled' /\ Sent' /\ CallerPhases' /\ Ownership'
  BY <1>2 DEF Env, WgCounts, Settled, Sent, CallerPhases, Sending, Ownership, Holding
<1> QED
  BY <1>1, <1>3

(* The inductive invariant: the WaitGroup counts who is running, the       *)
(* channel holds who failed, and a VM is held by who created it.           *)
THEOREM Inductive == Spec => []IInv
<1>1. IInv /\ [Next]_vars => IInv'
  <2> SUFFICES ASSUME IInv, [Next]_vars PROVE IInv'
    OBVIOUS
  <2>1. ASSUME NEW w \in Workers, Worker(w) PROVE IInv'
    BY <2>1, CreatePreserves, SendPreserves, PollPreserves, DeletePreserves,
       ReleasePreserves DEF Worker
  <2>2. CASE Main
    BY <2>2, SpawnPreserves, CallerPreserves DEF Main
  <2>3. CASE Env
    BY <2>3, EnvPreserves
  <2>4. CASE UNCHANGED vars
    <3>1. Running' = Running
      BY <2>4 DEF vars, Running
    <3> QED
      BY <2>4, <3>1 DEF vars, mainVars, envVars, IInv, TypeOK, WgCounts, Settled, Sent,
         CallerPhases, Sending, Ownership, Holding
  <2> QED
    BY <2>1, <2>2, <2>3, <2>4 DEF Next
<1> QED
  BY <1>1, InitIInv, PTL DEF Spec

-----------------------------------------------------------------------------
(* Every variable keeps its type; the WaitGroup never goes negative.       *)
THEOREM TypeCorrect == Spec => []TypeOK
<1>1. IInv => TypeOK
  BY DEF IInv
<1> QED
  BY <1>1, Inductive, PTL

(* A goroutine about to send is not among the senders yet, so that one     *)
(* place of the buffer is left for it, however many VMs boot at once.      *)
THEOREM SendNeverBlocksCorrect == Spec => []SendNeverBlocks
<1>1. IInv => SendNeverBlocks
  <2> SUFFICES ASSUME IInv, NEW w \in Workers, wpc[w] \in Sending
               PROVE  Cardinality(reasons) < Capacity
    BY DEF SendNeverBlocks, Sending
  <2>1. reasons \subseteq Workers \ {w}
    BY DEF IInv, Sent
  <2>2. /\ IsFiniteSet(Workers \ {w})
        /\ Cardinality(Workers \ {w}) = Cardinality(Workers) - 1
    BY WorkersAssumption, FS_RemoveElement DEF WorkersAssumption
  <2>3. Cardinality(reasons) <= Cardinality(Workers \ {w})
    BY <2>1, <2>2, FS_Subset
  <2>4. Cardinality(reasons) \in Nat /\ Cardinality(Workers) \in Nat
    BY <2>1, <2>2, WorkersAssumption, FS_Subset, FS_CardinalityType DEF WorkersAssumption
  <2> QED
    BY <2>2, <2>3, <2>4 DEF Capacity
<1> QED
  BY <1>1, Inductive, PTL

(* wg.Wait returns only after the last goroutine's last step.              *)
THEOREM ClosedAfterAllExitedCorrect == Spec => []ClosedAfterAllExited
<1>1. IInv => ClosedAfterAllExited
  BY DEF IInv, CallerPhases, ClosedAfterAllExited
<1> QED
  BY <1>1, Inductive, PTL

(* Both together: the channel is safe, for every number of VMs.            *)
THEOREM ChannelIsSafeCorrect == Spec => []ChannelIsSafe
BY SendNeverBlocksCorrect, ClosedAfterAllExitedCorrect, PTL DEF ChannelIsSafe

(* The verdict is "pass" exactly when every VM booted.                     *)
THEOREM VerdictCorrect == Spec => []VerdictIsExact
<1>1. IInv => VerdictIsExact
  BY DEF IInv, TypeOK, CallerPhases, Settled, Sent, Sending, VerdictIsExact
<1> QED
  BY <1>1, Inductive, PTL

(* Only faults of the API server leave VMs behind.                         *)
THEOREM OnlyFaultsLeaveVMsCorrect == Spec => []OnlyFaultsLeaveVMs
<1>1. IInv => OnlyFaultsLeaveVMs
  BY DEF IInv, Ownership, Holding, OnlyFaultsLeaveVMs
<1> QED
  BY <1>1, Inductive, PTL

(* No goroutine deletes a VM that another one, or another checkup,         *)
(* created.                                                                *)
THEOREM DeletesOwnVMsOnlyCorrect == Spec => DeletesOwnVMsOnly
<1> DEFINE Own(n) == /\ owner'[n] = NoOne
                     /\ owner[n] \in Workers
                     /\ wpc[owner[n]] = "delete" /\ vmName[owner[n]] = n
<1>1. IInv /\ [Next]_vars
        => [\A n \in Names : owner'[n] # owner[n] /\ owner[n] # NoOne => Own(n)]_vars
  <2> SUFFICES ASSUME IInv, Next, NEW n \in Names, owner'[n] # owner[n], owner[n] # NoOne
               PROVE  Own(n)
    OBVIOUS
  <2> USE DEF IInv, TypeOK
  <2>1. PICK w \in Workers : Create(w) \/ DeleteOk(w)
    BY DEF Next, Main, Worker, Env, Spawn, AllSpawned, WaitReturns, Drain, SendCreate,
       SendBoot, Send, Poll, PollEnds, Delete, DeleteFails, Release, AgentConnects,
       AgentDisconnects, Deadline
  <2>2. CASE Create(w)
    BY <2>2 DEF Create, CreateOk, CreateRefused, CreateUnacked
  <2>3. CASE DeleteOk(w)
    <3>1. n = vmName[w] /\ owner'[n] = NoOne /\ wpc[w] = "delete"
      BY <2>3 DEF DeleteOk
    <3>2. owner[n] = w
      BY <3>1 DEF Ownership, Holding
    <3> QED
      BY <3>1, <3>2
  <2> QED
    BY <2>1, <2>2, <2>3
<1> QED
  BY <1>1, Inductive, PTL DEF Spec, DeletesOwnVMsOnly

(* The check implements its promise: every step settles one outcome,       *)
(* announces the verdict over settled outcomes, or changes neither.        *)
THEOREM KeepsPromiseCorrect == Spec => KeepsPromise
<1>1. Init => Promise!Init
  BY DEF Init, Promise!Init
<1>2. IInv /\ [Next]_vars => [Promise!Next]_<<boot, result>>
  <2> SUFFICES ASSUME IInv, [Next]_vars PROVE [Promise!Next]_<<boot, result>>
    OBVIOUS
  <2> USE DEF IInv, TypeOK, Promise!Next, mainVars, envVars
  <2>1. ASSUME NEW w \in Workers, Create(w) PROVE [Promise!Next]_<<boot, result>>
    BY <2>1 DEF Create, CreateOk, CreateRefused, CreateUnacked, Settled, Promise!Settle
  <2>2. ASSUME NEW w \in Workers, Poll(w) PROVE [Promise!Next]_<<boot, result>>
    BY <2>2 DEF Poll, PollEnds, Settled, Promise!Settle
  <2>3. CASE Drain
    <3>1. /\ \A w \in Workers : wpc[w] = "exited" /\ boot[w] # "none"
          /\ result = "none"
      BY <2>3 DEF Drain, CallerPhases, Settled
    <3>2. reasons = {} <=> \A w \in Workers : boot[w] = "booted"
      BY <3>1 DEF Sent, Sending
    <3> QED
      BY <2>3, <3>1, <3>2 DEF Drain, Promise!Announce
  <2>4. CASE \/ \E w \in Workers : \/ Spawn(w) \/ SendCreate(w) \/ SendBoot(w)
                                   \/ Delete(w) \/ Release(w)
             \/ AllSpawned \/ WaitReturns \/ Env
    BY <2>4 DEF Spawn, SendCreate, SendBoot, Send, Delete, DeleteOk, DeleteFails, Release,
       AllSpawned, WaitReturns, Env, AgentConnects, AgentDisconnects, Deadline
  <2>5. CASE UNCHANGED vars
    BY <2>5 DEF vars
  <2> QED
    BY <2>1, <2>2, <2>3, <2>4, <2>5 DEF Next, Main, Worker
<1> QED
  BY <1>1, <1>2, Inductive, PTL DEF Spec, KeepsPromise, Promise!Spec
-----------------------------------------------------------------------------
(* What Checkup sees of the VM of a goroutine does not change unless the   *)
(* goroutine moves, its outcome is settled, its VM comes or goes, or the   *)
(* deadline passes.                                                        *)
LEMMA Unseen ==
    ASSUME NEW w \in Workers, UNCHANGED <<expired, vmName>>, StepOf(w)' = StepOf(w),
           boot'[w] = boot[w], owner'[vmName[w]] = w <=> owner[vmName[w]] = w
    PROVE  UNCHANGED C(w)!vars
<1>1. Seen(w)' = Seen(w)
  BY DEF Seen
<1>2. Said(w)' = Said(w)
  BY DEF Said
<1> QED
  BY <1>1, <1>2 DEF C!vars, C!ctlVars, C!repVars, C!cluVars, C!locVars

(* A goroutine's VM as an object of Checkup's cluster.                     *)
LEMMA SeenVM ==
    ASSUME NEW w \in Workers
    PROVE  /\ Seen(w)["bootVM"] = IF owner[vmName[w]] = w THEN "ours" ELSE "absent"
           /\ \A o \in ObjectNames \ {"bootVM"} : Seen(w)[o] = "absent"
BY DEF Seen, ObjectNames

(* A goroutine creates its VM as Checkup does.                             *)
LEMMA CreateFollows ==
    ASSUME IInv, NEW w \in Workers, Create(w)
    PROVE  C(w)!Next
<1> USE DEF IInv, TypeOK
<1>1. wpc[w] = "create" /\ boot[w] = "none" /\ owner[vmName[w]] # w
  BY DEF Create, CreateOk, CreateRefused, CreateUnacked, Settled, Ownership
<1>2. StepOf(w) = "concurrent" /\ UNCHANGED <<expired, vmName>>
  BY <1>1 DEF StepOf, Create, CreateOk, CreateRefused, CreateUnacked, envVars
<1>3. ~C(w)!NoStorageClass /\ ~C(w)!NoGoldenImage
  BY DEF C!NoStorageClass, C!NoGoldenImage, World
<1>4. Seen(w) = [o \in ObjectNames |-> "absent"] /\ Said(w) = {}
  BY <1>1 DEF Seen, Said
<1>5. ASSUME boot'[w] = "failed", StepOf(w)' = "finish"
      PROVE  C(w)!Goto("finish") /\ C(w)!Fail("concurrent")
  BY <1>1, <1>4, <1>5 DEF C!Goto, C!Fail, C!Record, Said, FieldNames
<1>6. CASE CreateOk(w)
  <2>1. ~expired /\ boot' = boot /\ wpc' = [wpc EXCEPT ![w] = "poll"] /\ owner'[vmName[w]] = w
    BY <1>6 DEF CreateOk, Goto
  <2>2. C(w)!Create("bootVM", "ok")
    BY <1>2, <1>4, <2>1 DEF C!Create, Seen, ObjectNames
  <2>3. C(w)!Goto("waitConcurrent") /\ UNCHANGED C(w)!repVars
    BY <2>1 DEF C!Goto, C!repVars, StepOf, Said
  <2>4. C(w)!CreateConcurrentVM("ok")
    BY <1>2, <1>3, <2>1, <2>2, <2>3 DEF C!CreateConcurrentVM, C!InTime, C!locVars
  <2> QED
    BY <2>4 DEF C!Next, C!Run, C!Requests, C!ConcurrentChecks, C!Answers
<1>7. CASE CreateRefused(w)
  <2>1. boot'[w] = "failed" /\ wpc' = [wpc EXCEPT ![w] = "sendCreate"] /\ owner' = owner
    BY <1>7 DEF CreateRefused, Goto
  <2>2. C(w)!Create("bootVM", "refused")
    BY <1>2, <2>1 DEF C!Create, Seen
  <2>3. StepOf(w)' = "finish"
    BY <2>1 DEF StepOf
  <2>4. C(w)!CreateConcurrentVM("refused")
    BY <1>2, <1>3, <1>5, <2>1, <2>2, <2>3 DEF C!CreateConcurrentVM, C!InTime, C!locVars
  <2> QED
    BY <2>4 DEF C!Next, C!Run, C!Requests, C!ConcurrentChecks, C!Answers
<1>8. CASE CreateUnacked(w)
  <2>1. ~expired /\ boot'[w] = "failed" /\ wpc' = [wpc EXCEPT ![w] = "sendCreate"]
        /\ owner'[vmName[w]] = w
    BY <1>8 DEF CreateUnacked, Goto
  <2>2. C(w)!Create("bootVM", "unacked")
    BY <1>2, <1>4, <2>1 DEF C!Create, Seen, ObjectNames
  <2>3. StepOf(w)' = "finish"
    BY <2>1 DEF StepOf
  <2>4. C(w)!CreateConcurrentVM("unacked")
    BY <1>2, <1>3, <1>5, <2>1, <2>2, <2>3 DEF C!CreateConcurrentVM, C!InTime, C!locVars
  <2> QED
    BY <2>4 DEF C!Next, C!Run, C!Requests, C!ConcurrentChecks, C!Answers
<1> QED
  BY <1>6, <1>7, <1>8 DEF Create

(* A goroutine waits for its VM as Checkup does.                           *)
LEMMA PollFollows ==
    ASSUME IInv, NEW w \in Workers, Poll(w)
    PROVE  C(w)!Next
<1> USE DEF IInv, TypeOK
<1> PICK errs \in {"booted", "failed"} : PollEnds(w, errs)
  BY DEF Poll
<1>1. wpc[w] = "poll" /\ boot[w] = "none" /\ owner[vmName[w]] = w
  BY DEF PollEnds, Settled, Ownership, Holding
<1>2. /\ errs = "booted" => ~expired
      /\ boot'[w] = errs
      /\ wpc'[w] \in {"sendBoot", "delete"}
      /\ UNCHANGED <<expired, vmName, owner>>
  BY DEF PollEnds, WaitFailed, Goto, envVars
<1>3. StepOf(w) = "waitConcurrent" /\ C(w)!Goto("deleteConcurrent")
  BY <1>1, <1>2 DEF StepOf, C!Goto
<1>4. C(w)!Exists("bootVM") /\ Seen(w)' = Seen(w)
  BY <1>1, <1>2, SeenVM DEF C!Exists, Seen
<1>5. (~expired /\ C(w)!Say("concurrent", "pass")) \/ C(w)!Fail("concurrent")
  <2>1. Said(w) = {}
    BY <1>1 DEF Said
  <2>2. CASE errs = "booted"
    BY <1>1, <1>2, <2>1, <2>2 DEF C!Say, C!Record, Said, FieldNames
  <2>3. CASE errs = "failed"
    BY <1>1, <1>2, <2>1, <2>3 DEF C!Fail, C!Record, Said, FieldNames
  <2> QED
    BY <2>2, <2>3
<1>6. C(w)!Frame
  BY <1>2, <1>4 DEF C!Frame, C!cluVars, C!locVars
<1>7. C(w)!WaitForConcurrentBoot
  BY <1>3, <1>4, <1>5, <1>6 DEF C!WaitForConcurrentBoot, C!Poll
<1> QED
  BY <1>7 DEF C!Next, C!Run, C!Polls

(* A goroutine deletes its VM as Checkup does.                             *)
LEMMA DeleteFollows ==
    ASSUME IInv, NEW w \in Workers, Delete(w)
    PROVE  C(w)!Next
<1> USE DEF IInv, TypeOK
<1>1. wpc[w] = "delete" /\ owner[vmName[w]] = w
  BY DEF Delete, DeleteOk, DeleteFails, Ownership, Holding
<1>2. wpc'[w] = "release" /\ UNCHANGED <<expired, vmName, boot>>
  BY DEF Delete, DeleteOk, DeleteFails, Goto, envVars
<1>3. StepOf(w) = "deleteConcurrent" /\ C(w)!Goto("finish") /\ UNCHANGED C(w)!repVars
  BY <1>1, <1>2 DEF StepOf, Said, C!Goto, C!repVars
<1>4. CASE DeleteOk(w)
  <2>1. ~expired /\ owner'[vmName[w]] # w
    BY <1>4, OwnersAssumption DEF DeleteOk, OwnersAssumption
  <2>2. Seen(w)' = [o \in ObjectNames |-> "absent"]
    BY <1>2, <2>1 DEF Seen
  <2>3. C(w)!Without("bootVM") = [o \in ObjectNames |-> "absent"]
    BY <1>1, SeenVM DEF C!Without, C!Owned, C!Objects, C!Tracked, ObjectNames
  <2>4. C(w)!Delete("bootVM", "ok")
    BY <1>1, <2>2, <2>3, SeenVM DEF C!Delete
  <2>5. C(w)!DeleteConcurrentVM("ok")
    BY <1>2, <1>3, <2>1, <2>4 DEF C!DeleteConcurrentVM, C!InTime, C!locVars
  <2> QED
    BY <2>5 DEF C!Next, C!Run, C!Requests, C!ConcurrentChecks, C!Answers
<1>5. CASE DeleteFails(w)
  <2>1. Seen(w)' = Seen(w)
    BY <1>2, <1>5 DEF DeleteFails, Seen
  <2>2. C(w)!Delete("bootVM", "refused")
    BY <2>1 DEF C!Delete
  <2>3. C(w)!DeleteConcurrentVM("refused")
    BY <1>2, <1>3, <2>2 DEF C!DeleteConcurrentVM, C!InTime, C!locVars
  <2> QED
    BY <2>3 DEF C!Next, C!Run, C!Requests, C!ConcurrentChecks, C!Answers
<1> QED
  BY <1>4, <1>5 DEF Delete

(* What a goroutine sends, and its end, Checkup does not see.              *)
LEMMA SendingUnseen ==
    ASSUME IInv, NEW w \in Workers, SendCreate(w) \/ SendBoot(w) \/ Release(w)
    PROVE  UNCHANGED C(w)!vars
<1>1. UNCHANGED <<expired, vmName, boot, owner>>
  BY DEF SendCreate, SendBoot, Release, Send, envVars
<1>2. StepOf(w)' = StepOf(w)
  BY DEF SendCreate, SendBoot, Release, Send, Goto, StepOf, IInv, TypeOK
<1> QED
  BY <1>1, <1>2, Unseen

(* Nothing that another goroutine does concerns a goroutine's VM: of two   *)
(* that drew the same name only one creates a VM, and deletes it.          *)
LEMMA OthersUnseen ==
    ASSUME IInv, NEW w \in Workers, NEW u \in Workers \ {w}, Worker(u)
    PROVE  UNCHANGED C(w)!vars
<1> USE DEF IInv, TypeOK
<1>1. UNCHANGED <<expired, vmName>> /\ wpc'[w] = wpc[w] /\ boot'[w] = boot[w]
  BY DEF Worker, Create, CreateOk, CreateRefused, CreateUnacked, SendCreate, SendBoot, Send,
         Poll, PollEnds, Delete, DeleteOk, DeleteFails, Release, Goto, envVars
<1>2. owner'[vmName[w]] = w <=> owner[vmName[w]] = w
  <2>1. CASE Create(u)
    BY <2>1, OwnersAssumption
    DEF Create, CreateOk, CreateRefused, CreateUnacked, OwnersAssumption
  <2>2. CASE Delete(u)
    <3>1. owner[vmName[u]] = u
      BY <2>2 DEF Delete, DeleteOk, DeleteFails, Ownership, Holding
    <3> QED
      BY <2>2, <3>1, OwnersAssumption DEF Delete, DeleteOk, DeleteFails, OwnersAssumption
  <2>3. CASE SendCreate(u) \/ Poll(u) \/ SendBoot(u) \/ Release(u)
    BY <2>3 DEF SendCreate, SendBoot, Send, Poll, PollEnds, Release
  <2> QED
    BY <2>1, <2>2, <2>3 DEF Worker
<1>3. StepOf(w)' = StepOf(w)
  BY <1>1 DEF StepOf
<1> QED
  BY <1>1, <1>2, <1>3, Unseen

(* The caller waits for the goroutines and reads what they sent.           *)
LEMMA CallerUnseen ==
    ASSUME IInv, NEW w \in Workers, Main
    PROVE  UNCHANGED C(w)!vars
<1>1. UNCHANGED <<expired, vmName, boot, owner>>
  BY DEF Main, Spawn, AllSpawned, WaitReturns, Drain, envVars, mainVars
<1>2. StepOf(w)' = StepOf(w)
  <2>1. ASSUME NEW u \in Workers, Spawn(u) PROVE StepOf(w)' = StepOf(w)
    BY <2>1 DEF Spawn, Goto, StepOf, IInv, TypeOK
  <2>2. CASE AllSpawned \/ WaitReturns \/ Drain
    BY <2>2 DEF AllSpawned, WaitReturns, Drain, StepOf
  <2> QED
    BY <2>1, <2>2 DEF Main
<1> QED
  BY <1>1, <1>2, Unseen

(* The deadline is that of Checkup; guest agents only matter to the poll.  *)
LEMMA EnvFollows ==
    ASSUME NEW w \in Workers, Env
    PROVE  [C(w)!Next]_(C(w)!vars)
<1>1. UNCHANGED <<wpc, vmName, boot, owner>>
  BY DEF Env, AgentConnects, AgentDisconnects, Deadline, mainVars
<1>2. StepOf(w)' = StepOf(w) /\ Said(w)' = Said(w) /\ Seen(w)' = Seen(w)
  BY <1>1 DEF StepOf, Said, Seen
<1>3. CASE Deadline
  <2>1. StepOf(w) \in C(w)!RunPCs
    BY DEF StepOf, C!RunPCs
  <2>2. UNCHANGED C(w)!checkVars /\ UNCHANGED C(w)!cluVars
    BY <1>1, <1>2 DEF C!checkVars, C!ctlVars, C!repVars, C!locVars, C!cluVars
  <2>3. C(w)!Deadline
    BY <1>3, <2>1, <2>2 DEF C!Deadline, Deadline
  <2> QED
    BY <2>3 DEF C!Next, C!Env
<1>4. CASE \E n \in Names : AgentConnects(n) \/ AgentDisconnects(n)
  <2>1. expired' = expired
    BY <1>4 DEF AgentConnects, AgentDisconnects
  <2> QED
    BY <1>1, <1>2, <2>1, Unseen
<1> QED
  BY <1>3, <1>4 DEF Env

(* What any goroutine does with its VM, and what happens to it, is a step  *)
(* that Checkup allows the one VM of its concurrent boot check.            *)
THEOREM GoroutinesFollowCheckup == Spec => FollowsCheckup
<1>1. ASSUME IInv, [Next]_vars, NEW w \in Workers PROVE [C(w)!Next]_(C(w)!vars)
  <2> USE <1>1
  <2>1. CASE Worker(w)
    BY <2>1, CreateFollows, PollFollows, DeleteFollows, SendingUnseen DEF Worker
  <2>2. ASSUME NEW u \in Workers \ {w}, Worker(u) PROVE UNCHANGED C(w)!vars
    BY <2>2, OthersUnseen
  <2>3. CASE Main
    BY <2>3, CallerUnseen
  <2>4. CASE Env
    BY <2>4, EnvFollows
  <2>5. CASE UNCHANGED vars
    <3>1. UNCHANGED <<expired, vmName, boot, owner, wpc>>
      BY <2>5 DEF vars, envVars
    <3> QED
      BY <3>1, Unseen DEF StepOf
  <2> QED
    BY <2>1, <2>2, <2>3, <2>4, <2>5 DEF Next
<1>2. IInv /\ [Next]_vars => [\A w \in Workers : [C(w)!Next]_(C(w)!vars)]_vars
  BY <1>1
<1> QED
  BY <1>2, Inductive, PTL DEF Spec, FollowsCheckup
=============================================================================
