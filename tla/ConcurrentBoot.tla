--------------------------- MODULE ConcurrentBoot ---------------------------
(***************************************************************************)
(* The concurrent boot check: checkConcurrentVMIBoot in                    *)
(* src/pkg/internal/checkup/checkup.go. One goroutine per VM creates a VM  *)
(* under a random name, waits for its guest agent and deletes it; failures *)
(* travel over a buffered channel to the caller, which waits on a          *)
(* WaitGroup, closes the channel, drains it and gives the verdict.         *)
(*                                                                         *)
(* The API server and the run's context are the environment: a request may *)
(* be refused, or applied without an acknowledgement, and everything fails *)
(* once the deadline of the context has passed. FollowsCheckup says how    *)
(* Checkup.tla, which has a single VM for all of this, sees it.            *)
(***************************************************************************)
EXTENDS Integers, FiniteSets

CONSTANTS
    Workers,    \* one per VM to boot (numOfVMs of the configuration)
    Names,      \* the names uniqueVMName can return
    NoOne,      \* owner of a name that no VM has
    Other       \* owner of a VM this check did not create

ASSUME WorkersAssumption == IsFiniteSet(Workers) /\ Workers # {}
ASSUME OwnersAssumption  == NoOne \notin Workers /\ Other \notin Workers /\ NoOne # Other

VARIABLES
    main,       \* where the caller is
    wpc,        \* where each goroutine is
    vmName,     \* the name each goroutine uses
    boot,       \* the errs of each goroutine's wait: "none" yet, "booted", "failed"
    wg,         \* counter of the WaitGroup
    reasons,    \* content of the channel: the goroutines whose message is in it
    closed,     \* the channel was closed
    result,     \* results.ConcurrentVMBoot
    expired,    \* the deadline of the context has passed
    owner,      \* who created the VM that has a name
    agent,      \* names of the VMs whose guest agent is connected
    faulty      \* goroutines with a create or delete whose failure left a VM

mainVars == <<main, closed, result>>
envVars  == <<expired, agent>>
vars == <<mainVars, envVars, wpc, vmName, boot, wg, reasons, owner, faulty>>

WorkerPCs == {"idle", "create", "sendCreate", "poll", "sendBoot", "delete", "release", "exited"}
Owners    == Workers \cup {NoOne, Other}

TypeOK ==
    /\ main \in {"spawn", "wait", "drain", "done"}
    /\ wpc \in [Workers -> WorkerPCs]
    /\ vmName \in [Workers -> Names]
    /\ boot \in [Workers -> {"none", "booted", "failed"}]
    /\ wg \in Nat
    /\ reasons \in SUBSET Workers
    /\ closed \in BOOLEAN
    /\ result \in {"none", "pass", "fail"}
    /\ expired \in BOOLEAN
    /\ owner \in [Names -> Owners]
    /\ agent \in SUBSET Names
    /\ faulty \in SUBSET Workers

(* The VM under test, and VMs of other checkups in the namespace, exist    *)
(* already. The names are drawn when the goroutines run, so that any two   *)
(* may draw the same one.                                                  *)
Init ==
    /\ main = "spawn"
    /\ wpc = [w \in Workers |-> "idle"]
    /\ vmName \in [Workers -> Names]
    /\ boot = [w \in Workers |-> "none"]
    /\ wg = 0
    /\ reasons = {}
    /\ closed = FALSE
    /\ result = "none"
    /\ expired = FALSE
    /\ owner \in [Names -> {NoOne, Other}]
    /\ agent = {}
    /\ faulty = {}

-----------------------------------------------------------------------------
(* The goroutines.                                                         *)

Goto(w, next) == wpc' = [wpc EXCEPT ![w] = next]

(* Bug: the channel is one message short.                                  *)
BugCapacity == Cardinality(Workers) - 1

Capacity == Cardinality(Workers)

(* CreateVirtualMachine: a name in use is refused (AlreadyExists), as is   *)
(* anything after the deadline. A failed create is reported, and since the *)
(* delete is deferred only after it, nothing is deleted.                   *)
CreateOk(w) ==
    /\ wpc[w] = "create"
    /\ ~expired /\ owner[vmName[w]] = NoOne
    /\ owner' = [owner EXCEPT ![vmName[w]] = w]
    /\ Goto(w, "poll")
    /\ UNCHANGED <<mainVars, envVars, vmName, boot, wg, reasons, faulty>>

CreateRefused(w) ==
    /\ wpc[w] = "create"
    /\ boot' = [boot EXCEPT ![w] = "failed"]
    /\ Goto(w, "sendCreate")
    /\ UNCHANGED <<mainVars, envVars, vmName, wg, reasons, owner, faulty>>

CreateUnacked(w) ==
    /\ wpc[w] = "create"
    /\ ~expired /\ owner[vmName[w]] = NoOne
    /\ owner' = [owner EXCEPT ![vmName[w]] = w]
    /\ faulty' = faulty \cup {w}
    /\ boot' = [boot EXCEPT ![w] = "failed"]
    /\ Goto(w, "sendCreate")
    /\ UNCHANGED <<mainVars, envVars, vmName, wg, reasons>>

(* A send on the buffered channel blocks while the buffer is full.         *)
Send(w, next) ==
    /\ Cardinality(reasons) < Capacity
    /\ reasons' = reasons \cup {w}
    /\ Goto(w, next)
    /\ UNCHANGED <<mainVars, envVars, vmName, boot, wg, owner, faulty>>

(* Bug: the delete is deferred before the create.                          *)
BugSendCreate(w) == wpc[w] = "sendCreate" /\ Send(w, "delete")

(* Bug: the failure path calls wg.Done, which is deferred as well.         *)
BugSendCreateTwiceDone(w) ==
    /\ wpc[w] = "sendCreate"
    /\ Cardinality(reasons) < Capacity
    /\ reasons' = reasons \cup {w}
    /\ wg' = wg - 1
    /\ Goto(w, "release")
    /\ UNCHANGED <<mainVars, envVars, vmName, boot, owner, faulty>>

SendCreate(w) == wpc[w] = "sendCreate" /\ Send(w, "release")

(* Bug: a VM that does not boot is not deleted.                            *)
BugSendBoot(w) == wpc[w] = "sendBoot" /\ Send(w, "release")

SendBoot(w) == wpc[w] = "sendBoot" /\ Send(w, "delete")

(* waitForVMIBoot never returns an error: it writes the failure to errs.   *)
WaitFailed(errs) == errs = "failed"

(* waitForVMIBoot ends: the guest agent was seen; or its timeout, the      *)
(* deadline of the context or an error of the Get ended the poll.          *)
PollEnds(w, errs) ==
    /\ wpc[w] = "poll"
    /\ errs = "booted" => ~expired /\ vmName[w] \in agent
    /\ boot' = [boot EXCEPT ![w] = errs]
    /\ Goto(w, IF WaitFailed(errs) THEN "sendBoot" ELSE "delete")
    /\ UNCHANGED <<mainVars, envVars, vmName, wg, reasons, owner, faulty>>

(* The deferred DeleteVirtualMachine, whose error is only logged. It uses  *)
(* the context of the run: after the deadline it always fails.             *)
DeleteOk(w) ==
    /\ wpc[w] = "delete"
    /\ ~expired
    /\ owner' = [owner EXCEPT ![vmName[w]] = NoOne]
    /\ agent' = agent \ {vmName[w]}
    /\ Goto(w, "release")
    /\ UNCHANGED <<mainVars, expired, vmName, boot, wg, reasons, faulty>>

(* Bug: the delete is retried until it succeeds.                           *)
BugDeleteFails(w) ==
    /\ wpc[w] = "delete"
    /\ faulty' = faulty \cup {w}
    /\ UNCHANGED <<mainVars, envVars, wpc, vmName, boot, wg, reasons, owner>>

DeleteFails(w) ==
    /\ wpc[w] = "delete"
    /\ faulty' = faulty \cup {w}
    /\ Goto(w, "release")
    /\ UNCHANGED <<mainVars, envVars, vmName, boot, wg, reasons, owner>>

(* wg.Done is the first deferred call and so the last to run.              *)
Release(w) ==
    /\ wpc[w] = "release"
    /\ wg' = wg - 1
    /\ Goto(w, "exited")
    /\ UNCHANGED <<mainVars, envVars, vmName, boot, reasons, owner, faulty>>

-----------------------------------------------------------------------------
(* The caller.                                                             *)

Spawn(w) ==
    /\ main = "spawn"
    /\ wpc[w] = "idle"
    /\ wg' = wg + 1
    /\ Goto(w, "create")
    /\ UNCHANGED <<mainVars, envVars, vmName, boot, reasons, owner, faulty>>

AllSpawned ==
    /\ main = "spawn"
    /\ \A w \in Workers : wpc[w] # "idle"
    /\ main' = "wait"
    /\ UNCHANGED <<closed, result, envVars, wpc, vmName, boot, wg, reasons, owner, faulty>>

(* Bug: the channel is closed without waiting.                             *)
BugWaitReturns ==
    /\ main = "wait"
    /\ closed' = TRUE
    /\ main' = "drain"
    /\ UNCHANGED <<result, envVars, wpc, vmName, boot, wg, reasons, owner, faulty>>

(* wg.Wait returns and the channel is closed.                              *)
WaitReturns ==
    /\ main = "wait"
    /\ wg = 0
    /\ closed' = TRUE
    /\ main' = "drain"
    /\ UNCHANGED <<result, envVars, wpc, vmName, boot, wg, reasons, owner, faulty>>

Drain ==
    /\ main = "drain"
    /\ result' = IF reasons = {} THEN "pass" ELSE "fail"
    /\ main' = "done"
    /\ UNCHANGED <<closed, envVars, wpc, vmName, boot, wg, reasons, owner, faulty>>

-----------------------------------------------------------------------------
(* The environment.                                                        *)

AgentConnects(n) ==
    /\ owner[n] # NoOne
    /\ agent' = agent \cup {n}
    /\ UNCHANGED <<mainVars, expired, wpc, vmName, boot, wg, reasons, owner, faulty>>

AgentDisconnects(n) ==
    /\ agent' = agent \ {n}
    /\ UNCHANGED <<mainVars, expired, wpc, vmName, boot, wg, reasons, owner, faulty>>

Deadline ==
    /\ expired' = TRUE
    /\ UNCHANGED <<mainVars, agent, wpc, vmName, boot, wg, reasons, owner, faulty>>

Create(w) == CreateOk(w) \/ CreateRefused(w) \/ CreateUnacked(w)
Poll(w)   == \E errs \in {"booted", "failed"} : PollEnds(w, errs)
Delete(w) == DeleteOk(w) \/ DeleteFails(w)

Worker(w) == Create(w) \/ SendCreate(w) \/ Poll(w) \/ SendBoot(w) \/ Delete(w) \/ Release(w)
Main      == (\E w \in Workers : Spawn(w)) \/ AllSpawned \/ WaitReturns \/ Drain
Env       == (\E n \in Names : AgentConnects(n) \/ AgentDisconnects(n)) \/ Deadline

Next == Main \/ (\E w \in Workers : Worker(w)) \/ Env

Spec == Init /\ [][Next]_vars

(* Goroutines are scheduled and requests return. A poll need not end       *)
(* before the deadline: vmiTimeout may be longer or zero, which is no      *)
(* timeout at all; the deadline of the context does come.                  *)
Fairness ==
    /\ WF_vars(Main)
    /\ WF_vars(Deadline)
    /\ \A w \in Workers :
        /\ WF_vars(Create(w) \/ SendCreate(w) \/ SendBoot(w) \/ Delete(w) \/ Release(w))
        /\ WF_vars(expired /\ Poll(w))

FairSpec == Spec /\ Fairness

-----------------------------------------------------------------------------
(* No goroutine ever blocks on the channel: the caller reads it only after *)
(* wg.Wait, so a full buffer would be a deadlock.                          *)
SendNeverBlocks ==
    \A w \in Workers :
        wpc[w] \in {"sendCreate", "sendBoot"} => Cardinality(reasons) < Capacity

(* No goroutine runs after the channel was closed: a send on it would      *)
(* panic and a later delete would outlive the check.                       *)
ClosedAfterAllExited ==
    closed => \A w \in Workers : wpc[w] = "exited"

(* The channel never blocks a goroutine, nor the caller with it, and is    *)
(* never written to after it was closed, which would crash the process.    *)
ChannelIsSafe == SendNeverBlocks /\ ClosedAfterAllExited

(* The verdict is "pass" exactly when every goroutine saw its own VM boot. *)
VerdictIsExact ==
    main = "done" => (result = "pass" <=> \A w \in Workers : boot[w] = "booted")

(* The check takes a VM away only if the goroutine that created it does:   *)
(* a name drawn twice, or in use by another checkup or by the VM under     *)
(* test, never costs someone else a VM.                                    *)
DeletesOwnVMsOnly ==
    [][\A n \in Names : owner'[n] # owner[n] /\ owner[n] # NoOne =>
          /\ owner'[n] = NoOne
          /\ owner[n] \in Workers
          /\ wpc[owner[n]] = "delete" /\ vmName[owner[n]] = n]_vars

(* A VM outlives its goroutine only if the API failed the goroutine: the   *)
(* create was not acknowledged or the delete failed.                       *)
OnlyFaultsLeaveVMs ==
    \A n \in Names : owner[n] \in Workers /\ wpc[owner[n]] = "exited" => owner[n] \in faulty

(* What the check promises its caller.                                     *)
Promise == INSTANCE BootVerdict

(* The check keeps that promise: it reads no verdict before every          *)
(* goroutine has settled its own, and none changes afterwards.             *)
KeepsPromise == Promise!Spec

(* The check ends, though some VMs never boot and no request succeeds.     *)
CheckEnds == <>(main = "done")
-----------------------------------------------------------------------------
(* The check as Checkup.tla has it, from the VM of one goroutine: where    *)
(* all went well before and until the goroutine has ended. What is sent on *)
(* the channel is no step of Checkup, the verdict is one goroutine's.      *)

World ==
    [defaultSC |-> "one", configuredSC |-> FALSE, golden |-> {"pvc"}, nilSC |-> FALSE,
     smartClone |-> TRUE, gate |-> TRUE, gc |-> FALSE, foreign |-> {}]

StepOf(w) ==
    CASE wpc[w] \in {"idle", "create"} -> "concurrent"
      [] wpc[w] = "poll" -> "waitConcurrent"
      [] wpc[w] \in {"sendBoot", "delete"} -> "deleteConcurrent"
      [] OTHER -> "finish"

Said(w) ==
    CASE boot[w] = "none" -> {}
      [] boot[w] = "booted" -> {"pass"}
      [] OTHER -> {"fail"}

FieldNames ==
    {"versions", "defaultSC", "pvcBound", "surveys", "boot", "clone",
     "hotplug", "migration", "snapshot", "restore", "concurrent"}

ObjectNames ==
    {"restore", "snapshot", "vm", "hotplugDV", "hotplugPVC", "checkupDV", "checkupPVC", "vmi",
     "vmim", "bootVM"}

Seen(w) ==
    [o \in ObjectNames |-> IF o = "bootVM" /\ owner[vmName[w]] = w THEN "ours" ELSE "absent"]

C(w) == INSTANCE Checkup WITH
    Worlds     <- {World},
    world      <- World,
    pc         <- StepOf(w),
    ret        <- "none",
    results    <- [f \in FieldNames |-> IF f = "concurrent" THEN Said(w) ELSE {}],
    errStr     <- IF boot[w] = "failed" THEN {"concurrent"} ELSE {},
    cluster    <- Seen(w),
    stopped    <- FALSE,
    under      <- FALSE,
    snapshotOK <- FALSE,
    tdFailed   <- FALSE

(* Every goroutine, of the many that run at the same time and may draw the *)
(* same name, does with its VM only what Checkup allows the one VM that it *)
(* keeps, and nobody else does anything to that VM.                        *)
FollowsCheckup == [][\A w \in Workers : [C(w)!Next]_(C(w)!vars)]_vars
=============================================================================
