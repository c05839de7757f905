# A TLA+ model of the KubeVirt storage checkup

This directory holds TLA+ specifications of the program in this repository, the TLC
configurations that check them on small instances, and proofs that TLAPS checks for every
value of the constants. Every definition is translated from the source; `PROJECT.json` maps
each one to its lines.

Reading order: `Launcher`, `Checkup`, `System`; then the parts that these take as single
steps: `StatusReport`, `VMUnderTest`, `ConcurrentBoot`, `GoldenImages`, `StorageSurvey`,
`VMIAudit`, `WaitLoop`.

## 1. The system

The program is one Job in a cluster. It reads a user-supplied ConfigMap, runs a fixed
sequence of storage checks against the API server, and writes its results back.

| component | source | state | operations |
|---|---|---|---|
| main flow | `cmd/main.go`, `pkg/mainflow.go` | a context with the deadline `spec.timeout` | build client, configuration, checkup, reporter; run the launcher; exit code |
| configuration | `pkg/internal/config` | the ConfigMap's parameters | `ReadWithDefaults` (reads, adds defaults, writes), `New` (parses) |
| launcher | `pkg/internal/launcher` | `runStatus`: start, completion, failure reasons | start report, Setup, Run, deferred Teardown, deferred final report |
| status reporter | `pkg/internal/reporter`, vendored kiagnose reporter | its copy of the ConfigMap | `Report` |
| checkup | `pkg/internal/checkup/checkup.go` | results, `errStr`, default class, golden image, `vmUnderTest` | `Run` (twelve checks), `Teardown` |
| concurrent boot check | `checkConcurrentVMIBoot` | goroutines, WaitGroup, channel | create, poll, delete one VM per goroutine; verdict |
| golden images | `checkGoldenImages` and below | chosen PVC and snapshot, two fallbacks, crons to report | scan of the DataImportCrons of all namespaces |
| storage classes and profiles | `checkDefaultStorageClass`, `checkStorageProfiles`, `checkVolumeSnapShotClasses` | names to report | rules over lists of objects |
| audit of running VMs | `checkVMIs` and below | names to report | rules over volumes of running VMs |
| VM definition | `checkup/vmi.go`, `checkup/vmi/spec.go` | none | builds the VM, its volumes, their source and class, its owner |
| API client | `pkg/internal/client` | none | one wrapper per request |
| wait loop | vendored `apimachinery/pkg/util/wait` | a goroutine with a ticker and a timer, an unbuffered channel | `PollImmediateWithContext` |
| manifests, permissions, end-to-end tests | `manifests/`, `tests/` | none | none |

The components interact by calls. The launcher calls the checkup (`Setup`, `Run`,
`Teardown`, `Results`) and the reporter (`Report`). The checkup and the reporter share
nothing but the cluster, on which CDI (volumes), KubeVirt (VMs, migrations, snapshots), the
garbage collector, other checkups and the kubelet act at the same time. The ConfigMap is
shared with the user who applies and edits it and with every other process that was started
on it. Inside the process the concurrent boot check runs goroutines, and every poll one.

What is hard here:

* *Deferred calls*: the final report, the teardown and the exit code are computed in
  deferred functions, from failures that are still being collected; a panic goes through
  them too.
* *Requests*: any request may be refused, or be carried out without an acknowledgement;
  nothing is retried.
* *The deadline*: it may pass between any two steps. Run and its polls then only fail,
  Teardown has a context of its own, and one request ignores the context.
* *Soft and hard failures*: most failures are appended to a string and Run goes on; others
  end Run at once.
* *Cleaning up*: what a run created is removed by the checks themselves, by Teardown or by
  the deletion of the pod that owns it, depending on the kind of object and on where Run
  ended.
* *Goroutines*: a channel that is read only after all its writers have ended, random names,
  deferred deletes.
* *One ConfigMap, several writers*: every write sends the whole object back as it was read,
  under optimistic concurrency, and is never retried; the test whether the ConfigMap is in
  use, the start report and the final report are separate requests.
* *A VM that is patched*: hotplug and unplug replace whole lists without a version, while
  users, guests and nodes change the VM and its instance; the conclusions are drawn from a
  status that does not say whose doing it shows.
* *Lists in any order*: default classes, profiles, VMs and volumes come as lists, and what is
  reported should not depend on their order.
* *Shared names*: two checkups in one namespace use the same names for volumes and the
  migration.

`PROJECT.json` lists each hazard at its line, with the properties that cover it or the
reason why none does yet.

What makes each component correct, and where it is stated:

| component | property |
|---|---|
| launcher | an exit with 0 is earned; a persisted completion is complete and final; results outlive every failure; `skipTeardown` is honoured; what was started is completed |
| checkup | a success is complete; skips are justified; Teardown leaves nothing of its own; only stopped VMs are restored; other checkups' objects survive; it ends (as part of the program) |
| concurrent boot | no goroutine blocks or outlives the check; only own VMs are deleted; only a fault of the API leaves a VM; the verdict is exact; it ends; each goroutine does what `Checkup` takes it for |
| golden images | the best image is chosen; exactly the crons at fault are reported |
| status reporter, configuration | a completion is stored only over its own untouched start report; edits survive; a busy ConfigMap stays with its process; a lost report has a reason; the results beside a success belong to it |
| storage survey | the default class is determinate, and used even if ambiguous; two checks agree on every profile; a preferred class deserves it |
| audit | the VM class is unique; the VMs at fault are reported; the audit ends Run only for a reason outside of it |
| VM under test | volumes have the configured class; patches lose no volume; each pass of hotplug, unplug, migration and restore is earned; its checks are those that `Checkup` takes them for |
| wait loop | the last look counts; an early end has a reason; zero is no timeout; no goroutine is left; a poll passes only on what it saw, and ends |
| program | a success that a user reads is earned; with the pod goes everything that has an owner |

## 2. Modules

| module | models | lines of the source |
|---|---|---|
| `Launcher` | the life of one process around an abstract checkup | `launcher.go`, `reporter.go`, `main.go` |
| `Checkup` | Run and Teardown, one step per request or poll | `checkup.go` |
| `System` | `Launcher` and `Checkup` composed, up to the deletion of the pod | `mainflow.go` |
| `ConcurrentBoot` | the goroutines of the concurrent boot check | `checkConcurrentVMIBoot` |
| `BootVerdict` | abstract: each VM gets one outcome, then there is one verdict | `checkConcurrentVMIBoot` |
| `GoldenImages` | the scan and the choice | `checkGoldenImages` and below |
| `StatusReport` | processes and a user on one ConfigMap | `config.go`, `reporter.go`, the vendored kiagnose config and reporter |
| `StatusLedger` | abstract: claims and completions | the same |
| `VMUnderTest` | the VM's definition, and its volumes, instance, migration, snapshot and restore under the checks | `vmi.go`, `spec.go`, `checkVMIBoot` to `checkVMRestore` |
| `StorageSurvey` | default class, storage profiles, snapshot classes | `checkDefaultStorageClass`, `checkStorageProfiles`, `checkVolumeSnapShotClasses` |
| `VMIAudit` | the audit of running VMs | `checkVMIs` and below |
| `ListScan` | where a check is that loops over lists, beginning with the storage classes; extended by the two above | the loops of both |
| `WaitLoop` | the polling loop, its goroutine and its clocks | vendored `wait.go` |
| `PollContract` | abstract: a poll passes on what it sees, or fails, and ends | `waitForVMIStatus` |
| `LauncherProofs`, `CheckupProofs`, `SystemProofs`, `ConcurrentBootProofs`, `StatusReportProofs`, `VMUnderTestProofs`, `WaitLoopProofs` | theorems about the module they are named after | |
| `ReadingChecksProofs` | theorems about `GoldenImages`, `StorageSurvey` and `VMIAudit` | |
| `MC...` | instances for TLC | |

Definitions named `Bug...` stand before the definition they vary: each is a plausible
mistake in the code that a property of the runs must notice. No specification uses them.

### Launcher

`pc` walks through `Launcher.Run`: `start` (first report), `setup`, `run`, `teardown` (the
deferred function at launcher.go:78), `report` (the one at 64), `exit` (`failureReason` and
`main`). `reasons` is `runStatus.FailureReason`, kept as the set of calls that failed. `cm`
is the ConfigMap as the API server has it; an update of it is stored, refused, or stored
without an acknowledgement (`ReportOutcomes`). `panicking` says that only deferred calls
still run. The checkup is a number of `results` and a `cluster` that is clean or dirty.

### Checkup

`pc` is the next request or poll. `results[f]` is the set of things said in a result field,
`errStr` the fields that contributed to the text of that name, `cluster` says of each object
whether it exists and whether this run created it. `expired` is the deadline of Run's
context. `Poll` is the contract of `PollImmediateWithContext`: the condition was seen to
hold, or the timeout, the deadline or an error of the condition ended the poll, at any time.
`Survey` stands for the checks that only read. The environment provisions and collects
volumes, starts and ends the VM's instance, and collects the migration of an instance that
is gone. CDI collects a DataVolume (`Collect`) only once it has provisioned the DataVolume's own
PVC: that is what leaves a PVC of this run behind for Teardown to find.

A *world* is a cluster and a configuration: the number of default storage classes, whether
one is configured, the golden images there are, whether the image PVC has a class and can be
cloned without copying, the Snapshot feature gate, CDI's garbage collection, and objects of
other checkups.

### System

Instantiates both modules. The launcher's `results` and `cluster` are functions of the
checkup's state (`Recorded`, `TrackedLeft`), so that the launcher's abstract checkup becomes a
claim about the detailed one: `RefinesLauncher`. `PodDeleted` removes what has the pod as
its owner, directly or through a VM or a DataVolume.

### ConcurrentBoot

One process per goroutine and the caller. `reasons` is the content of the channel, `wg` the
counter of the WaitGroup, `owner` who created the VM that has a name. Names are drawn
freely, so any two goroutines may draw the same, or the name of a VM that exists already.
`BootVerdict` is what the caller relies on, and `KeepsPromise` that the goroutines implement
it. `FollowsCheckup` is the link to `Checkup`, which has one VM for all: seen from any single
goroutine (`C(w)`), what it does with its VM, and what happens to that VM, are the steps that
`Checkup` takes, the deadline included. The channel is no part of it; that the verdict counts
every goroutine is `VerdictIsExact`.

### GoldenImages

The environment fixes the DataImportCrons; the actions look at one cron each, in the order
of `checkDataImportCrons` (equal import times in any order, as `sort.Slice` is not stable).
`ChoiceIsBest` defines the best image without an order of scanning: the first PVC of the
default or configured class with smart clone, else any with smart clone, else the first of
the default class or without a class, else the first there is. "First" is: in the well-known
namespace before any other, and newest in its namespace. All namespaces but the well-known
one are a single namespace here.

### StatusReport and StatusLedger

One process per Job that was started on the ConfigMap. `pc[p]` is its next request: `begin`
to `check` are `ReadWithDefaults` with the vendored `Read` at its end, `getStart` to
`putFinal` the two reports. `copy[p]` is the object the process holds; a write succeeds if
`copy[p].version` is that of the ConfigMap, may be refused or stored without an
acknowledgement, and leaves the version alone if it changes nothing. That last rule of the
API server matters: a process that is about to be refused writes the defaults first, and
only because they are there already does it not make the report of the running process fail
(`LostReportIsExplained`; a mutant that changes the object every time violates it). A user may
change the spec, take the start timestamp out, or apply the ConfigMap anew. `disturbed` and
`late` remember who was interfered with and who came late. `StatusLedger` forgets versions and
copies: a completion is stored only while its process' start report is the last word.

### StorageSurvey and VMIAudit

Both go through lists item by item, in the order the API server returned them, with an index
`i` (`ListScan`) and the variables of the Go functions; the environment fixes the lists, the VMs
of `VMIAudit` when their namespace is listed, since they come and go. The properties compare the
outcome with definitions over sets. `VMIAudit!Ambiguous` is the turn of a loop that finds one class
too many; whether it is reached may depend on the order (checkup.go:751), and
`AbortIsExplained` allows for that. `Judge` ends a VM at its first volume that is no claim
(checkup.go:799), and `AuditIsExact` promises nothing for the volumes after it.

### VMUnderTest

Looks closer at the VM of `Checkup`: the volumes of its template, the class each asks for,
the instance with its hotplugged volumes and `MigrationState`, the snapshot and the restore
with the volumes they hold. `PatchVM` is the client's merge patch: nothing if nothing
changed, otherwise the whole list, with no version. KubeVirt attaches, detaches, migrates,
snapshots and restores in its own time; guests crash, nodes are drained, snapshots turn bad
and a user hotplugs a volume (`Event`, at most `MaxEvents` times). Every wait that ends well
must see its condition; every one may fail.

`FollowsCheckup` says that all this is what `Checkup` takes it for: under the mapping at the
end of the module, every step of the checks and of the cluster is a step of `Checkup` or one
that `Checkup` does not see. The mapping translates the names of the steps (`StepOf`), what was
said into the result fields and `errStr` (`RecordedIn`, `FailedFields`) and the cluster into which
objects exist (`ClusterSeen`). It begins where the golden image is known and nothing has failed,
and leaves the deadline out, so it is about steps and not about `Checkup!Init`. A read of the
VM before a patch is no step of `Checkup` unless it is refused; the two unplug steps report in
the field of hotplug.

### WaitLoop and PollContract

`caller` is `PollImmediateWithContext` and what it calls: the immediate run of the condition,
then `select` on ticks, closing and context. `poller` is the goroutine of `wait.poller`. A
request takes time: between its answer and what the caller does with it the cluster moves on.
A tick is dropped unless the caller is in its `select`. `PollContract` is what `Checkup!Poll`
and `VMUnderTest!Poll` take for granted.

## 3. Runs

| run | shows | bounds |
|---|---|---|
| `launcher` | the launcher's safety and action properties | two results |
| `concurrent_boot` | safety, refinement of `BootVerdict`, and that the check ends | three VMs, two names, some in use by others |
| `checkup` | safety of Run and Teardown | eleven worlds |
| `system` | refinement of `Launcher`, an earned success, what the pod takes with it | two worlds, all modes, at most two soft failures (`FewFailures`) |
| `system_live` | what was started is completed, hence that Run and Teardown end | four worlds, all modes |
| `golden_images` | choice and report | three crons, two classes, two import times |
| `status_report` | safety and refinement of `StatusLedger` | three processes, one edit, a legal and an illegal spec |
| `storage_survey` | default class, profiles, snapshot classes | lists of up to three classes and two profiles of nine kinds |
| `vmi_audit` | classes and report of the audit | lists of up to three classes, two VMs of up to two volumes, two namespaces |
| `vm_under_test` | the checks of the VM under test, from its creation to its restore | one blank volume, three inputs, two events |
| `wait_loop` | the loop implements `PollContract` | none: finite as it is, with a timeout and without |

The bounds: the launcher's behaviour does not depend on how many results there are, two tell
"none", "some" and "all" apart. With three goroutines there is one that fails to create, one
that does not boot and one that boots at the same time, and two of them share a name; the
theorems hold for any number. Each world of `Checkup` is there for a path or a
hazard that the others do not reach. In the runs of `System` without fairness a behaviour is
followed until a third check has failed softly: the launcher only sees whether there is a
failure, and `Checkup` is checked alone without this bound. `system_live` has no such bound
but fewer worlds: in three of them checks are skipped, fail or end Run early, the other one
crashes Run. Three crons are enough for one that is
chosen, one that it replaces and one that is passed over, each pair in every order of
namespaces, times and classes; crons and classes are interchangeable, and symmetry is used
for them. In `status_report` one process reports, one is refused and one takes over after the
user's edit; processes are interchangeable, and the properties of that run are safety
properties. A class is one of three in its list so that it may come before, between or after
two that conflict; a profile is judged by itself, and two of them tell apart what is carried
over from one to the next. The same holds for the VMs and volumes of `vmi_audit`. In
`vm_under_test` two events are enough for a user who interferes and changes their mind, a
crash after a drain, or one of these around each wait; more blank volumes behave like the one.
The two properties `FollowsCheckup` evaluate the next-state relation of `Checkup` on every
step, which is slow: with `PROPERTY FollowsCheckup` added, TLC checks `MCVMUnderTest.cfg` with
`MaxEvents = 1` in about two minutes, and `MCConcurrentBoot.cfg` under `Spec` in about four. They are
in no run because they are proved for every value of the constants.

The run `succeeded` ends in a violation and shows a disagreement between the code and what is
written of it: a panic of Run (checkup.go:315, a golden image PVC without a storage class) is
reported as a success by the deferred function (launcher.go:64), while
docs/vanilla-k8s-guide.md:165 says of `status.succeeded` "`true` if all checks passed".

Other disagreements are in the models, and visible in the actions named, without a run of
their own:

| action | code | text |
|---|---|---|
| `Checkup!ReportSnapshotClone` | reports a snapshot clone of a VM that was cloned from a PVC when both images were found (checkup.go:906, vmi.go:45) | README.md:99: "VM volume clone type used" |
| `Checkup!CreateSnapshot` | with the Snapshot gate off the refused create ends Run with an error (checkup.go:1359) | docs/vanilla-k8s-guide.md:33: "Without this, snapshot tests will be skipped" |
| `Checkup!OrAbort` | an error that ends Run replaces the failures gathered before (checkup.go:181-241) | docs/vanilla-k8s-guide.md:166: "Error details if any check failed" |
| `Checkup!DeleteConcurrentVM` | a VM of the concurrent boot check may stay, and the checkup succeed (checkup.go:1186) | README.md:70: "ensuring that all resources are cleaned up" |
| `VMIAudit!Judge` | a VM is missed if a volume that is no claim comes before the one at fault (checkup.go:799) | README.md:97: "VMs using an EFS storageclass where the gid and uid are not set" |

And some things no text speaks of, which a reader of the results should know: a completed
migration may be that of a drained node, as `MigrationState` is not compared with the
checkup's migration; a hotplug may be reported as ready because of
another hotplugged volume; a snapshot check passes although volumes
are excluded, and only the restore notices (all three: `PassesAreEarned`); any error of a single
GET other than NotFound fails the check that polls (`EndIsOrderly`); a start report that
was stored but not acknowledged leaves the ConfigMap in use, with a start and no completion,
until a user edits it (`LostReportIsExplained`); a ConfigMap that a user edits during a run
never gets its results.

`CHECK_DEADLOCK FALSE` is set where the process, the check, the scan or the poll ends.

Fairness. The launcher is one goroutine that only its own calls can hold, so its steps are
weakly fair; requests of client-go return. A poll is fair only once the deadline has passed:
`vmiTimeout` may be longer than the deadline, and zero is no timeout at all. The deadline
does pass. Nothing is assumed of KubeVirt's and CDI's controllers, of VMs booting,
requests succeeding or the pod being deleted. In `WaitLoop` both goroutines are
scheduled and the deadline passes; a request may hang until the deadline, when the context
ends it, the timer of the timeout need not fire first, and no tick has to find the caller
waiting.

## 4. Proofs

Every safety property that a run checks is a theorem as well, for every value of the
constants: `THEOREM Spec => []P` for an invariant, `Spec => [][A]_vars` for an action property,
and the refinements. None of the properties is inductive as it stands. Each proof module
defines the invariant that is (`IInv`, or one of three in `ReadingChecksProofs`) as a
conjunction of named parts, which TLC checked on the instance of the run before it was
proved; then come the initial state, one step per action, and the theorems.

| module | theorems | for every |
|---|---|---|
| `LauncherProofs` | `TypeOK`, `ExitZeroIsEarned`, `PersistedReasonsAreComplete`, `ResultsOutliveFailures`, `SkipModeHonoured`, `CompletionIsLast` | number of results |
| `CheckupProofs` | `TypeOK`, `SuccessIsComplete`, `SkipsAreJustified`, `TeardownCleans`, `RestoresStoppedVMsOnly`, `ForeignSurvives` | set of worlds |
| `SystemProofs` | `RefinesLauncher`, `ReportedSuccessIsEarned`, `PodTakesTheRest` | set of worlds, mode |
| `ConcurrentBootProofs` | `TypeOK`, `ChannelIsSafe`, `VerdictIsExact`, `OnlyFaultsLeaveVMs`, `DeletesOwnVMsOnly`, `KeepsPromise`, `FollowsCheckup` | finite set of goroutines, any names |
| `StatusReportProofs` | `TypeOK`, `LostReportIsExplained`, `BusyIsRespected`, `KeepsLedger` | set of processes and specs, number of edits |
| `VMUnderTestProofs` | `TypeOK`, `VolumesAreKept`, `PassesAreEarned`, `FollowsCheckup` | set of blank volumes and classes, inputs, number of events |
| `WaitLoopProofs` | `TypeOK`, `EndIsOrderly`, the steps of `PollContract` | set of timeouts |
| `ReadingChecksProofs` | `TypeOK`, `ChoiceIsBest`, `ReportIsExact`; `SurveyTypeOK`, `DefaultIsDeterminate`, `ProfilesAreJudgedAlike`; `AuditTypeOK`, `AbortIsExplained`, `AuditIsExact` | set of crons, classes, VMs, and lists of any length |

The proofs assume what the specifications name as assumptions and nothing else: a positive
number of results and of namespaces; a finite, non-empty set of goroutines; model values that
differ from one another; worlds, inputs and lists that have their types.
`ReadingChecksProofs` extends the three modules it is about, `GoldenImages`, `StorageSurvey` and
`VMIAudit`, side by side: they share no name but those of `ListScan`, which is why the definitions
of the last two bear the name of their check. Each theorem is about the specification of one of
them, and the variables of the others are left free.

The arguments:

* *Launcher.* The invariant says of every `pc` which calls may have failed and what the
  ConfigMap holds by then: that a completion exists only from `exit` on is what makes it final,
  and that by then it exists or the report has failed is why results are not lost (`Phases`).
  `TypeOK` is proved as a lemma and is in no run: with `NumResults` in place of the fixed fields
  of the report it says nothing that the code could break.
* *Checkup.* `Reports` says which results have a verdict at which `pc`, and that a failure on
  record is in `errStr` as well; with it an empty `errStr` at the end of Run means that every
  check passed. `Ownership` says that without `vmUnderTest` nothing that Teardown would
  remove is of this run, `Gone` what Teardown has removed by each of its steps. The order of the
  steps matters: the VM is deleted before its volumes, and while the VM is there its instance
  may come back. `RestoreIsSafe` carries "stopped, and cannot come back" from the stop to the
  restore.
* *System.* Each step maps to a step of `Launcher` or a stutter; for that the invariant says where
  the checkup is while the launcher is before, in and after Run (`Phases`), and that a Teardown
  that the launcher takes for one without an error has left nothing (`TornDownIsClean`), which
  comes from `CheckupProofs`. Launcher's theorems then hold of the program, and the types of
  its ConfigMap are used that way.
* *ConcurrentBoot.* The invariant ties each goroutine's `pc` to its place in the channel, its
  outcome and the VM it owns, and the WaitGroup's counter to the number of goroutines between
  their start and their end. A goroutine's message is in the channel at most once and not
  before it is sent, so a goroutine about to send finds at most all the others' there: that
  is why a capacity of `numOfVMs` is enough. `FollowsCheckup` rests on `Ownership`: a goroutine
  that polls or deletes owns the VM of its name, so that nobody else's step touches it.
* *StatusReport.* `Versions` is the optimistic concurrency of the API server: no copy is newer
  than the ConfigMap, and one of the same version equals it. So a write that is stored starts
  from the ConfigMap as it is. `LateAreRefused` follows a process that found the ConfigMap in use;
  `DefaultsStay` is why it changes nothing on its way out. In the refinement of `StatusLedger` a
  final report that is stored maps to a completion because the process' start report is still
  the last word: had it been disturbed, the version would have moved.
* *VMUnderTest.* `Patching` ties the list that was read to the template at the time of the
  patch; `Unplugged` says that from the patch that removes hotplug-volume on, nothing adds it
  again; `Snapshotted` that a validated snapshot keeps its contents whatever becomes of its
  phase. `Witnessed` ties what the instance's status shows to what has happened. `FollowsCheckup`
  has one step per action again, and needs from the invariant only what `Checkup` asks of a
  step: that what it creates is not there yet and that a check has not spoken before
  (`Fresh`), and that the instance runs where a poll sees its status.
* *WaitLoop.* The timer ends the poller, the poller's end leads to the last look, and a last look
  that fails shows that the condition has not held ever since the timer (`LastLook`).
* *Scans.* The variables of a scan summarise the items it has gone past. `ChoiceSoFar` says
  so of the best PVC and snapshot and the two fallbacks among the crons that were looked at,
  `ClassesSoFar` and `ProfilesSoFar` of the storage survey, and `ClassesFound` and `Reported`
  of the audit, whose VMs come and go while it reads. The properties follow when the whole
  list is behind.

A proof corrected the models three times: `Collect` could take a DataVolume away before its
PVC was there, which `RefinesLauncher` does not survive and CDI does not do; `System` did
not say that its worlds are worlds of `Checkup` (`WorldsAssumption`); and the polls of `Checkup`
for a hotplug and a migration asked for the hotplugged volume's PVC and the migration object,
while the code looks at the instance alone (checkup.go:961, 1058), whose volume or migration
may be another's: `FollowsCheckup` does not survive that.

Only model-checked: `CheckEnds`, `StartedIsCompleted` and the part of `KeepsContract` that says
that a poll ends, because the prover handles neither fairness nor ENABLED (`StepsKeepContract`
proves the rest of it: the initial states and steps are those of `PollContract`); and the run
`succeeded`, which ends in a counterexample.

## 5. What is not modelled, and the plan

Not modelled: the texts of results and log lines; the parsing of numbers and durations beyond
which of them are legal; `checkVersions`, which reads two strings, beyond its failure;
permissions (any request may be refused, which is what a missing permission does: the Role,
for one, lacks `get` on migrations, so that the reason of a failed migration is not read);
the client's wrappers that forward one call; the memory, TPM and grace period of the VM,
which nothing reads back; a snapshot whose status lacks a creation time although it is ready
(checkup.go:1383), which KubeVirt does not produce; the rest of the vendored wait package.
`Checkup` keeps one VM for the many of the concurrent boot check, and the verdict it records is
that of this VM.

What is left:

1. One mapping of the whole concurrent boot check, in which its verdict, and not that of one
   goroutine, is the one that `Checkup` records; `Checkup` gives it before the delete, the code
   after it, so this needs a prophecy variable or a change of `Checkup`.
2. The checks that only read in the place of the step `Survey` and of the choice of the golden
   image in `Checkup`, the way `FollowsCheckup` does it for the VM under test.
3. Theorems about the volumes after the first that is no claim in `VMIAudit`, if the code is to
   promise anything for them.
