# Specifications of the cleanup-receipt pipeline

TLA+ models of the programs in this repository that must survive crashes, lost
answers and other people's interference: the coordinator of a local CI run, the
network gate and the log collector on its node, the guard and proofctl inside
the job, the finalizer, the receipt delivery with the evidence API behind it,
and the watchdog that drives the last three after a failure; and of the rules
by which a receipt comes to its verdict. TLC checks the models on small
instances; TLAPS proves their safety properties and refinements for every size,
and the rules of the receipt for every input. Liveness rests on TLC alone
(section 5).

    tlc -workers 2 -config CoordinatorOwnership.cfg MCCoordinator
    tlc -workers 2 -config Guard.cfg Guard
    tlapm CoordinatorSafety.tla
    tlapm GuardProofs.tla

`PROJECT.json` lists the components, the runs, the source lines behind every
definition, a mutant of the code for every checked property, the hazards, and
the places where code and documentation disagree.

## 1. The system

| component | state it keeps | operations | talks to |
|---|---|---|---|
| coordinator (`internal/coordinator`) | `run.json` (the ledger), `cancel.requested`, collected artifacts, `observations.json`, `finalization-ready.json` | Start, Collect, RequestCancel; inside: provision, monitor, finishCollection, finishDisposal, publishObservations | Kubernetes API, node collector, network gate |
| network gate (`network_gate.go`, `cmd/netgate`, `network-gate.mjs`) | two ConfigMaps with a nonce, firewall rules in the sandbox's network namespace | publish a nonce, install and verify, release | coordinator, init container, node |
| node collector (`observer`, `cmd/observe`) | private directory on the node: lock, spool, `armed.json`, `result.json` | Collect, Read (`ready`, `result`, `logs`) | coordinator, CRI log files |
| guard action (`action/src`) | guard status, staging ConfigMap | main, run the command, post, stage | proofctl, Kubernetes API |
| proofctl (`cmd/proofctl`, `internal/proof`) | the context file and its lock | begin, inventory, cleanup, receipt, verify | Kubernetes API, the job's directories |
| receipt rules (`internal/finalizer/schema.go`, `archived.go`, `observations.go`) | none, pure functions | observations, buildReceipt, Validate, ValidateArchived | coordinator, finalizer, API |
| finalizer (`internal/finalizer`) | `state.json`, frozen inputs, `receipt.bundle.json`, output directory | Run | archive, signer |
| archive (`internal/archive`) | objects by digest, with retention | Put, Read, Protect | finalizer, API |
| delivery (`internal/delivery`) | queue state file | Deliver | evidence API |
| evidence API (`internal/api`, `db`) | receipts, incidents, finalization attempts | POST receipts, delivery attempts, recovery; reads | archive, PostgreSQL |
| watchdog (`internal/watchdog`, `cmd/watchdog`, `cmd/recoverybridge`) | recovery state per run | one Step per run and cycle | coordinator (in process), finalizer, deliver and API (child processes) |
| gateway, dashboard, local issuer, scripts, infra | none of the run's state | read, demo, deploy | API |

A run flows through four hand-overs, each through a file or row written last:
the coordinator writes the readiness marker, the finalizer `result.json`, the
API the receipt row, the watchdog the terminal report. Every producer may be
killed at any point and is started again from what it last saved; a `flock`
per run keeps one process of a kind at a time.

What is hard here, and hard to test:

* **Saves around calls.** Every component saves, calls out, and saves again. A
  crash between any two must neither repeat what cannot be repeated (a launch,
  a signature, a report) nor forget what was done (an object, an upload).
* **Names that change owner.** Objects are found by name and identified by UID;
  someone may delete or replace one, or the whole cluster, between two calls.
* **Requests that outlive their sender.** A Job create, a POST or a report whose
  answer was lost may be applied later.
* **Budgets.** Finalizer, delivery and watchdog each charge six attempts; work
  that succeeded on the last one must still be recognised.
* **Inputs that move.** The guard's staging data and the coordinator's files may
  change between a read and its use; the log is copied while it is written; the
  job creates claims, and volumes appear, while they are being inventoried.
* **Processes that outlive their caller.** Node helpers, readers and proofctl are
  child processes; a killed or restarted parent leaves them running, or dying
  with a lock in their hands.

The properties that make each component correct:

* coordinator: the command is launched at most once and never after an early
  cancellation; only objects of the run are deleted; a complete run has left
  nothing behind; the published claims are true; the marker binds the final
  ledger; every run finishes once failures stop, with one exception (section 4);
* finalizer: signatures stay within the budget; one bundle is archived; the
  published result never changes, rests on the frozen inputs and is retained;
  archived work is published even after exhaustion;
* delivery and API: POSTs stay within the budget; one receipt per job, with its
  incident; a committed receipt is recognised however the answer was lost;
  every failed attempt is reported once and consistently;
* gate and collector: no workload starts before its sandbox is completely
  firewalled and its log watched; logs called complete are complete; a result,
  once published, stands; neither the gate nor the result hangs on a lost process;
* guard and proofctl: verified resources are gone, a clean status stands beside
  the evidence of one verified cleanup, a recorded failure is never lost, the
  guard always ends;
* receipt: a pass is earned, a failure shows, every receipt that can be built is
  valid and agrees with what the archive holds;
* watchdog: its own state is always usable again; dispatches stay within the
  budget; success means a receipt; late reports never undo an outcome.

## 2. Modules

| module | role |
|---|---|
| `Coordinator` | one run of the coordinator, with the cluster, the guard, the collector and hostile others around it |
| `MCCoordinator` | sets of hostile steps and of staging data for the coordinator's instances |
| `CoordinatorRecovery` | the coordinator with an end to its faults, for liveness |
| `CoordinatorProofs` | types and the single launch of `Coordinator`, proved |
| `CoordinatorSafety` | the other safety properties of `Coordinator`, proved on top of it |
| `Isolation` | abstract: a workload starts only in an isolated, attested sandbox |
| `Gate` | init container, coordinator's pass and node helper over the two ConfigMaps |
| `Observer` | the collector, its readers, the log writer and the file system |
| `Node` | composes `Gate` and `Observer`; refines `Isolation` |
| `NodeProofs` | the refinement, the standing result and the true verdict, proved |
| `Cleanup` | proofctl's commands against a namespace, its claims and volumes |
| `Guard` | the guard over `Cleanup`: helpers, command, staging; also proofctl used by hand |
| `GuardProofs` | theorems about `Guard` |
| `Publication` | abstract: what the finalizer promises about archived and published work |
| `Finalizer` | one run of the finalizer against the archive and the signer; refines `Publication` |
| `FinalizerProofs` | the refinement and the other safety properties of `Finalizer`, proved |
| `Coverage` | evidence, observations, receipt and verdict as operators |
| `CoverageProofs` | theorems about `Coverage` |
| `ReceiptStore` | abstract: at most one receipt per job, together with its incident |
| `Delivery` | the delivery queue, the network, the API handler and the database; refines `ReceiptStore` and `Ingestion` |
| `Ingestion` | abstract: what the delivery promises about completion, exhaustion and its receipt |
| `DeliveryProofs` | both refinements and the other safety properties of `Delivery`, proved |
| `Pipeline` | abstract: a run only moves forward, with one dispatch per charged attempt |
| `Watchdog` | recovery of one run over the stages' promises; refines `Pipeline` |
| `WatchdogProofs` | the refinement and the other safety properties of `Watchdog`, proved |

### Coordinator

`disk` is `run.json` and `mem` the copy in the process; `Save` writes both,
`Keep` only memory, so every place where the code changes the ledger before it
saves is visible to a crash. `proc` is the point the process has reached: the
code between two API calls, or between a call and a save, is one action.

| code | actions |
|---|---|
| `Start`, `Collect`, `RequestCancel` | `Start`, `Collect` (with `Resume`), `RequestCancel` |
| `provision` | `PinCluster`, `Ensure`/`EnsureUnrecorded` per object, `Launch`, `RecordLaunch`, `CreateJob`/`CreateJobUnrecorded`, `ProvisionFails` |
| job lookup after a crash | `FindJob` |
| `monitor`, `observePod` | `MonitorTop`, `ObservePod`, `MonitorFails` |
| `ensureGate`, `armCollector` | `ArmCollector`, `StartCollector`, `ReleaseGate`, `GateRefused`, `GateRetry` |
| `finishCollection` | `CollectStage`, `StageFails`, `TransferLogs`, `CollectLogs`, `LogsPending`, `LogsFail` |
| `finishDisposal` | `CheckCluster`, then per object `DisposeGone`, `Adopt`, `Delete`, `DisposeFails` |
| `publishObservations` | `PublishObservations`, `PublishReady` |

The `...Unrecorded` actions are a create that the API applied although the
process never saved its UID. An object is a UID, whether it carries the run's
labels (for a pod: the owner reference), and whether it is terminating. An
artifact is the number of the guard's patch that brought it. `StageFails` may stop
`collectStage` before `guard.json` is written, after it, or after the evidence file
too, with the ledger in memory changed as far as the code had come. `Staged` says
what a patch of the guard, or of the job with its token, may hold: `evidence.json`
absent, accepted or refused, or a `guard.json` that does not parse.

The rest of the module is external: namespaces finalise after a delay and take
their contents with them, a lost Job create lands late (`LateJob`), the Job
controller creates one pod, the guard patches and cleans up, a patch that timed out
arrives after the pod has ended (`GuardStages`), the collector ends, and somebody else may delete, replace or pre-create an object
(`Vanish`, `ForeignCreate`), recreate the cluster or lose the collector's spool.

Gate, collector and guard appear here only through what the ledger sees of them;
`Node` and `Guard` have their inner life.

### Gate, Observer and Node

The kubelet gives the pod sandboxes one after the other. In each, the init
container draws a nonce (the number of the sandbox stands for it), publishes it
in `request` and waits for it in `marker`; both carry a resourceVersion. `pass`
is one run of `ensureGateWith` with everything it read and uses later; `helpers`
are the `cmd/netgate` processes, which may outlive the pass that started them;
`firewall` is the sequence of commands applied in each network namespace, and a
helper may only append the rest of an exact prefix. Patches whose sender gave up
arrive late (`late`, `lateMarks`). SIGKILL takes a helper and its lock between two
commands or in the middle of one; in the second case the iptables process may live
on (`Child`) and apply its command at any later moment, in its turn, under the next
helper, or after it (`ChildApplies`). `strayed` remembers the sandboxes where that
happened out of turn.

| code | actions |
|---|---|
| `network-gate.mjs` | `InitSends`, `InitPublishes`, `InitRetries`, `InitPasses`, `InitDeadline` |
| `cmd/netgate` `install` | `HelperPlans` (lock, inspect, pin, plan), `HelperApplies` per command, `HelperVerifies`, `HelperKilled`, `ChildApplies` |
| `ensureGateWith` | `PassBegins`, `ReadRequest`, `ListSandbox`, `BindCollector`, probe and start of the collector, `ProbeAbandoned`, `StopPolling`, `Reread`, `Release`; `HelperAbandoned`, `Crash` |
| `Collect`, `collect` | `CollectorStarts`, `MakeLock`, `TakeLock`, `MakeSpool`, `InstallWatch`, `Arm`, the loop `ReadEvent`, `Drain`, `Copy`, `List`, then `InspectWorkspace`, `Digest`, `Judge`; `FinishWithGap`, `CollectorTimeout` |
| `Read` | `ReadLock`, `ReadEnds`, `Unreadable`, `IsReady` |

The log has two generations, so that it can be rotated, and its content is the
sequence of chunk numbers; `queue` holds the inotify events the collector has not
read, with the kernel's merging and overflow, and a drain reads them one by one
until there are none (`ReadEvent`, `Drain`). A reader of either mode is left behind
when its coordinator dies (`Crash`), a probe also when its command exceeds 30 seconds
(`ProbeAbandoned`); one such orphan at a time runs beside the reader of the next
coordinator. `Node` joins the two: the probes are `Read` in mode `ready`, the
collector asks whether the init container holds the workload, and the start of the
guard container is one step of both. The collector's lifetime (`Timeout`), at least
300 seconds (`collector.go:80`), cannot end while the init container it was started
under still waits, whose limit is 150 seconds (`network-gate.mjs:13`).

The refinement mapping to `Isolation`: a sandbox is isolated when its commands are
the policy, in order (`Firewalled`; where a command of a killed helper strayed, it may
follow the policy), and attested when `armed.json` exists for the sandbox bound in
the ledger. So `StartsIsolated` says that the handshake over two objects without a
common transaction, the append-only plan and the collector's marker together keep
a promise that none of them can make alone.

### Cleanup and Guard

`context` is the file at `--state`, `lock` the flock beside it, and every proofctl
command a process with its own copy of the state, which reaches the file only in
`Save`: a killed process loses what it recorded. `scoped` tells the two ways of
use apart: under the guard, with a namespace assigned by the coordinator, one
command at a time; and by hand, with a namespace of its own and several commands
at once. Claims stand for all namespaced kinds, since `Inventory` lists them
alike; a volume is named after its claim. A `begin` by hand whose namespace create was
applied although the answer was lost leaves that namespace behind (`"left"`) under a
name that no file records; the next `begin` draws a new name, and what is left is not
followed further.

| code | actions |
|---|---|
| `begin` | `Reserves`, `Begin`, `BeginFails`, `Save` |
| `inventory`, `Inventory` | `Loads`, `ListClaims`, `ListVolumes`, `Save` |
| `cleanup`, `RemoveResources` | `Loads`, `Wipe`, `ListClaims`, `ListVolumes`, `DeleteNamespace`, then the loop `DeleteVolumes`, `CheckNamespace` (with a second inventory once it is gone), `Verify`; `Deadline`; `Save` |
| `receipt` | `Receipt` |
| `runProof` | `RunProof`, `HelperTimeout`, `HelperEnds`, `HelperAbandoned` |
| `stage` | `Stage` at its six places, `StageFails`, `LatePatch` |
| `main`, `local`, `post` | `MainStarts`, `MainGoesOn`, `CommandStarts`, `CommandEnds`, `Cancel`, `JobTimeout`, `KillTimeout`, `PostStarts`, `CleanupGoesOn`, `ReceiptEnds`, `Exits` |

### Coverage

No state: `Ledgers`, `Collectors` and `Inputs` are all combinations of what the
rules look at (which UIDs are known, which objects were seen absent, whether a
digest agrees, what each observer reports), and `BuildReceipt`, `Validate` and
`ValidateArchived` are the functions of the code. Because the sets are explicit,
the theorems quantify over every input the code can be given, up to the texts.

### Finalizer

`state` is `state.json`; `snap` the private input copies; `stored` and `held`
the archive's objects and those whose retention is long enough. `ReadInputs`,
`Freeze` and `SaveFrozen` are the prologue of `Run`; `Dispatch` is its decision
(replay of a complete run, recovery of an archived one, exhaustion, not due, or
a charged attempt); the attempt puts the inputs, builds and signs the receipt,
records the bundle before any upload of it, and puts receipt and bundle; then
`ProtectAll`, `PublishFiles`, `PublishResult` and `Finish`. `Reconcile` is
`completed`. `Fail` is any error return; `UploadLost` an upload whose answer
was lost with the process. Seen from outside, receipt and bundle archived,
`result.json` published and the status "exhausted", it implements `Publication`.

### Delivery

Both sides and the network between them: `proc` and `queue` are the client and
its state file, `net` the requests on their way, `handler` the one admitted
request (the API has one verification slot), `rows` and `reports` the
committed rows. `TimesOut` leaves the request in the network, so a handler may
commit for a client that has gone on to its next attempt or has exhausted its
budget. `OthersPost` is another client with a result for the same job, and a
transaction becomes visible only in `CommitTx`. `CommitFails` reports an error
with the commit applied or not. The committed rows implement `ReceiptStore`: one
step adds the one receipt of the job with its incident, and nothing else ever
changes them. Queue status and receipt implement `Ingestion`.

### Watchdog

`state` is the durable recovery state with its history of reports, `table` the
recovery rows of the API, `late` the reports that are still under way. A
`Step` flushes, reconciles, decides, announces, and runs the three stages, which
others may also advance between the watchdog's inspection and its use of the
snapshot. The watchdog starts the finalizer and the delivery as child processes
and sees what they leave, so they are here what they promise, no more and no less:
while calls may fail, `FinalizerFails` is any step of `Publication` on `fin`, and
`DeliverFails` any step of `Ingestion` on `delivery` and `receipt`. `Finalizer` and
`Delivery` are shown to keep these promises with every kill and lost answer of
their own. One step here stands for a whole run, or several, which is sound because
keeping the promise of `Publication` is transitive (lemma `RunsCompose` of
`FinalizerProofs`), and that of `Ingestion` plainly is. The two modules say nothing of a run that succeeds;
`FinalizerOK` and `DeliverOK` do, and both are possible only where the detailed
modules can publish or commit. The collection's promise is smaller: once there is a
marker, it stays and binds the final ledger (`ReadyBindsFinalLedger` of
`Coordinator`); whether the inputs behind it are valid is chosen when `run` leaves
"open".

## 3. Runs

| run | instance | what it shows |
|---|---|---|
| `coordinator_ownership` | two UIDs per name, one hostile step of any kind, any crashes and failing calls; about 2.0 million states | single launch, ownership of every deletion, no residue, true claims, stable bindings and marker |
| `coordinator_collection` | the staging data is patched twice with absent, valid, invalid or garbled content, before or after the pod's end; crashes and failing calls anywhere; 1.1 million states | evidence is frozen once accepted and the ledger names exactly the bytes kept; `guard.json` is never older than the record (more is not claimed, section 4); an early cancellation is never overtaken by a launch |
| `coordinator_liveness` | two patches, one of which may not parse, no tampering, faults that end; 436 thousand states | every started run completes and reaches its marker, unless its `guard.json` is newer than its ledger |
| `finalizer` | two inputs, the code's six attempts | budget, one bundle, final and protected result, frozen inputs, recovery of archived work, settlement, refinement of `Publication` |
| `delivery` | two valid results and a forged one, two attempts; 117 thousand states | budget, refinement of `ReceiptStore` and `Ingestion`, recognition of lost commits, reports durable and delivered |
| `watchdog` | two attempts, one late report at a time, stages that do anything their promises allow; 423 thousand states | usable state, refinement of `Pipeline` (budget, order of the milestones, success only with a receipt), outcomes stand, the table catches up |
| `node` | two sandboxes, a policy of two commands, two helpers, three chunks of output for a limit of two, one fault around the gate and one around the log; 2.0 million states | refinement of `Isolation`, verified logs and workspace are true, a result stands |
| `node_liveness` | one sandbox, no output, two faults around the gate and one around the collector; 297 thousand states | the gate opens unless something it cannot repair happens (below), every started workload leaves a result |
| `guard` | two claims of one name, two processes, two cleanup attempts, three commands by hand, one failing call, kill or intervention; 1.4 million states | claims are true, failures stay, the guard ends |
| `provision_replaces`, `publication_repair`, `watchdog_archived` | smallest instance that shows it | the three divergences below |

`GateOpens` leaves the gate shut for five reasons only, each of which the code meets
by giving up: the init container's deadline passes, the sandbox is lost, the collector
is killed, the collector ends after a failing call or after a probe took its lock, or
a strayed command has left a firewall that `plan` refuses. That a step is needed was
tested by leaving it out: without `Reread`, `Release`, `InitPasses`, `BindCollector`,
`HelperApplies` or `MakeSpool` TLC finds the property violated.

Bounds, and why they are enough:

* `MaxUid = 2`: an original and one replacement of every name, which is what a
  UID comparison can tell apart. `MaxUid = 1` where nothing is replaced.
* `MaxTampers = 1`: one hostile step at every possible moment. The theorems of
  `CoordinatorSafety` hold for any number of them, with one exception:
  `CompleteMeansGone` needs a hypothesis there, see section 5.
* `MaxWrites = 2`: one patch to be collected and one that differs from it.
  `publication_repair` needs a third, which does not parse. `RunsFinish` also holds
  with three patches, the exception then really occurring (754 thousand states); that
  takes TLC over five minutes, so the run has two.
* The finalizer runs with the code's own budget of six. Delivery and watchdog
  use two: one attempt that leaves a retry and one that exhausts.
* `MaxLate = 1`: one delayed report at a time; reports of all attempts are in
  turn the late one.
* `MaxSandboxes = 2` and `Commands = 2`: an old and a new nonce, and a firewall
  that can be absent, partial or complete. Two helpers: one left behind and its
  successor. `node_liveness` has one sandbox because a lost one already counts as
  an excuse there, and two faults so that a crash can meet a killed helper.
* `MaxChunks = 3`, `MaxLogs = 2`: below, at and above the limit. `QueueLimit = 2`:
  events can overflow.
* `MaxClaims = 2`, `Names = 1`: a claim and its replacement of the same name. A
  guarded job creates one (`JobClaims`), at any time, also after its inventory;
  both are there when proofctl is used by hand. `MaxTroubles = 1`: one failure at
  every possible step; the kills by the guard's own time limits are not counted.
  `CleanupAttempts = 2`: a failing attempt and the one after it.
* Cluster UIDs and input versions are two each: the original and another.

Deadlock is checked for delivery, watchdog and the coordinator's liveness run.
It is off for the other coordinator runs, where the bounds can stop a run whose
object was replaced, and for the finalizer, which rightly refuses to go on once
its inputs conflict. The node and guard runs end when the pod or the guard does.
Only the coordinator's type invariant is checked in a run of its own; those of
finalizer, delivery, watchdog, guard and gate are parts of the proved invariants.

**Fairness.** The faults of a model (`Crash`, failing calls, lost messages) may
happen at any moment but not for ever: the coordinator's end by assumption
(`<>[][Steady]_vars`), in finalizer, delivery and watchdog the environment sets `calm`
at a moment of its choosing. The code's retries promise nothing while calls keep
failing. Fairness is
weak fairness of a live process's steps, of the watchdog's or operator's next
invocation (the service cycles every five minutes and a run that is not
terminal is picked up by each cycle), of time passing a stored deadline, and of
the outside world finishing what it accepted: namespaces are finalised, the
Job's `activeDeadlineSeconds` ends its pod, the collector's lifetime is bounded
by its request, the API server handles an admitted request under its timeouts.
Around the gate, every live process takes its steps, the guard's Job deadline ends
it, and the two limits that are looked at again and again, the collector's
lifetime and the 15 seconds of polling, are strongly fair, since a step of their
loop disables them for a moment (the first is only enabled once the init container no
longer holds the workload, so it forces nothing before the start); losses, kills and
the init container's deadline are never forced. In the guard, only its own steps and timers are fair, and that a
killed process is reaped: the command, the helpers and the cluster may hang
forever. Hostile steps, cancellations and further clients have no fairness. Liveness of
the finalizer and of delivery assumes that they are run again; after exhaustion
the watchdog does not do that, an operator does.

## 4. Divergences between code and documentation

* **Provisioning does replace.** The comment on `provision` says it never
  replaces objects; a recorded namespace that is missing is created again, then
  refused because its UID differs, and later preserved as somebody else's, so
  that the run cannot complete (`provision_replaces`).
* **An interrupted publication may be beyond repair.** `guard.json` is written
  (`staging.go:111`) before the ledger that names its digest is saved
  (`coordinator.go:271-278`). When a crash separates the two and the next pass finds a
  status that does not parse, which is terminal (`staging.go:107-110`), the run
  completes with the older digest beside the newer file. `checkArtifacts`
  (`observations.go:191-213`) refuses to publish, now and in every later `collect`,
  although `docs/local-ci.md` promises exact hashes (line 117) and that `collect`
  repairs an interrupted publication (line 128) (`publication_repair`).
  `LedgerMatchesArtifacts` therefore claims equality for the evidence only, and
  `RunsFinish` excepts this case.
* **The watchdog does not use the finalizer's recovery.** The finalizer
  publishes an archived receipt and bundle even after its last attempt, as
  `docs/finalizer.md` says of the finalizer; the watchdog never runs it once its
  status is exhausted (`watchdog_archived`), as `docs/watchdog.md:94` says of the
  watchdog. What the first document promises is then left to an operator.

## 5. Proofs

`CoordinatorProofs` proves, from `CoordinatorAssumption` alone (positive
`MaxUid`, natural bounds, `Tampered` within the known names), that is for every
number of UIDs, hostile steps and patches:

* `TypeCorrect`: `Spec => []TypeOK`. One lemma per part of the coordinator, over
  lemmas saying that an update of one ledger field yields a ledger.
* `LaunchOnce`: `Spec => []LaunchedAtMostOnce`. `launches <= 1` is not inductive
  by itself: a state with a request sent and a process about to send another
  must be excluded. `LaunchInv` adds that memory and disk agree on
  `LaunchAttempted`, that every point from which a launch may still lie ahead
  has it unset on disk, that the point which sends the request has it set with
  no request sent, and that any sent request left it set. Every other action is
  shown to be `Quiet`: it leaves `launches` and the flag alone and enters a
  launching point only with the flag unset, which is where `Resume`'s condition
  on the durable ledger is used.

`CoverageProofs` proves four facts about `Coverage`, for every ledger in `Ledgers`
and every set of files in `Inputs`, without further assumptions:

* `PassIsEarned`: a receipt that says pass rests on accepted evidence without
  failures, archived logs, recorded UIDs seen absent, and a collector bound to the
  run that saw the guard start and end and verified all it inspects. The verdict
  only looks at the merged coverage; the argument (`MergedOrigin`, `TrustedOrigin`)
  is that trusted coverage can come from nowhere but validated observations,
  because accepted evidence never carries the observer "trusted".
* `FailureShows`: a failure in accepted evidence or in valid observations survives
  the merge and the two later downgrades, so the verdict is fail.
* `BuiltReceiptIsValid`: `Receipt.Validate`, which the finalizer calls on its own
  product, accepts everything `buildReceipt` can produce; its extra demands on a
  pass follow from `PassIsEarned`, and verified logs are archived
  (`VerifiedLogsArchived`).
* `ArchiveAgrees`: the API's `ValidateArchived`, which has only the archived files,
  rebuilds the same receipt. The one thing it must guess is whether missing
  evidence had been unreadable, and the status in the receipt determines it.

What they leave to the abstraction: canonical form, digests and identities are
comparisons with a Boolean outcome; reasons, references, sizes and times are not
there, so neither are the refusals of `Validate` for malformed ones. That evidence
accepted by the coordinator stays acceptable later needs a clock that does not go
back, since `validateEvidence` compares with the present time.

Each of the other proof modules has one inductive invariant, a conjunction of
named parts, with one lemma per action or group of actions that says the action
keeps it. TLC checked each of these invariants on the instance of the component's
run before it was proved. They use the named assumptions of their modules about
the constants (natural, positive bounds, sets that are not empty), which every run
evaluates, and nothing else unless stated.

`CoordinatorSafety` (`SInv`, over the types and `LaunchInv` of `CoordinatorProofs`)
proves `OnlyOwnObjectsRemoved`, `GateOpensToRecordedPod`, `ReadyBindsFinalLedger`,
`ClaimsAreTrue`, `LedgerMatchesArtifacts`, `CompleteMeansGone`, `BindingStable`,
`EvidenceFrozen` and `CancelBeforeLaunch`. None of them is inductive, because each
speaks of the durable ledger while the process acts on its own copy:

* `Synced` says what the copy may be ahead in: only the ClusterRole's UID, until
  that of its binding is saved. `Phased` and `Published` tie the phase on disk to
  the point of the process and to the files already published.
* `Bound` says which UIDs are on disk at each point of `provision` and that an owned
  Job, or one on its way, means a recorded launch attempt; with `Owned` this gives
  that a delete request carries a recorded UID of an object of the run.
* `Kept` says that patches, files and digests are in order.
* `Fresh` and `Gone` say what a recorded absence means: UIDs are not reused and
  nothing outlives its namespace, so an object seen absent stays so.

`CompleteIsGone` assumes that nobody else deletes or creates the runner namespace
(`"runner" \notin Tampered`). Without it the property is false once there are two
hostile steps: the namespace is deleted after the Job create was sent and created
again after the run found it absent, and the late Job lands in it. The run
`coordinator_ownership` allows such steps, but only one.

`FinalizerProofs`: `SigningIsCharged`, `OneBundleArchived`, `ResultIsFinal`,
`FrozenInputsOnly`, `ProtectedAtPublication`, and the types. The invariant says what
a crash leaves behind: a bundle named in the state file is the durable one
(`Bundled`), whatever is recorded is stored with the one content it may have
(`Kept`), inputs are archived before the receipt and the receipt before the bundle
(`Ordered`), and what is published agrees with the state and is retained
(`Published`). `PromiseIsKept` is the refinement of `Publication`: objects, bundle
and result, once recorded, stay recorded (`StepKeeps`), and an exhausted state is left only to publish archived work
(`ExhaustedStays`).

`DeliveryProofs`: `PostsAreCharged`, `ReportsAreDurable`, the types, and the refinements `StoreCommitsOnce` of `ReceiptStore` and
`DeliversAsPromised` of `Ingestion`. For the first,
`Served` follows the one admitted request: when it reaches its commit, either the
table is empty and the transaction holds exactly the row of a valid result, or the
transaction is empty and that result is stored already; every other step leaves
the rows alone. For the second, a queue that says "complete" has its own result
among the rows (`Served`), its result is chosen once, a complete queue is not written
again, and an exhausted one has nothing waiting for an answer, so that only reconcile
writes it (`QueueKept`).

`WatchdogProofs`: `StateIsUsable`, `OutcomeStands`, the types, and
`RunAdvances`, the refinement of `Pipeline`. `Shaped` is what `validState`
demands plus what the history must look like for the next report to be valid
again; `Proven` says that a success in the state, in the table or in a late
report has its receipt. The refinement adds `Forward`, a receipt rests on a
published result and this on archived work, which follows from the promises of
`Publication` and `Ingestion` alone (`StagesForward`), and `Sincere`, a success
in the table or under way to it is that of the state file (`ReportsForward`);
only `Decide` charges, only `Announce` dispatches, and neither after success
(`AttemptsForward`, `DispatchesForward`). With `PromiseIsKept` and
`QueueKeepsItsPromise` it is a proof about the composition of the three
programs: nothing that a failing finalizer or delivery leaves is outside what it
assumes.

`GuardProofs`: `GuardTellsTruth` and `FailuresStay`, for the guard and for proofctl
by hand. A failure is never lost because a process at work holds the lock and its
copy of the context has every failure the file has (`Locked`). Verified resources
are gone because the second inventory, taken with the namespace already gone, has
seen every volume there will ever be (`Removed`). A clean status stands beside the
evidence of one verified cleanup because, as long as the guard has recorded no
error, only the helper it waits for is alive (`Alone`), so nobody else can have
written the context between cleanup and receipt (`Earned`); the same holds of every
patch still on its way (`Staged`).

`NodeProofs`: `StartsIsolated`, the refinement of `Isolation`, `ResultStands` and
`VerifiedIsTrue`. The invariant has a part for each mechanism:

* `Walled`: only the helper with the lock plans and applies, and unless a command
  strayed in the sandbox, what is applied and what is planned have together the length
  of the policy. With `GrowsOnce`, a complete firewall is only ever followed by a
  command of a killed helper: no later helper touches it, and `plan` refuses a
  firewall that a strayed command made longer (`LongIsInexact`).
* `Followed`: the pass waits for a helper of the sandbox it listed, so the ledger
  binds the collector only to a sandbox whose firewall is complete (`Firewalled`).
* `Numbered` and `Opened`: a nonce is never ahead of the sandboxes and the pass lists
  its sandbox after it read the nonce. A released nonce, also a late one, is
  therefore an old one, which opens nothing, or that of the bound and watched sandbox.
* `Excluded`: the flock separates the collector, which takes it before there is a
  spool, from a reader that publishes a gap. `Inspected`: the workspace is looked at
  only after the guard's exit.

For the logs in `VerifiedIsTrue` a second invariant `LInv`, inductive given the first,
relates what happened to the log to what the collector was told and has copied:

* `Begun`: the watch is there before the log is, so nothing that happens to it is missed.
* `Told`: in the loop, a close that was seen or is queued means that the writer is gone;
  a rotation is a problem already, or an event that will be one is queued, the
  overflow included; and once the digests agreed, with the writer gone, log and
  spool cannot part again.
* `Copied`: unless output was cut before it was copied, log and spool hold what was
  written so far, or the spool has a chunk that the log has lost. The second case is
  never left, because chunks are written once, and the digests tell it from the first.
  The theorem makes the same exception: after a truncation of bytes not yet copied
  (`cut`) it says nothing of the spool's content.
* `Judged`: the verdict stays true once it is there, since nothing writes to a closed log.

Only model-checked:

* all liveness: `RunsFinish`, `ArchivedIsPublished`, `RunsSettle`,
  `CommitIsRecognised`, `ReportsArrive`, `DeliverySettles`, `ReceiptEndsRun`,
  `TableCatchesUp`, `GateOpens`, `ResultArrives`, `GuardEnds`. Reasoning under fairness
  is beyond this prover.

The three divergences of section 4 are counterexamples and need no proof.

## 6. Left out, and known limits

* Failing disk writes are crashes: the code returns and the process ends.
* Delays are a Boolean "deadline has passed"; back-off lengths do not matter to
  any property.
* Label and annotation checks are one Boolean; both labels are set and tested
  together. Cluster-scoped creates are assumed not to land after the process
  gave up; only the Job's may.
* In `Coordinator` the guard's pod may end and patch at any time; its signals and
  time limits are in `Guard`.
* `Start` refuses while another run is incomplete; the model has one run.
* HTTP refusals with a 4xx status other than conflict and overload are one
  answer, since the queue treats them alike.
* The archive is honest: stored objects are neither altered nor purged.
* `ErrBusy` in the watchdog is not modelled, no backend returns it.
* In `Watchdog` a receipt of the run reaches the store only after `result.json` is
  published: other clients, too, post what they read there.
* The coordinator's README calls a missing spool "a recoverable collection error"
  (`internal/coordinator/README.md:87-88`). The code, and `collector_test.go:17`, make
  it terminal (`collector.go:74`): the run goes on to disposal with the logs missing,
  which never count as complete. The spool can be lost in `coordinator_ownership`; no
  property says what should follow.
* Evidence accepted in one pass may be reported missing by a later one when the
  ConfigMap is gone (`coordinator.go:262`). The receipt then calls the kept file
  invalid and does not use it, so `FailureShows` is stated for evidence that the
  ledger still calls accepted.
* A ledger that cannot be read is a permanent error for the watchdog
  (`cmd/watchdog/main.go:101`); the model has that outcome.
* `docs/local-ci.md:67` lists truncation among what prevents complete coverage. The
  collector notices one through the size (`collect_linux.go:262`) or the final
  comparison of the digests, so only when copied bytes are lost; one that removes
  only bytes it had not copied yet goes unseen. The history variable `cut` marks
  such runs and `VerifiedIsTrue` exempts the spool's content there: what the document
  says of truncation holds for copied bytes only.
* A readiness probe can take the flock between the collector's creation of the
  lock file and its own `Flock`. The collector then gives up, and its exclusive
  directory forbids another one: the gate stays shut until the init container's
  deadline. `GateOpens` counts this as a lost collector.
* Two overlapping readers can make `ready` take a dead collector's lock for a live
  one; the gate then opens, and the result is a gap. One failing `crictl` call
  ends a collection with a gap too.
* A volume appears only while its claim exists: that is how the provisioner works,
  and the check for absence relies on it.
* In the guard's model, helpers other than proofctl do not exist, and the
  directories that `Wipe` empties are one outcome per component.
* Signatures appear only through their outcomes (`Valid`, `Failing`).
* Not modelled: the Cosign calls of `signing.go` and `proof/verify.go` and the
  local issuer (cryptography); dashboard and gateway (they write nothing);
  scripts and infrastructure; the API's read endpoints; database roles and
  migrations; the upload of GitHub artifacts by the action's GitHub wrappers,
  whose transport belongs to GitHub.

## 7. Plan

1. Done: `Coordinator`, `Finalizer`, `Delivery`, `Watchdog`, `Gate`, `Observer`,
   `Node`, `Cleanup`, `Guard`, `Coverage`.
2. Done: proofs of every safety property and action property of the passing runs,
   and of the refinements of `Isolation`, `ReceiptStore`, `Publication`, `Ingestion`
   and `Pipeline`.
3. Open: the signer and the local issuer beyond their outcomes, the scan of the
   watchdog over several runs, and a proof of the liveness properties, for which the
   prover would need rules for fairness.
