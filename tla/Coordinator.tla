----------------------------- MODULE Coordinator -----------------------------
(***************************************************************************)
(* One local CI run as internal/coordinator drives it: the ledger run.json, *)
(* saved atomically before and after the calls that matter, the Kubernetes  *)
(* objects it provisions and disposes of, and the files it publishes last.  *)
(* The process may die between any two calls; `localci collect' or the      *)
(* watchdog then resumes the run from the ledger.  A flock keeps one        *)
(* coordinator at a time; a cancel request ignores that lock.               *)
(***************************************************************************)
EXTENDS Naturals, FiniteSets

CONSTANTS
    MaxUid,      \* how many objects of one name may ever exist
    Tampered,    \* what somebody else may delete or create: objects, cluster, spool
    MaxTampers,  \* how often that happens
    MaxWrites,   \* how many times the guard patches its staging ConfigMap
    Staged       \* what becomes of evidence.json in a patch

\* the objects of a run, by name
InRunner    == {"stage", "job", "pod"}
Disposable  == {"runner", "resource", "role", "binding"}
Provisioned == Disposable \cup {"stage"}
Obj         == Provisioned \cup {"job", "pod"}

ASSUME CoordinatorAssumption ==
    /\ MaxUid \in Nat \ {0}
    /\ Tampered \subseteq Obj \cup {"cluster", "spool"}
    /\ MaxTampers \in Nat
    /\ MaxWrites \in Nat
    /\ Staged \subseteq {"none", "valid", "invalid", "garbled"}

VARIABLES
    proc,      \* "down", or the point the live coordinator process has reached
    mem,       \* the process's copy of the ledger
    disk,      \* run.json
    retry,     \* finishCollection met a retryable error in this pass
    failed,    \* dispose met an error in this pass
    cancelFile,\* cancel.requested exists
    files,     \* cleanup-evidence.json and guard.json as collected
    obs,       \* observations.json: the ledger it was derived from
    ready,     \* finalization-ready.json: the ledger it binds
    api,       \* the Kubernetes objects, by name
    born,      \* how many objects of each name have existed
    cluster,   \* UID of the cluster that answers
    pod,       \* what the runner pod is doing
    stage,     \* data of the guard-stage ConfigMap
    writes,    \* how often the guard has patched it
    gate,      \* UID of the pod the network gate was released to, 0 if none
    collector, \* the detached log collector on the node
    inflight,  \* a Job create whose answer was lost may still be applied
    launches,  \* Job create requests ever sent
    removed,   \* objects the coordinator's own delete requests took away
    tampers    \* steps taken by somebody else

procVars == <<proc, mem, disk, retry, failed>>
fileVars == <<files, obs, ready>>
kubeVars == <<api, born, cluster, pod, stage, writes, gate, collector, inflight>>
ghosts   == <<launches, removed, tampers>>
vars     == <<procVars, cancelFile, fileVars, kubeVars, ghosts>>

----------------------------------------------------------------------------
(* Objects and the ledger *)

Absent == [uid |-> 0, owned |-> FALSE, term |-> FALSE]
Exists(o) == api[o].uid # 0
\* carries both coordinator labels; without them the object is somebody else's
Ours(o) == Exists(o) /\ api[o].owned
\* the API server accepts new objects in the runner namespace
RunnerLive == Exists("runner") /\ ~api["runner"].term

Phases == <<"none", "provisioning", "launching", "running", "collecting",
            "disposing", "complete">>
PhaseNames == {"none", "provisioning", "launching", "running", "collecting",
               "disposing", "complete"}
\* an artifact is the number of the patch that brought it, 0 when there is none
Version == 0..MaxWrites
NoFiles == [guard |-> 0, evidence |-> 0]
\* a patch brings guard.json, and evidence.json that is absent, valid or invalid;
\* garbled: guard.json itself does not parse
NoData == [version |-> 0, evidence |-> "none"]

Ledger ==
    [phase : PhaseNames, cancel : BOOLEAN, launched : BOOLEAN,
     cluster : 0..2, uid : [Obj -> 0..MaxUid], exit : BOOLEAN,
     armed : BOOLEAN, collected : BOOLEAN,
     evidence : {"missing", "accepted", "rejected", "conflict"},
     digest : Version, guard : Version,
     logs : {"missing", "gap", "complete"}, absent : [Disposable -> BOOLEAN]]

NewLedger(phase) ==
    [phase |-> phase, cancel |-> FALSE, launched |-> FALSE, cluster |-> 0,
     uid |-> [o \in Obj |-> 0], exit |-> FALSE, armed |-> FALSE,
     collected |-> FALSE, evidence |-> "missing", digest |-> 0,
     guard |-> 0, logs |-> "missing", absent |-> [o \in Disposable |-> FALSE]]

NoLedger == NewLedger("none")

\* c.save: the ledger reaches the disk atomically and the process goes on with it
Save(l) == mem' = l /\ disk' = l
\* the ledger is changed in memory only
Keep(l) == mem' = l /\ disk' = disk

Points == {"down", "provision", "launch", "intent", "create", "findJob", "monitor",
           "observe", "gate", "stageCM", "logs", "dispose", "publish", "mark"}
          \cup Provisioned
          \cup {"delResource", "delRunner", "delBinding", "delRole"}

TypeOK ==
    /\ proc \in Points
    /\ mem \in Ledger /\ disk \in Ledger
    /\ obs \in Ledger /\ ready \in Ledger
    /\ retry \in BOOLEAN /\ failed \in BOOLEAN
    /\ cancelFile \in BOOLEAN /\ inflight \in BOOLEAN
    /\ files \in [guard : Version, evidence : Version]
    /\ api \in [Obj -> [uid : 0..MaxUid, owned : BOOLEAN, term : BOOLEAN]]
    /\ born \in [Obj -> 0..MaxUid]
    /\ cluster \in {1, 2}
    /\ pod \in {"none", "init", "running", "ended", "aborted"}
    /\ stage \in [version : Version, evidence : {"none", "valid", "invalid", "garbled"}]
    /\ writes \in Version
    /\ gate \in 0..MaxUid
    /\ collector \in {"idle", "watching", "complete", "gap", "lost"}
    /\ launches \in Nat
    /\ removed \subseteq [obj : Obj, uid : 0..MaxUid, owned : BOOLEAN]
    /\ tampers \in 0..MaxTampers

Init ==
    /\ proc = "down" /\ mem = NoLedger /\ disk = NoLedger
    /\ retry = FALSE /\ failed = FALSE /\ cancelFile = FALSE
    /\ files = NoFiles /\ obs = NoLedger /\ ready = NoLedger
    /\ api = [o \in Obj |-> Absent] /\ born = [o \in Obj |-> 0]
    /\ cluster = 1 /\ pod = "none" /\ stage = NoData /\ writes = 0
    /\ gate = 0 /\ collector = "idle" /\ inflight = FALSE
    /\ launches = 0 /\ removed = {} /\ tampers = 0

----------------------------------------------------------------------------
(* Starting, resuming, dying *)

\* the process ends having saved l
Return(l) ==
    /\ proc' = "down" /\ mem' = l /\ disk' = l /\ retry' = FALSE /\ failed' = FALSE

\* the process ends without saving: a crash, or an early return
Stop ==
    /\ proc' = "down" /\ mem' = disk /\ disk' = disk /\ retry' = FALSE /\ failed' = FALSE

GoTo(p) == proc' = p /\ UNCHANGED <<retry, failed>>

\* Start: publish the intent, then provision
Start ==
    /\ proc = "down" /\ disk.phase = "none"
    /\ Save(NewLedger("provisioning")) /\ GoTo("provision")
    /\ UNCHANGED <<cancelFile, fileVars, kubeVars, ghosts>>

\* where Collect resumes a ledger
Resume(l) ==
    CASE l.phase = "disposing"  -> "dispose"
      [] l.phase = "collecting" -> "stageCM"
      [] l.phase \notin {"disposing", "collecting"} /\ l.uid["job"] = 0 -> "findJob"
      [] OTHER -> "monitor"

\* mutant: a late cancel request reaches a completed ledger
CollectCancels ==
    /\ proc = "down" /\ disk.phase # "none"
    /\ disk.phase = "complete" \/ disk.cluster \in {0, cluster}
    /\ Save([disk EXCEPT !.cluster = cluster, !.cancel = @ \/ cancelFile])
    /\ GoTo(IF disk.phase = "complete" THEN "publish" ELSE Resume(disk))
    /\ UNCHANGED <<cancelFile, fileVars, kubeVars, ghosts>>

Collect ==
    /\ proc = "down" /\ disk.phase # "none"
    /\ \/ /\ disk.phase = "complete"
          /\ Keep(disk) /\ GoTo("publish")
       \/ /\ disk.phase # "complete" /\ disk.cluster \in {0, cluster}
          /\ LET pinned == [disk EXCEPT !.cluster = cluster]
             IN  /\ disk' = pinned
                 /\ mem' = [pinned EXCEPT !.cancel = @ \/ cancelFile]
                 /\ GoTo(Resume(pinned))
    /\ UNCHANGED <<cancelFile, fileVars, kubeVars, ghosts>>

Crash ==
    /\ proc # "down" /\ Stop
    /\ UNCHANGED <<cancelFile, fileVars, kubeVars, ghosts>>

\* RequestCancel needs a ledger to load and takes no lock
RequestCancel ==
    /\ disk.phase # "none" /\ ~cancelFile /\ cancelFile' = TRUE
    /\ UNCHANGED <<procVars, fileVars, kubeVars, ghosts>>

\* mutant: a launched Job that is not there is waited for
FindJobWaits ==
    /\ proc = "findJob"
    /\ \/ /\ Ours("job")
          /\ Save([mem EXCEPT !.uid["job"] = api["job"].uid, !.phase = "running"])
          /\ GoTo("monitor")
       \/ ~Exists("job") /\ ~mem.launched /\ Keep(mem) /\ GoTo("provision")
       \/ ~Ours("job") /\ (Exists("job") \/ mem.launched) /\ Stop
    /\ UNCHANGED <<cancelFile, fileVars, kubeVars, ghosts>>

\* Collect with no recorded Job: adopt an owned one, else never launch twice
FindJob ==
    /\ proc = "findJob"
    /\ \/ /\ Ours("job")
          /\ Save([mem EXCEPT !.uid["job"] = api["job"].uid, !.phase = "running"])
          /\ GoTo("monitor")
       \/ /\ ~Exists("job") /\ (mem.launched \/ mem.cancel)
          /\ Save([mem EXCEPT !.phase = "collecting"]) /\ GoTo("stageCM")
       \/ /\ ~Exists("job") /\ ~mem.launched /\ ~mem.cancel
          /\ Keep(mem) /\ GoTo("provision")
       \/ Exists("job") /\ ~api["job"].owned /\ Stop
    /\ UNCHANGED <<cancelFile, fileVars, kubeVars, ghosts>>

----------------------------------------------------------------------------
(* provision *)

PinCluster ==
    /\ proc = "provision" /\ mem.cluster \in {0, cluster}
    /\ Save([mem EXCEPT !.cluster = cluster]) /\ GoTo("runner")
    /\ UNCHANGED <<cancelFile, fileVars, kubeVars, ghosts>>

After(o) == CASE o = "runner"   -> "resource"
              [] o = "resource" -> "stage"
              [] o = "stage"    -> "role"
              [] o = "role"     -> "binding"
              [] o = "binding"  -> "launch"

\* a create request succeeds: o appears with a fresh UID and both labels
CanCreate(o) ==
    ~Exists(o) /\ born[o] < MaxUid /\ (o \in InRunner => RunnerLive)
Create(o) ==
    /\ api' = [api EXCEPT ![o] = [uid |-> born[o] + 1, owned |-> TRUE, term |-> FALSE]]
    /\ born' = [born EXCEPT ![o] = @ + 1]

\* get-or-create o, check labels, UID and deletion, record the UID; the ledger
\* is saved after every object but the ClusterRole
Ensure(o) ==
    /\ proc = o
    /\ \/ CanCreate(o) /\ Create(o)
       \/ Ours(o) /\ UNCHANGED <<api, born>>
    /\ mem.uid[o] \in {0, api'[o].uid}
    /\ o \in {"runner", "resource"} => ~api'[o].term
    /\ LET l == [mem EXCEPT !.uid[o] = api'[o].uid]
       IN  IF o = "role" THEN Keep(l) ELSE Save(l)
    /\ GoTo(After(o))
    /\ UNCHANGED <<cancelFile, fileVars, cluster, pod, stage, writes, gate,
                   collector, inflight, ghosts>>

\* the create is applied and the UID is not recorded: the answer is lost, the
\* process dies first, or the new object is not the one the ledger names
EnsureUnrecorded(o) ==
    /\ proc = o /\ CanCreate(o) /\ Create(o)
    /\ Return(mem) \/ Stop
    /\ UNCHANGED <<cancelFile, fileVars, cluster, pod, stage, writes, gate,
                   collector, inflight, ghosts>>

\* any call of provision fails, or a check refuses the object found; a caller
\* that gave up also leaves a cancel request
ProvisionFails ==
    /\ proc \in Provisioned \cup {"provision", "launch"}
    /\ \/ Return(mem) /\ UNCHANGED cancelFile
       \/ Return([mem EXCEPT !.cancel = TRUE]) /\ cancelFile' = TRUE
    /\ UNCHANGED <<fileVars, kubeVars, ghosts>>

\* mutant: only a cancel the ledger already knows is honoured
LaunchUnchecked ==
    /\ proc = "launch" /\ ~mem.launched /\ Keep(mem) /\ GoTo("intent")
    /\ UNCHANGED <<cancelFile, fileVars, kubeVars, ghosts>>

\* last check of provision: a cancel seen here prevents the launch
Launch ==
    /\ proc = "launch"
    /\ \/ /\ cancelFile
          /\ Save([mem EXCEPT !.cancel = TRUE, !.phase = "collecting"])
          /\ GoTo("stageCM")
       \/ ~cancelFile /\ ~mem.launched /\ Keep(mem) /\ GoTo("intent")
    /\ UNCHANGED <<cancelFile, fileVars, kubeVars, ghosts>>

\* mutant: the attempt is saved with the answer only
RecordLaunchLate ==
    /\ proc = "intent"
    /\ Keep([mem EXCEPT !.launched = TRUE, !.phase = "launching"]) /\ GoTo("create")
    /\ UNCHANGED <<cancelFile, fileVars, kubeVars, ghosts>>

\* the launch attempt is durable before the Job is requested
RecordLaunch ==
    /\ proc = "intent"
    /\ Save([mem EXCEPT !.launched = TRUE, !.phase = "launching"]) /\ GoTo("create")
    /\ UNCHANGED <<cancelFile, fileVars, kubeVars, ghosts>>

CreateJob ==
    /\ proc = "create" /\ launches' = launches + 1
    /\ \/ CanCreate("job") /\ Create("job")
       \/ Ours("job") /\ UNCHANGED <<api, born>>
    /\ Save([mem EXCEPT !.uid["job"] = api'["job"].uid, !.phase = "running"])
    /\ GoTo("monitor")
    /\ UNCHANGED <<cancelFile, fileVars, cluster, pod, stage, writes, gate,
                   collector, inflight, removed, tampers>>

\* the request is sent and its outcome is not recorded: refused, applied with
\* the answer lost, or still on its way; a caller that gave up leaves a cancel
\* request here too
CreateJobUnrecorded ==
    /\ proc = "create" /\ launches' = launches + 1
    /\ \/ Stop /\ UNCHANGED cancelFile
       \/ Return([mem EXCEPT !.cancel = TRUE]) /\ cancelFile' = TRUE
    /\ \/ CanCreate("job") /\ Create("job") /\ UNCHANGED inflight
       \/ inflight' \in BOOLEAN /\ UNCHANGED <<api, born>>
    /\ UNCHANGED <<fileVars, cluster, pod, stage, writes, gate,
                   collector, removed, tampers>>

----------------------------------------------------------------------------
(* monitor *)

\* top of the loop: a cancel request reaches the ledger
MonitorTop ==
    /\ proc = "monitor"
    /\ IF cancelFile /\ ~mem.cancel THEN Save([mem EXCEPT !.cancel = TRUE]) ELSE Keep(mem)
    /\ GoTo("observe")
    /\ UNCHANGED <<cancelFile, fileVars, kubeVars, ghosts>>

JobIntact == Ours("job") /\ api["job"].uid = mem.uid["job"]
PodIntact == Ours("pod") /\ mem.uid["pod"] \in {0, api["pod"].uid}
\* observePod answers "terminal", and whether the guard's exit code is known
Terminal(exited) ==
    /\ Save([mem EXCEPT !.phase = "collecting", !.exit = @ \/ exited])
    /\ GoTo("stageCM")

\* observePod; the pod's UID is durable before the gate is looked at
ObservePod ==
    /\ proc = "observe"
    /\ \/ ~Exists("job") /\ Terminal(FALSE)
       \/ Exists("job") /\ ~JobIntact /\ Return(mem)
       \/ /\ JobIntact /\ ~Exists("pod")
          /\ IF mem.uid["pod"] # 0 \/ pod = "aborted"
             THEN Terminal(FALSE)
             ELSE Keep(mem) /\ GoTo("monitor")
       \/ JobIntact /\ Exists("pod") /\ ~PodIntact /\ Return(mem)
       \/ /\ JobIntact /\ PodIntact /\ mem.uid["pod"] = 0
          /\ Save([mem EXCEPT !.uid["pod"] = api["pod"].uid]) /\ GoTo("observe")
       \/ /\ JobIntact /\ PodIntact /\ mem.uid["pod"] # 0
          /\ \/ pod = "init" /\ gate # mem.uid["pod"] /\ Keep(mem) /\ GoTo("gate")
             \/ pod = "init" /\ gate = mem.uid["pod"] /\ Keep(mem) /\ GoTo("monitor")
             \/ pod = "running" /\ Keep(mem) /\ GoTo("monitor")
             \/ pod = "ended" /\ Terminal(TRUE)
             \/ pod = "aborted" /\ Terminal(FALSE)
    /\ UNCHANGED <<cancelFile, fileVars, kubeVars, ghosts>>

\* an API error inside observePod, or the monitor deadline
MonitorFails ==
    /\ proc \in {"observe", "gate"} /\ Return(mem)
    /\ UNCHANGED <<cancelFile, fileVars, kubeVars, ghosts>>

\* mutant: the request is not saved before the collector starts
ArmCollectorUnsaved ==
    /\ proc = "gate" /\ ~mem.armed
    /\ Keep([mem EXCEPT !.armed = TRUE]) /\ GoTo("gate")
    /\ UNCHANGED <<cancelFile, fileVars, kubeVars, ghosts>>

\* ensureGate: the collector request is durable before the collector starts,
\* and the gate is released only while that collector watches
ArmCollector ==
    /\ proc = "gate" /\ ~mem.armed
    /\ Save([mem EXCEPT !.armed = TRUE]) /\ GoTo("gate")
    /\ UNCHANGED <<cancelFile, fileVars, kubeVars, ghosts>>

StartCollector ==
    /\ proc = "gate" /\ mem.armed /\ collector = "idle" /\ collector' = "watching"
    /\ UNCHANGED <<procVars, cancelFile, fileVars, api, born, cluster, pod,
                   stage, writes, gate, inflight, ghosts>>

ReleaseGate ==
    /\ proc = "gate" /\ mem.armed /\ collector = "watching" /\ Exists("runner")
    /\ gate' = mem.uid["pod"] /\ Keep(mem) /\ GoTo("monitor")
    /\ UNCHANGED <<cancelFile, fileVars, api, born, cluster, pod, stage, writes,
                   collector, inflight, ghosts>>

\* mutant: the request is dropped so that the next poll can arm again
GateRefusedRearms ==
    /\ proc = "gate" /\ mem.armed /\ ~(collector \in {"idle", "watching"} /\ Exists("runner"))
    /\ Return([mem EXCEPT !.armed = FALSE])
    /\ UNCHANGED <<cancelFile, fileVars, kubeVars, ghosts>>

\* a collector that is no longer alive is not armed again: the gate stays closed
GateRefused ==
    /\ proc = "gate" /\ mem.armed /\ ~(collector \in {"idle", "watching"} /\ Exists("runner"))
    /\ Return(mem)
    /\ UNCHANGED <<cancelFile, fileVars, kubeVars, ghosts>>

\* the helper asks to try again, or the request changed meanwhile
GateRetry ==
    /\ proc = "gate" /\ Keep(mem) /\ GoTo("monitor")
    /\ UNCHANGED <<cancelFile, fileVars, kubeVars, ghosts>>

----------------------------------------------------------------------------
(* finishCollection *)

\* mutant: the latest valid evidence wins
StageLedgerReplaces(l) ==
    LET g == [l EXCEPT !.guard = IF stage.version = 0 THEN @ ELSE stage.version]
    IN  CASE stage.evidence = "none"    -> [g EXCEPT !.evidence = "missing"]
          [] stage.evidence = "invalid" -> [g EXCEPT !.evidence = "rejected"]
          [] stage.evidence = "garbled" -> l
          [] OTHER -> [g EXCEPT !.evidence = "accepted", !.digest = stage.version]

\* collectStage on the data of the recorded ConfigMap: guard.json is taken as it
\* is, evidence.json is validated and compared with the digest already recorded
StageLedger(l) ==
    LET g == [l EXCEPT !.guard = IF stage.version = 0 THEN @ ELSE stage.version]
    IN  CASE stage.evidence = "none"    -> [g EXCEPT !.evidence = "missing"]
          [] stage.evidence = "invalid" -> [g EXCEPT !.evidence = "rejected"]
          [] stage.evidence = "garbled" -> l
          [] stage.evidence = "valid" /\ l.digest \notin {0, stage.version} ->
                [g EXCEPT !.evidence = "conflict"]
          [] OTHER -> [g EXCEPT !.evidence = "accepted", !.digest = stage.version]

\* mutant: the evidence file is written before it is compared
CollectStageOverwrites ==
    /\ proc = "stageCM" /\ proc' = "logs" /\ UNCHANGED <<failed, retry>>
    /\ IF Exists("stage")
       THEN /\ Keep(StageLedger(mem))
            /\ files' = [files EXCEPT !.guard = IF stage.version # 0 THEN stage.version ELSE @,
                                      !.evidence = IF stage.evidence = "valid" THEN stage.version ELSE @]
       ELSE Keep([mem EXCEPT !.evidence = "missing"]) /\ UNCHANGED files
    /\ UNCHANGED <<cancelFile, obs, ready, kubeVars, ghosts>>

\* artifacts are durable at once, their digests only with the next save
CollectStage ==
    /\ proc = "stageCM" /\ proc' = "logs" /\ UNCHANGED <<failed, retry>>
    /\ \/ /\ ~Exists("stage") /\ UNCHANGED files
          /\ Keep([mem EXCEPT !.evidence = "missing"])
       \/ /\ Exists("stage") /\ api["stage"].uid # mem.uid["stage"]
          /\ Keep(mem) /\ UNCHANGED files
       \/ /\ Exists("stage") /\ api["stage"].uid = mem.uid["stage"]
          /\ LET l == StageLedger(mem)
             IN  /\ Keep(l)
                 /\ files' = [guard    |-> IF stage.evidence # "garbled" /\ stage.version # 0
                                           THEN stage.version ELSE files.guard,
                              evidence |-> IF l.evidence = "accepted" THEN l.digest
                                           ELSE files.evidence]
    /\ UNCHANGED <<cancelFile, obs, ready, kubeVars, ghosts>>

\* an ordinary error keeps the source for a later collect; it may be met before the
\* guard status is written, after that, or after a write that did reach the disk
StageFails ==
    /\ proc = "stageCM" /\ proc' = "logs" /\ retry' = TRUE
    /\ \/ Keep(mem) /\ UNCHANGED files
       \/ /\ Exists("stage") /\ api["stage"].uid = mem.uid["stage"]
          /\ stage.version # 0 /\ stage.evidence # "garbled"
          /\ \/ Keep(mem) /\ files' = [files EXCEPT !.guard = stage.version]
             \/ /\ stage.evidence = "valid" /\ mem.digest \in {0, stage.version}
                /\ Keep([mem EXCEPT !.guard = stage.version])
                /\ \E e \in {files.evidence, stage.version} :
                      files' = [guard |-> stage.version, evidence |-> e]
    /\ UNCHANGED <<failed, cancelFile, obs, ready, kubeVars, ghosts>>

\* both collections are done: stay for the retryable errors, else dispose
Collected(l, again) ==
    IF retry \/ again THEN Return([l EXCEPT !.phase = "collecting"])
    ELSE /\ Save([l EXCEPT !.phase = "disposing"]) /\ GoTo("dispose")

\* mutant: the result is read while the collector may still be running
TransferLogsEarly ==
    /\ proc = "logs" /\ mem.armed /\ ~mem.collected
    /\ Save([mem EXCEPT !.collected = TRUE, !.logs = collector]) /\ GoTo("logs")
    /\ UNCHANGED <<cancelFile, fileVars, kubeVars, ghosts>>

\* collectTrusted brings the collector's result over and saves its digest
TransferLogs ==
    /\ proc = "logs" /\ mem.armed /\ ~mem.collected
    /\ \/ collector = "complete" /\ mem.exit
       \/ collector = "gap"
    /\ Save([mem EXCEPT !.collected = TRUE, !.logs = collector]) /\ GoTo("logs")
    /\ UNCHANGED <<cancelFile, fileVars, kubeVars, ghosts>>

\* nothing to bring over: no collector was armed, its spool is lost, the transfer
\* is done, or it contradicts the exit the API reported
CollectLogs ==
    /\ proc = "logs"
    /\ \/ /\ \/ ~mem.armed
             \/ mem.armed /\ ~mem.collected /\ collector \in {"idle", "lost"}
          /\ Collected([mem EXCEPT !.logs = "missing"], FALSE)
       \/ mem.armed /\ mem.collected /\ Collected(mem, FALSE)
       \/ /\ mem.armed /\ ~mem.collected /\ collector \in {"complete", "gap"} /\ ~mem.exit
          /\ Collected(mem, FALSE)
    /\ UNCHANGED <<cancelFile, fileVars, kubeVars, ghosts>>

\* the collector still holds its lock: no result yet
LogsPending ==
    /\ proc = "logs" /\ mem.armed /\ ~mem.collected /\ collector = "watching"
    /\ Collected(mem, TRUE)
    /\ UNCHANGED <<cancelFile, fileVars, kubeVars, ghosts>>

LogsFail ==
    /\ proc = "logs" /\ Collected(mem, TRUE)
    /\ UNCHANGED <<cancelFile, fileVars, kubeVars, ghosts>>

----------------------------------------------------------------------------
(* finishDisposal *)

\* points of dispose, in order, and the object each disposes of
Target(p) == CASE p = "delResource" -> "resource"
               [] p = "delRunner"   -> "runner"
               [] p = "delBinding"  -> "binding"
               [] p = "delRole"     -> "role"
NextTarget(p) == CASE p = "delResource" -> "delRunner"
                   [] p = "delRunner"   -> "delBinding"
                   [] p = "delBinding"  -> "delRole"
DisposePoints == {"delResource", "delRunner", "delBinding", "delRole"}

CheckCluster ==
    /\ proc = "dispose"
    /\ IF mem.cluster = cluster THEN Keep(mem) /\ GoTo("delResource") ELSE Return(mem)
    /\ UNCHANGED <<cancelFile, fileVars, kubeVars, ghosts>>

\* mutant: only the last object's error is looked at
SettledLastOnly(p, ok) ==
    LET l == [mem EXCEPT !.absent[Target(p)] = ok]
    IN  IF p # "delRole"
        THEN Keep(l) /\ proc' = NextTarget(p) /\ failed' = ~ok /\ UNCHANGED retry
        ELSE IF ~ok THEN Return(l)
        ELSE Save([l EXCEPT !.phase = "complete"]) /\ GoTo("publish")

\* one object is settled; after the last the run is complete only if all are absent
Settled(p, ok) ==
    LET l   == [mem EXCEPT !.absent[Target(p)] = ok]
        bad == failed \/ ~ok
    IN  IF p # "delRole"
        THEN Keep(l) /\ proc' = NextTarget(p) /\ failed' = bad /\ UNCHANGED retry
        ELSE IF bad THEN Return(l)
        ELSE Save([l EXCEPT !.phase = "complete"]) /\ GoTo("publish")

\* mutant: an accepted delete request counts as absence
DisposeAccepted(p) ==
    /\ proc = p /\ (~Exists(Target(p)) \/ api[Target(p)].term) /\ Settled(p, TRUE)
    /\ UNCHANGED <<cancelFile, fileVars, kubeVars, ghosts>>

DisposeGone(p) ==
    /\ proc = p /\ ~Exists(Target(p)) /\ Settled(p, TRUE)
    /\ UNCHANGED <<cancelFile, fileVars, kubeVars, ghosts>>

\* recoverOwnership: only an unrecorded UID may be adopted, and it is saved first
Adopt(p) ==
    /\ proc = p /\ Ours(Target(p)) /\ mem.uid[Target(p)] = 0
    /\ Save([mem EXCEPT !.uid[Target(p)] = api[Target(p)].uid]) /\ GoTo(p)
    /\ UNCHANGED <<cancelFile, fileVars, kubeVars, ghosts>>

\* mutant: delete by name
DeleteByName(p) ==
    LET o == Target(p)
    IN  /\ proc = p /\ Exists(o) /\ ~api[o].term
        /\ api' = [api EXCEPT ![o].term = TRUE]
        /\ removed' = removed \cup {[obj |-> o, uid |-> api[o].uid, owned |-> api[o].owned]}
        /\ UNCHANGED <<procVars, cancelFile, fileVars, born, cluster, pod, stage,
                       writes, gate, collector, inflight, launches, tampers>>

\* delete with a UID precondition; the object may linger until it is finalised
Delete(p) ==
    LET o == Target(p)
    IN  /\ proc = p /\ Ours(o) /\ mem.uid[o] = api[o].uid /\ ~api[o].term
        /\ api' = [api EXCEPT ![o].term = TRUE]
        /\ removed' = removed \cup {[obj |-> o, uid |-> api[o].uid, owned |-> api[o].owned]}
        /\ UNCHANGED <<procVars, cancelFile, fileVars, born, cluster, pod, stage,
                       writes, gate, collector, inflight, launches, tampers>>

\* a replacement is preserved, a call fails, or the object's own budget runs out
DisposeFails(p) ==
    /\ proc = p /\ Settled(p, FALSE)
    /\ UNCHANGED <<cancelFile, fileVars, kubeVars, ghosts>>

----------------------------------------------------------------------------
(* publishObservations *)

ArtifactsMatch ==
    /\ mem.digest # 0 => files.evidence = mem.digest
    /\ mem.guard # 0 => files.guard = mem.guard

\* the claims observations() derives from a completed ledger
ResourcesVerified(l) == l.absent["resource"] /\ l.uid["resource"] # 0 /\ l.cluster # 0
DisposalVerified(l) ==
    /\ l.absent["runner"] /\ l.absent["role"] /\ l.absent["binding"] /\ l.cluster # 0
    /\ \A o \in {"runner", "pod", "job", "role", "binding"} : l.uid[o] # 0

PublishObservations ==
    /\ proc = "publish"
    /\ IF ArtifactsMatch /\ obs \in {NoLedger, mem}
       THEN obs' = mem /\ Keep(mem) /\ GoTo("mark")
       ELSE obs' = obs /\ Stop
    /\ UNCHANGED <<cancelFile, files, ready, kubeVars, ghosts>>

\* the readiness marker goes last; an existing one must be identical
PublishReady ==
    /\ proc = "mark" /\ Stop
    /\ ready' = IF ready = NoLedger THEN mem ELSE ready
    /\ UNCHANGED <<cancelFile, files, obs, kubeVars, ghosts>>

----------------------------------------------------------------------------
(* The cluster, the runner pod and everybody else (external) *)

Contained(o) == {o} \cup IF o = "runner" THEN InRunner ELSE {}

\* o disappears with everything inside it
Remove(o) ==
    /\ api' = [x \in Obj |-> IF x \in Contained(o) THEN Absent ELSE api[x]]
    /\ pod' = IF "pod" \in Contained(o) THEN "none" ELSE pod
    /\ stage' = IF "stage" \in Contained(o) THEN NoData ELSE stage
    /\ inflight' = (inflight /\ o # "runner")
    /\ UNCHANGED <<born, cluster, writes, gate, collector>>

Finalised(o) ==
    /\ api[o].term /\ Remove(o)
    /\ UNCHANGED <<procVars, cancelFile, fileVars, ghosts>>

LateJob ==
    /\ inflight /\ inflight' = FALSE /\ CanCreate("job") /\ Create("job")
    /\ UNCHANGED <<procVars, cancelFile, fileVars, cluster, pod, stage, writes,
                   gate, collector, ghosts>>

PodCreated ==
    /\ Ours("job") /\ pod = "none" /\ born["pod"] = 0 /\ CanCreate("pod")
    /\ Create("pod") /\ pod' = "init"
    /\ UNCHANGED <<procVars, cancelFile, fileVars, cluster, stage, writes, gate,
                   collector, inflight, ghosts>>

\* the init container leaves once the gate names its pod; the guard ends by
\* itself, on a signal or at the Job's deadline, which also ends a stuck pod
PodMoves ==
    /\ \/ pod = "init" /\ gate = api["pod"].uid /\ pod' = "running"
       \/ pod = "running" /\ pod' = "ended"
       \/ pod = "init" /\ pod' = "aborted"
       \/ pod = "none" /\ Ours("job") /\ ~Exists("pod") /\ pod' = "aborted"
    /\ UNCHANGED <<procVars, cancelFile, fileVars, api, born, cluster, stage,
                   writes, gate, collector, inflight, ghosts>>

\* the guard, or the job using its token, patches the staging data; a patch that
\* timed out may arrive when the pod has ended
GuardStages ==
    /\ pod \in {"running", "ended"} /\ Ours("stage") /\ writes < MaxWrites /\ writes' = writes + 1
    /\ \E e \in Staged :
          stage' = [version |-> writes + 1, evidence |-> e]
    /\ UNCHANGED <<procVars, cancelFile, fileVars, api, born, cluster, pod, gate,
                   collector, inflight, ghosts>>

\* the guard's own cleanup deletes the resource namespace
GuardCleans ==
    /\ pod = "running" /\ Ours("resource") /\ ~api["resource"].term
    /\ api' = [api EXCEPT !["resource"].term = TRUE]
    /\ UNCHANGED <<procVars, cancelFile, fileVars, born, cluster, pod, stage,
                   writes, gate, collector, inflight, ghosts>>

\* complete only when the watch saw the released guard start and end
CollectorEnds ==
    /\ collector = "watching"
    /\ \/ pod = "ended" /\ gate # 0 /\ collector' = "complete"
       \/ collector' = "gap"
    /\ UNCHANGED <<procVars, cancelFile, fileVars, api, born, cluster, pod, stage,
                   writes, gate, inflight, ghosts>>

\* somebody deletes an object, or creates one under a name of the run
Vanish(o) ==
    /\ tampers < MaxTampers /\ tampers' = tampers + 1 /\ Exists(o) /\ Remove(o)
    /\ UNCHANGED <<procVars, cancelFile, fileVars, launches, removed>>

ForeignCreate(o) ==
    /\ tampers < MaxTampers /\ tampers' = tampers + 1 /\ CanCreate(o)
    /\ api' = [api EXCEPT ![o] = [uid |-> born[o] + 1, owned |-> FALSE, term |-> FALSE]]
    /\ born' = [born EXCEPT ![o] = @ + 1]
    /\ UNCHANGED <<procVars, cancelFile, fileVars, cluster, pod, stage, writes, gate,
                   collector, inflight, launches, removed>>

\* the kind cluster is deleted and created again under the same address
ClusterReplaced ==
    /\ "cluster" \in Tampered /\ tampers < MaxTampers /\ tampers' = tampers + 1
    /\ cluster = 1 /\ cluster' = 2
    /\ api' = [o \in Obj |-> Absent] /\ pod' = "none" /\ stage' = NoData
    /\ inflight' = FALSE
    /\ collector' = IF collector = "idle" THEN "idle" ELSE "lost"
    /\ UNCHANGED <<procVars, cancelFile, fileVars, born, writes, gate, launches, removed>>

CollectorLost ==
    /\ "spool" \in Tampered /\ tampers < MaxTampers /\ tampers' = tampers + 1
    /\ collector \notin {"idle", "lost"} /\ collector' = "lost"
    /\ UNCHANGED <<procVars, cancelFile, fileVars, api, born, cluster, pod, stage,
                   writes, gate, inflight, launches, removed>>

----------------------------------------------------------------------------
Provisioning ==
    \/ Start \/ Collect \/ FindJob \/ PinCluster
    \/ \E o \in Provisioned : Ensure(o)
    \/ Launch \/ RecordLaunch \/ CreateJob

Monitoring ==
    \/ MonitorTop \/ ObservePod
    \/ ArmCollector \/ StartCollector \/ ReleaseGate \/ GateRefused

Closing ==
    \/ CollectStage \/ TransferLogs \/ CollectLogs \/ LogsPending \/ CheckCluster
    \/ \E p \in DisposePoints : DisposeGone(p) \/ Adopt(p) \/ Delete(p)
    \/ PublishObservations \/ PublishReady

Faults ==
    \/ Crash \/ ProvisionFails \/ CreateJobUnrecorded \/ MonitorFails \/ GateRetry
    \/ StageFails \/ LogsFail
    \/ \E o \in Provisioned : EnsureUnrecorded(o)
    \/ \E p \in DisposePoints : DisposeFails(p)

Cluster ==
    \/ \E o \in Disposable : Finalised(o)
    \/ LateJob \/ PodCreated \/ PodMoves \/ GuardStages \/ GuardCleans \/ CollectorEnds

Others ==
    \/ RequestCancel \/ ClusterReplaced \/ CollectorLost
    \/ \E o \in Tampered \cap Obj : Vanish(o) \/ ForeignCreate(o)

Steady == Provisioning \/ Monitoring \/ Closing \/ Cluster \/ Others
Next == Steady \/ Faults

Spec == Init /\ [][Next]_vars

----------------------------------------------------------------------------
(* Properties *)

\* However often the process dies around the launch, at most one Job create
\* request is ever sent: provision saves LaunchAttempted before the request and
\* Collect never provisions again once it is set.
LaunchedAtMostOnce == launches <= 1

\* A cancel request that exists before the launch attempt is durable means the
\* command never starts, whichever process provisions or resumes the run; only a
\* request landing between provision's last check and the save comes too late.
\* The watchdog relies on it to resume a run that had not launched.
CancelBeforeLaunch ==
    [](cancelFile /\ ~disk.launched /\ proc # "intent" => [](launches = 0))

\* Whatever a delete request of the coordinator took away was created by this
\* run, and its UID was in the durable ledger when the request was sent and
\* still is: replacements under the same name are preserved.
OnlyOwnObjectsRemoved ==
    \A r \in removed : r.owned /\ disk.uid[r.obj] = r.uid

\* A complete ledger leaves nothing of the run in the cluster, not even a Job
\* created late or an object whose create was never recorded.
CompleteMeansGone == disk.phase = "complete" => \A o \in Obj : ~Ours(o)

\* The readiness marker binds the exact final ledger and the observations derived
\* from it; no later collect, cancel or crash changes either.
ReadyBindsFinalLedger ==
    ready # NoLedger =>
        /\ ready = disk /\ obs = disk /\ disk.phase = "complete" /\ proc \in {"down", "publish", "mark"}

\* The gate is only ever open to the pod whose UID and collector request are
\* durable, so a restarted coordinator recognises that pod and no other.
GateOpensToRecordedPod ==
    gate # 0 => disk.uid["pod"] = gate /\ disk.armed /\ collector # "idle"

\* Once a collector request is bound to the recorded UIDs, none of the UIDs it
\* covers changes any more, whatever is adopted during recovery or disposal.
BindingStable ==
    [][disk.armed => disk'.armed /\ disk'.uid = disk.uid]_vars

\* A published disposal claim is true: the run's pod, Job, namespaces and RBAC
\* existed, were recorded, and none of those UIDs exists any more.
ClaimsAreTrue ==
    /\ DisposalVerified(obs) =>
         \A o \in {"runner", "pod", "job", "role", "binding"} : api[o].uid # obs.uid[o]
    /\ ResourcesVerified(obs) => api["resource"].uid # obs.uid["resource"]

\* provision.go: "It never replaces objects": no object is created under a name
\* whose UID the ledger already records.
NeverReplaces ==
    [][\A o \in Obj : mem.uid[o] # 0 /\ ~Exists(o) => ~(api'[o].uid # 0 /\ api'[o].owned)]_vars

\* Evidence whose digest is durable is never replaced: a later patch of the
\* staging ConfigMap is a conflict, and the collected file keeps its bytes.
EvidenceFrozen ==
    [][disk.digest # 0 => disk'.digest = disk.digest /\ files'.evidence = files.evidence]_vars

\* Whatever passes, crashes, failed writes and patches there were, evidence the ledger
\* records is on disk under exactly that digest, and guard.json is never older than
\* the guard status the ledger records.
LedgerMatchesArtifacts ==
    /\ disk.digest # 0 => files.evidence = disk.digest
    /\ disk.guard <= files.guard

\* docs/local-ci.md: "`collect` repairs interrupted publication without changing the
\* completed ledger": as long as its marker is missing, a completed run has kept the
\* files whose hashes the ledger records, which publishObservations insists on.
PublicationIsRepairable ==
    disk.phase = "complete" /\ ready = NoLedger =>
        /\ disk.digest # 0 => files.evidence = disk.digest
        /\ disk.guard # 0 => files.guard = disk.guard
====
