-------------------------- MODULE CoordinatorProofs --------------------------
(***************************************************************************)
(* Theorems about Coordinator for every number of UIDs, tampering steps and *)
(* staging patches.                                                          *)
(***************************************************************************)
EXTENDS Coordinator, TLAPS

----------------------------------------------------------------------------
(* The ledger: an update of one field yields a ledger again *)

\* A fresh ledger is a ledger.
LEMMA NewLedgerType ==
    ASSUME NEW phase \in PhaseNames
    PROVE  NewLedger(phase) \in Ledger
  BY CoordinatorAssumption DEF NewLedger, Ledger, Version, Obj, Provisioned, Disposable

\* Ensure, Adopt and observePod record the UID of one object.
LEMMA LedgerUid ==
    ASSUME NEW l \in Ledger, NEW o \in Obj, NEW u \in 0..MaxUid
    PROVE  [l EXCEPT !.uid[o] = u] \in Ledger
  BY DEF Ledger

\* dispose records the absence of one object.
LEMMA LedgerAbsent ==
    ASSUME NEW l \in Ledger, NEW o \in Disposable, NEW b \in BOOLEAN
    PROVE  [l EXCEPT !.absent[o] = b] \in Ledger
  BY DEF Ledger

\* The other fields that more than one action assigns.
LEMMA LedgerPhase ==
    ASSUME NEW l \in Ledger, NEW p \in PhaseNames
    PROVE  [l EXCEPT !.phase = p] \in Ledger
  BY DEF Ledger

LEMMA LedgerCancel ==
    ASSUME NEW l \in Ledger, NEW b \in BOOLEAN
    PROVE  [l EXCEPT !.cancel = b] \in Ledger
  BY DEF Ledger

LEMMA LedgerCluster ==
    ASSUME NEW l \in Ledger, NEW c \in {1, 2}
    PROVE  [l EXCEPT !.cluster = c] \in Ledger
  BY DEF Ledger

----------------------------------------------------------------------------
(* Type correctness, one lemma per part of the system *)

LEMMA InitType == Init => TypeOK
  <1>1. NoLedger \in Ledger
    BY NewLedgerType DEF NoLedger, PhaseNames
  <1>2. Init => /\ proc \in Points /\ retry \in BOOLEAN /\ failed \in BOOLEAN
                /\ cancelFile \in BOOLEAN /\ inflight \in BOOLEAN
    BY DEF Init, Points
  <1>3. Init => api \in [Obj -> [uid : 0..MaxUid, owned : BOOLEAN, term : BOOLEAN]]
    BY CoordinatorAssumption DEF Init, Absent
  <1>4. Init => /\ files \in [guard : Version, evidence : Version]
                /\ born \in [Obj -> 0..MaxUid]
                /\ stage \in [version : Version, evidence : {"none", "valid", "invalid", "garbled"}]
                /\ writes \in Version /\ gate \in 0..MaxUid /\ launches \in Nat
                /\ tampers \in 0..MaxTampers
    BY CoordinatorAssumption DEF Init, NoFiles, NoData, Version
  <1> QED
    BY <1>1, <1>2, <1>3, <1>4 DEF Init, TypeOK

\* Start, resume and die.
LEMMA ResumeType ==
    TypeOK /\ (Start \/ Collect \/ Crash \/ RequestCancel \/ FindJob) => TypeOK'
  <1> SUFFICES ASSUME TypeOK, Start \/ Collect \/ Crash \/ RequestCancel \/ FindJob
               PROVE  TypeOK'
    OBVIOUS
  <1> USE CoordinatorAssumption DEF TypeOK, GoTo, Save, Keep, Stop, ghosts, kubeVars, fileVars, procVars
  <1>1. CASE Start
    BY <1>1, NewLedgerType DEF Start, Points, PhaseNames
  <1>2. CASE Collect
    <2>1. CASE disk.phase = "complete" /\ Keep(disk) /\ GoTo("publish")
      BY <1>2, <2>1 DEF Collect, Points
    <2>2. CASE disk.phase # "complete"
      <3> DEFINE pinned == [disk EXCEPT !.cluster = cluster]
      <3>1. pinned \in Ledger
        BY LedgerCluster
      <3>2. pinned.cancel \in BOOLEAN
        BY <3>1 DEF Ledger
      <3>3. [pinned EXCEPT !.cancel = @ \/ cancelFile] \in Ledger
        BY <3>1, <3>2, LedgerCancel, Zenon
      <3>4. Resume(pinned) \in Points
        BY DEF Resume, Points
      <3> QED
        BY <1>2, <2>2, <3>1, <3>3, <3>4 DEF Collect
    <2> QED
      BY <1>2, <2>1, <2>2 DEF Collect
  <1>3. CASE Crash
    BY <1>3, ZenonT(60) DEF Crash, Points
  <1>4. CASE RequestCancel
    BY <1>4 DEF RequestCancel
  <1>5. CASE FindJob
    <2>1. ASSUME NEW p \in PhaseNames PROVE [mem EXCEPT !.phase = p] \in Ledger
      BY LedgerPhase
    <2>2. [mem EXCEPT !.uid["job"] = api["job"].uid, !.phase = "running"] \in Ledger
      BY LedgerUid, ZenonT(60) DEF Ledger, PhaseNames, Obj
    <2>3. mem' \in Ledger /\ disk' \in Ledger
      BY <1>5, <2>1, <2>2 DEF FindJob, PhaseNames
    <2>4. proc' \in Points /\ retry' \in BOOLEAN /\ failed' \in BOOLEAN
      BY <1>5 DEF FindJob, Points
    <2> QED
      BY <1>5, <2>3, <2>4 DEF FindJob
  <1> QED
    BY <1>1, <1>2, <1>3, <1>4, <1>5

\* A create request leaves well-typed objects.
LEMMA CreateType ==
    ASSUME TypeOK, NEW o \in Obj, CanCreate(o), Create(o)
    PROVE  /\ api' \in [Obj -> [uid : 0..MaxUid, owned : BOOLEAN, term : BOOLEAN]]
           /\ born' \in [Obj -> 0..MaxUid]
  <1>1. born[o] \in 0..MaxUid /\ born[o] + 1 \in 0..MaxUid
    BY CoordinatorAssumption DEF TypeOK, CanCreate
  <1>2. [uid |-> born[o] + 1, owned |-> TRUE, term |-> FALSE]
           \in [uid : 0..MaxUid, owned : BOOLEAN, term : BOOLEAN]
    BY <1>1
  <1> QED
    BY <1>1, <1>2 DEF TypeOK, Create

\* provision, up to the create request of the Job.
LEMMA ProvisionType ==
    ASSUME TypeOK,
           \/ PinCluster \/ ProvisionFails \/ Launch \/ RecordLaunch
           \/ \E o \in Provisioned : Ensure(o) \/ EnsureUnrecorded(o)
    PROVE  TypeOK'
  <1> USE CoordinatorAssumption DEF TypeOK, GoTo, Save, Keep, Stop, Return, ghosts, kubeVars, fileVars
  <1>1. CASE PinCluster
    <2>1. [mem EXCEPT !.cluster = cluster] \in Ledger
      BY LedgerCluster
    <2>8. mem' \in Ledger /\ disk' \in Ledger
      BY <1>1, <2>1 DEF PinCluster
    <2>9. proc' \in Points /\ retry' \in BOOLEAN /\ failed' \in BOOLEAN
      BY <1>1 DEF PinCluster, Points, Provisioned, Disposable
    <2> QED
      BY <1>1, <2>8, <2>9 DEF PinCluster
  <1>2. CASE ProvisionFails
    <2>1. [mem EXCEPT !.cancel = TRUE] \in Ledger
      BY LedgerCancel
    <2>8. mem' \in Ledger /\ disk' \in Ledger /\ cancelFile' \in BOOLEAN
      BY <1>2, <2>1 DEF ProvisionFails
    <2>9. proc' \in Points /\ retry' \in BOOLEAN /\ failed' \in BOOLEAN
      BY <1>2 DEF ProvisionFails, Points
    <2> QED
      BY <1>2, <2>8, <2>9 DEF ProvisionFails
  <1>3. CASE Launch
    <2>1. [mem EXCEPT !.cancel = TRUE, !.phase = "collecting"] \in Ledger
      BY DEF Ledger, PhaseNames
    <2> QED
      BY <1>3, <2>1 DEF Launch, Points
  <1>4. CASE RecordLaunch
    <2>1. [mem EXCEPT !.launched = TRUE, !.phase = "launching"] \in Ledger
      BY DEF Ledger, PhaseNames
    <2> QED
      BY <1>4, <2>1 DEF RecordLaunch, Points
  <1>5. ASSUME NEW o \in Provisioned, Ensure(o) PROVE TypeOK'
    <2>1. o \in Obj
      BY DEF Obj
    <2>2. /\ api' \in [Obj -> [uid : 0..MaxUid, owned : BOOLEAN, term : BOOLEAN]]
          /\ born' \in [Obj -> 0..MaxUid]
      BY <1>5, <2>1, CreateType DEF Ensure
    <2>3. [mem EXCEPT !.uid[o] = api'[o].uid] \in Ledger
      BY <2>1, <2>2, LedgerUid
    <2>4. After(o) \in Points
      BY DEF After, Points, Provisioned, Disposable
    <2>8. mem' \in Ledger /\ disk' \in Ledger
      BY <1>5, <2>3 DEF Ensure
    <2>9. proc' \in Points /\ retry' \in BOOLEAN /\ failed' \in BOOLEAN
      BY <1>5, <2>4 DEF Ensure
    <2> QED
      BY <1>5, <2>2, <2>8, <2>9 DEF Ensure
  <1>6. ASSUME NEW o \in Provisioned, EnsureUnrecorded(o) PROVE TypeOK'
    <2>1. o \in Obj
      BY DEF Obj
    <2>2. /\ api' \in [Obj -> [uid : 0..MaxUid, owned : BOOLEAN, term : BOOLEAN]]
          /\ born' \in [Obj -> 0..MaxUid]
      BY <1>6, <2>1, CreateType DEF EnsureUnrecorded
    <2>8. mem' \in Ledger /\ disk' \in Ledger
      BY <1>6 DEF EnsureUnrecorded
    <2>9. proc' \in Points /\ retry' \in BOOLEAN /\ failed' \in BOOLEAN
      BY <1>6 DEF EnsureUnrecorded, Points
    <2> QED
      BY <1>6, <2>2, <2>8, <2>9 DEF EnsureUnrecorded
  <1> QED
    BY <1>1, <1>2, <1>3, <1>4, <1>5, <1>6

\* the create request of the Job.
LEMMA CreateJobType ==
    ASSUME TypeOK, CreateJob \/ CreateJobUnrecorded
    PROVE  TypeOK'
  <1> USE CoordinatorAssumption DEF TypeOK, GoTo, Save, Keep, Stop, Return, ghosts, kubeVars, fileVars
  <1>1. "job" \in Obj
    BY DEF Obj
  <1>2. /\ api' \in [Obj -> [uid : 0..MaxUid, owned : BOOLEAN, term : BOOLEAN]]
        /\ born' \in [Obj -> 0..MaxUid]
    BY <1>1, CreateType DEF CreateJob, CreateJobUnrecorded
  <1>3. launches' \in Nat
    BY DEF CreateJob, CreateJobUnrecorded
  <1>4. CASE CreateJob
    <2>1. [mem EXCEPT !.uid["job"] = api'["job"].uid] \in Ledger
      BY <1>1, <1>2, LedgerUid
    <2>2. [mem EXCEPT !.uid["job"] = api'["job"].uid, !.phase = "running"] \in Ledger
      BY <2>1 DEF Ledger, PhaseNames
    <2> QED
      BY <1>2, <1>3, <1>4, <2>2 DEF CreateJob, Points
  <1>5. CASE CreateJobUnrecorded
    <2>1. [mem EXCEPT !.cancel = TRUE] \in Ledger
      BY LedgerCancel
    <2>8. mem' \in Ledger /\ disk' \in Ledger
      BY <1>5, <2>1 DEF CreateJobUnrecorded
    <2>9. proc' \in Points /\ retry' \in BOOLEAN /\ failed' \in BOOLEAN
      BY <1>5 DEF CreateJobUnrecorded, Points
    <2> QED
      BY <1>5, <1>2, <1>3, <2>8, <2>9, ZenonT(60) DEF CreateJobUnrecorded
  <1> QED
    BY <1>4, <1>5

\* monitor, observePod and the gate.
LEMMA MonitorType ==
    ASSUME TypeOK,
           \/ MonitorTop \/ ObservePod \/ MonitorFails \/ ArmCollector \/ StartCollector
           \/ ReleaseGate \/ GateRefused \/ GateRetry
    PROVE  TypeOK'
  <1> USE CoordinatorAssumption DEF TypeOK, GoTo, Save, Keep, Return, ghosts, kubeVars, fileVars, procVars
  <1>1. CASE MonitorTop
    <2>1. [mem EXCEPT !.cancel = TRUE] \in Ledger
      BY LedgerCancel
    <2>8. mem' \in Ledger /\ disk' \in Ledger
      BY <1>1, <2>1 DEF MonitorTop
    <2>9. proc' \in Points /\ retry' \in BOOLEAN /\ failed' \in BOOLEAN
      BY <1>1 DEF MonitorTop, Points
    <2> QED
      BY <1>1, <2>8, <2>9 DEF MonitorTop
  <1>2. CASE ObservePod
    <2>1. ASSUME NEW b \in BOOLEAN
          PROVE  [mem EXCEPT !.phase = "collecting", !.exit = @ \/ b] \in Ledger
      BY <2>1, ZenonT(60) DEF Ledger, PhaseNames
    <2>2. [mem EXCEPT !.uid["pod"] = api["pod"].uid] \in Ledger
      BY LedgerUid DEF Obj
    <2>3. mem' \in Ledger /\ disk' \in Ledger
      BY <1>2, <2>1, <2>2 DEF ObservePod, Terminal
    <2>4. proc' \in Points /\ retry' \in BOOLEAN /\ failed' \in BOOLEAN
      BY <1>2 DEF ObservePod, Terminal, Points
    <2> QED
      BY <1>2, <2>3, <2>4 DEF ObservePod
  <1>3. CASE MonitorFails
    BY <1>3, ZenonT(60) DEF MonitorFails, Points
  <1>4. CASE ArmCollector
    <2>1. [mem EXCEPT !.armed = TRUE] \in Ledger
      BY DEF Ledger
    <2> QED
      BY <1>4, <2>1 DEF ArmCollector, Points
  <1>5. CASE StartCollector
    BY <1>5 DEF StartCollector
  <1>6. CASE ReleaseGate
    <2>1. mem.uid["pod"] \in 0..MaxUid
      BY DEF Ledger, Obj
    <2> QED
      BY <1>6, <2>1 DEF ReleaseGate, Points
  <1>7. CASE GateRefused
    BY <1>7, ZenonT(60) DEF GateRefused, Points
  <1>8. CASE GateRetry
    BY <1>8 DEF GateRetry, Points
  <1> QED
    BY <1>1, <1>2, <1>3, <1>4, <1>5, <1>6, <1>7, <1>8

\* finishCollection: the staging data and the collector's result.
LEMMA CollectedType ==
    ASSUME TypeOK, NEW l \in Ledger, NEW again \in BOOLEAN, Collected(l, again)
    PROVE  /\ mem' \in Ledger /\ disk' \in Ledger
           /\ proc' \in Points /\ retry' \in BOOLEAN /\ failed' \in BOOLEAN
  <1>1. [l EXCEPT !.phase = "collecting"] \in Ledger /\ [l EXCEPT !.phase = "disposing"] \in Ledger
    BY LedgerPhase DEF PhaseNames
  <1>2. mem' \in Ledger /\ disk' \in Ledger
    BY <1>1 DEF Collected, Return, Save, GoTo
  <1>3. proc' \in Points /\ retry' \in BOOLEAN /\ failed' \in BOOLEAN
    BY DEF TypeOK, Collected, Return, Save, GoTo, Points
  <1> QED
    BY <1>2, <1>3

LEMMA StageLedgerType ==
    ASSUME TypeOK, NEW l \in Ledger
    PROVE  StageLedger(l) \in Ledger
  <1>1. stage.version \in Version /\ stage.evidence \in {"none", "valid", "invalid", "garbled"}
    BY DEF TypeOK
  <1> DEFINE g == [l EXCEPT !.guard = IF stage.version = 0 THEN @ ELSE stage.version]
  <1>2. g \in Ledger
    BY <1>1 DEF Ledger
  <1> HIDE DEF g
  <1>3. /\ \A e \in {"missing", "rejected", "conflict"} : [g EXCEPT !.evidence = e] \in Ledger
        /\ [g EXCEPT !.evidence = "accepted", !.digest = stage.version] \in Ledger
    <2>1. ASSUME NEW e \in {"missing", "rejected", "conflict"}
          PROVE  [g EXCEPT !.evidence = e] \in Ledger
      BY <1>2 DEF Ledger
    <2>2. [g EXCEPT !.evidence = "accepted", !.digest = stage.version] \in Ledger
      BY <1>1, <1>2 DEF Ledger
    <2> QED
      BY <2>1, <2>2
  <1>4. StageLedger(l) = CASE stage.evidence = "none"    -> [g EXCEPT !.evidence = "missing"]
          [] stage.evidence = "invalid" -> [g EXCEPT !.evidence = "rejected"]
          [] stage.evidence = "garbled" -> l
          [] stage.evidence = "valid" /\ l.digest \notin {0, stage.version} ->
                [g EXCEPT !.evidence = "conflict"]
          [] OTHER -> [g EXCEPT !.evidence = "accepted", !.digest = stage.version]
    BY DEF StageLedger, g
  <1> QED
    BY <1>1, <1>3, <1>4

LEMMA CollectType ==
    ASSUME TypeOK,
           CollectStage \/ StageFails \/ TransferLogs \/ CollectLogs \/ LogsPending \/ LogsFail
    PROVE  TypeOK'
  <1> USE CoordinatorAssumption DEF TypeOK, GoTo, Save, Keep, ghosts, kubeVars, fileVars
  <1>1. CASE CollectStage
    <2>1. StageLedger(mem) \in Ledger
      BY StageLedgerType
    <2>2. [mem EXCEPT !.evidence = "missing"] \in Ledger
      BY DEF Ledger
    <2>3. mem' \in Ledger /\ disk' \in Ledger
      BY <1>1, <2>1, <2>2 DEF CollectStage
    <2>4. files' \in [guard : Version, evidence : Version]
      <3>1. StageLedger(mem).digest \in Version /\ stage.version \in Version
        BY <2>1 DEF Ledger
      <3> QED
        BY <1>1, <3>1 DEF CollectStage
    <2>5. proc' \in Points /\ retry' \in BOOLEAN /\ failed' \in BOOLEAN
      BY <1>1 DEF CollectStage, Points
    <2> QED
      BY <1>1, <2>3, <2>4, <2>5 DEF CollectStage
  <1>2. CASE StageFails
    <2>1. stage.version \in Version /\ files.guard \in Version /\ files.evidence \in Version
      OBVIOUS
    <2>2. [mem EXCEPT !.guard = stage.version] \in Ledger
      BY <2>1 DEF Ledger
    <2>3. mem' \in Ledger /\ disk' \in Ledger
      BY <1>2, <2>2 DEF StageFails
    <2>4. files' \in [guard : Version, evidence : Version]
      BY <1>2, <2>1 DEF StageFails
    <2> QED
      BY <1>2, <2>3, <2>4 DEF StageFails, Points
  <1>3. CASE TransferLogs
    <2>1. collector \in {"complete", "gap"}
      BY <1>3 DEF TransferLogs
    <2>2. [mem EXCEPT !.collected = TRUE, !.logs = collector] \in Ledger
      BY <2>1 DEF Ledger
    <2> QED
      BY <1>3, <2>2 DEF TransferLogs, Points
  <1>4. CASE CollectLogs
    <2>1. [mem EXCEPT !.logs = "missing"] \in Ledger
      BY DEF Ledger
    <2>2. /\ mem' \in Ledger /\ disk' \in Ledger
          /\ proc' \in Points /\ retry' \in BOOLEAN /\ failed' \in BOOLEAN
      BY <1>4, <2>1, CollectedType DEF CollectLogs
    <2> QED
      BY <1>4, <2>2 DEF CollectLogs
  <1>5. CASE LogsPending
    BY <1>5, CollectedType DEF LogsPending
  <1>6. CASE LogsFail
    BY <1>6, CollectedType, ZenonT(60) DEF LogsFail
  <1> QED
    BY <1>1, <1>2, <1>3, <1>4, <1>5, <1>6

\* finishDisposal: one object after the other.
LEMMA SettledType ==
    ASSUME TypeOK, NEW p \in DisposePoints, NEW ok \in BOOLEAN, Settled(p, ok)
    PROVE  /\ mem' \in Ledger /\ disk' \in Ledger
           /\ proc' \in Points /\ retry' \in BOOLEAN /\ failed' \in BOOLEAN
  <1> DEFINE l == [mem EXCEPT !.absent[Target(p)] = ok]
  <1>1. Target(p) \in Disposable
    BY DEF Target, DisposePoints, Disposable
  <1>2. l \in Ledger
    BY <1>1, LedgerAbsent DEF TypeOK
  <1>3. [l EXCEPT !.phase = "complete"] \in Ledger
    BY <1>2, LedgerPhase DEF PhaseNames
  <1> HIDE DEF l
  <1>4. \/ /\ mem' = l /\ disk' = disk /\ proc' = NextTarget(p) /\ p # "delRole"
           /\ failed' = (failed \/ ~ok) /\ retry' = retry
        \/ mem' = l /\ disk' = l /\ proc' = "down" /\ retry' = FALSE /\ failed' = FALSE
        \/ /\ mem' = [l EXCEPT !.phase = "complete"] /\ disk' = [l EXCEPT !.phase = "complete"]
           /\ proc' = "publish" /\ retry' = retry /\ failed' = failed
    BY DEF Settled, Return, Save, Keep, GoTo, l
  <1>5. p # "delRole" => NextTarget(p) \in Points
    BY DEF NextTarget, DisposePoints, Points
  <1>6. mem' \in Ledger /\ disk' \in Ledger
    BY <1>2, <1>3, <1>4 DEF TypeOK
  <1>7. proc' \in Points
    BY <1>4, <1>5 DEF Points
  <1>8. retry' \in BOOLEAN /\ failed' \in BOOLEAN
    BY <1>4, Zenon DEF TypeOK
  <1> QED
    BY <1>6, <1>7, <1>8

\* An accepted delete request marks the object.
LEMMA TermType ==
    ASSUME NEW r \in [uid : 0..MaxUid, owned : BOOLEAN, term : BOOLEAN]
    PROVE  [r EXCEPT !.term = TRUE] \in [uid : 0..MaxUid, owned : BOOLEAN, term : BOOLEAN]
  OBVIOUS

LEMMA DisposeType ==
    ASSUME TypeOK,
           \/ CheckCluster
           \/ \E p \in DisposePoints : DisposeGone(p) \/ Adopt(p) \/ Delete(p) \/ DisposeFails(p)
    PROVE  TypeOK'
  <1> USE CoordinatorAssumption DEF TypeOK, GoTo, Save, Keep, Return, ghosts, kubeVars, fileVars, procVars
  <1>1. CASE CheckCluster
    <2>1. mem' \in Ledger /\ disk' \in Ledger
      BY <1>1 DEF CheckCluster
    <2>2. proc' \in Points /\ retry' \in BOOLEAN /\ failed' \in BOOLEAN
      BY <1>1 DEF CheckCluster, Points
    <2> QED
      BY <1>1, <2>1, <2>2 DEF CheckCluster
  <1>2. ASSUME NEW p \in DisposePoints
        PROVE  Target(p) \in Obj /\ p \in Points
    BY DEF Target, DisposePoints, Obj, Provisioned, Disposable, Points
  <1>3. ASSUME NEW p \in DisposePoints, DisposeGone(p) PROVE TypeOK'
    BY <1>3, SettledType, ZenonT(60) DEF DisposeGone
  <1>4. ASSUME NEW p \in DisposePoints, DisposeFails(p) PROVE TypeOK'
    BY <1>4, SettledType, ZenonT(60) DEF DisposeFails
  <1>5. ASSUME NEW p \in DisposePoints, Adopt(p) PROVE TypeOK'
    <2>1. [mem EXCEPT !.uid[Target(p)] = api[Target(p)].uid] \in Ledger
      BY <1>2, LedgerUid
    <2> QED
      BY <1>2, <1>5, <2>1 DEF Adopt
  <1>6. ASSUME NEW p \in DisposePoints, Delete(p) PROVE TypeOK'
    <2>1. api' \in [Obj -> [uid : 0..MaxUid, owned : BOOLEAN, term : BOOLEAN]]
      <3>1. [api[Target(p)] EXCEPT !.term = TRUE]
               \in [uid : 0..MaxUid, owned : BOOLEAN, term : BOOLEAN]
        BY <1>2, TermType
      <3> QED
        BY <1>2, <1>6, <3>1 DEF Delete
    <2>2. [obj |-> Target(p), uid |-> api[Target(p)].uid, owned |-> api[Target(p)].owned]
             \in [obj : Obj, uid : 0..MaxUid, owned : BOOLEAN]
      BY <1>2
    <2>3. removed' \subseteq [obj : Obj, uid : 0..MaxUid, owned : BOOLEAN]
      BY <1>6, <2>2 DEF Delete
    <2> QED
      BY <1>6, <2>1, <2>3 DEF Delete
  <1> QED
    BY <1>1, <1>3, <1>4, <1>5, <1>6

\* publishObservations.
LEMMA PublishType ==
    ASSUME TypeOK, PublishObservations \/ PublishReady
    PROVE  TypeOK'
  <1> USE DEF TypeOK, Keep, GoTo, Stop, ghosts, kubeVars
  <1>1. mem' \in Ledger /\ disk' \in Ledger /\ obs' \in Ledger /\ ready' \in Ledger
    BY DEF PublishObservations, PublishReady
  <1>2. proc' \in Points /\ retry' \in BOOLEAN /\ failed' \in BOOLEAN
    BY DEF PublishObservations, PublishReady, Points
  <1> QED
    BY <1>1, <1>2 DEF PublishObservations, PublishReady

\* The cluster, the pod, the collector and everybody else.
LEMMA RemoveType ==
    ASSUME TypeOK, NEW o \in Obj, Remove(o)
    PROVE  /\ api' \in [Obj -> [uid : 0..MaxUid, owned : BOOLEAN, term : BOOLEAN]]
           /\ pod' \in {"none", "init", "running", "ended", "aborted"}
           /\ stage' \in [version : Version, evidence : {"none", "valid", "invalid", "garbled"}]
           /\ inflight' \in BOOLEAN
  <1>1. Absent \in [uid : 0..MaxUid, owned : BOOLEAN, term : BOOLEAN]
    BY CoordinatorAssumption DEF Absent
  <1>2. NoData \in [version : Version, evidence : {"none", "valid", "invalid", "garbled"}]
    BY CoordinatorAssumption DEF NoData, Version
  <1>3. api' \in [Obj -> [uid : 0..MaxUid, owned : BOOLEAN, term : BOOLEAN]]
    BY <1>1 DEF TypeOK, Remove
  <1>4. inflight' \in BOOLEAN
    BY Zenon DEF TypeOK, Remove
  <1> QED
    BY <1>2, <1>3, <1>4 DEF TypeOK, Remove

LEMMA ClusterType ==
    ASSUME TypeOK, Cluster
    PROVE  TypeOK'
  <1> USE CoordinatorAssumption DEF TypeOK, ghosts, fileVars, procVars
  <1>1. ASSUME NEW o \in Disposable, Finalised(o) PROVE TypeOK'
    <2>1. o \in Obj
      BY DEF Obj, Provisioned
    <2> QED
      BY <1>1, <2>1, RemoveType DEF Finalised, Remove
  <1>2. CASE LateJob
    <2>1. /\ api' \in [Obj -> [uid : 0..MaxUid, owned : BOOLEAN, term : BOOLEAN]]
          /\ born' \in [Obj -> 0..MaxUid]
      BY <1>2, CreateType DEF LateJob, Obj
    <2>2. inflight' \in BOOLEAN
      BY <1>2 DEF LateJob
    <2> QED
      BY <1>2, <2>1, <2>2 DEF LateJob
  <1>3. CASE PodCreated
    BY <1>3, CreateType DEF PodCreated, Obj
  <1>4. CASE PodMoves
    BY <1>4 DEF PodMoves
  <1>5. CASE GuardStages
    <2>1. writes + 1 \in Version
      BY <1>5 DEF GuardStages, Version
    <2> QED
      BY <1>5, <2>1 DEF GuardStages
  <1>6. CASE GuardCleans
    <2>1. [api["resource"] EXCEPT !.term = TRUE]
             \in [uid : 0..MaxUid, owned : BOOLEAN, term : BOOLEAN]
      BY TermType DEF Obj, Provisioned, Disposable
    <2>2. api' \in [Obj -> [uid : 0..MaxUid, owned : BOOLEAN, term : BOOLEAN]]
      BY <1>6, <2>1 DEF GuardCleans
    <2> QED
      BY <1>6, <2>2 DEF GuardCleans
  <1>7. CASE CollectorEnds
    BY <1>7 DEF CollectorEnds
  <1> QED
    BY <1>1, <1>2, <1>3, <1>4, <1>5, <1>6, <1>7 DEF Cluster

LEMMA OthersType ==
    ASSUME TypeOK, Others
    PROVE  TypeOK'
  <1> USE CoordinatorAssumption DEF TypeOK, ghosts, fileVars, procVars
  <1>1. CASE RequestCancel
    BY <1>1, ResumeType
  <1>2. CASE ClusterReplaced
    <2>1. Absent \in [uid : 0..MaxUid, owned : BOOLEAN, term : BOOLEAN]
      BY DEF Absent
    <2>2. NoData \in [version : Version, evidence : {"none", "valid", "invalid", "garbled"}]
      BY DEF NoData, Version
    <2>3. api' \in [Obj -> [uid : 0..MaxUid, owned : BOOLEAN, term : BOOLEAN]]
      BY <1>2, <2>1 DEF ClusterReplaced
    <2>4. inflight' \in BOOLEAN
      BY <1>2 DEF ClusterReplaced
    <2>5. tampers' \in 0..MaxTampers
      BY <1>2 DEF ClusterReplaced
    <2> QED
      BY <1>2, <2>2, <2>3, <2>4, <2>5 DEF ClusterReplaced
  <1>3. CASE CollectorLost
    BY <1>3 DEF CollectorLost
  <1>4. ASSUME NEW o \in Tampered \cap Obj, Vanish(o) PROVE TypeOK'
    BY <1>4, RemoveType DEF Vanish, Remove
  <1>5. ASSUME NEW o \in Tampered \cap Obj, ForeignCreate(o) PROVE TypeOK'
    <2>1. born[o] \in 0..MaxUid /\ born[o] + 1 \in 0..MaxUid
      BY <1>5 DEF ForeignCreate, CanCreate
    <2>2. [uid |-> born[o] + 1, owned |-> FALSE, term |-> FALSE]
             \in [uid : 0..MaxUid, owned : BOOLEAN, term : BOOLEAN]
      BY <2>1
    <2>3. /\ api' \in [Obj -> [uid : 0..MaxUid, owned : BOOLEAN, term : BOOLEAN]]
          /\ born' \in [Obj -> 0..MaxUid]
      BY <1>5, <2>1, <2>2 DEF ForeignCreate
    <2> QED
      BY <1>5, <2>3 DEF ForeignCreate
  <1> QED
    BY <1>1, <1>2, <1>3, <1>4, <1>5 DEF Others

LEMMA NextType == TypeOK /\ [Next]_vars => TypeOK'
  <1> SUFFICES ASSUME TypeOK, [Next]_vars PROVE TypeOK'
    OBVIOUS
  <1>1. CASE Provisioning
    BY <1>1, ResumeType, ProvisionType, CreateJobType DEF Provisioning
  <1>2. CASE Monitoring
    BY <1>2, MonitorType DEF Monitoring
  <1>3. CASE Closing
    BY <1>3, CollectType, DisposeType, PublishType DEF Closing
  <1>4. CASE Faults
    BY <1>4, ResumeType, ProvisionType, CreateJobType, MonitorType, CollectType, DisposeType DEF Faults
  <1>5. CASE Cluster
    BY <1>5, ClusterType
  <1>6. CASE Others
    BY <1>6, OthersType
  <1>7. CASE UNCHANGED vars
    BY <1>7 DEF vars, TypeOK, ghosts, fileVars, procVars, kubeVars
  <1> QED
    BY <1>1, <1>2, <1>3, <1>4, <1>5, <1>6, <1>7 DEF Next, Steady

\* The process, the ledger, the files and the cluster stay within their types,
\* for any number of UIDs, tampering steps and staging patches.
THEOREM TypeCorrect == Spec => []TypeOK
  <1>1. Init => TypeOK
    BY InitType
  <1>2. TypeOK /\ [Next]_vars => TypeOK'
    BY NextType
  <1> QED
    BY <1>1, <1>2, PTL DEF Spec

----------------------------------------------------------------------------
(* One launch *)

\* the points at which a launch may still lie ahead
BeforeLaunch == Provisioned \cup {"provision", "launch", "intent"}

\* The launch attempt is on disk whenever a request was sent or is about to be;
\* memory and disk never disagree about it; and provisioning is only ever entered,
\* or continued, by a process that has read or written that it is not set.
LaunchInv ==
    /\ mem.launched = disk.launched
    /\ mem.phase = "none" \/ disk.phase = "none" => ~disk.launched
    /\ proc \in BeforeLaunch => ~disk.launched
    /\ proc = "create" => disk.launched /\ launches = 0
    /\ launches > 0 => disk.launched
    /\ launches <= 1

\* What every step but the launch itself does to the variables LaunchInv is about.
Quiet ==
    /\ launches' = launches
    /\ mem'.launched = disk.launched /\ disk'.launched = disk.launched
    /\ mem'.phase = "none" \/ disk'.phase = "none" => mem.phase = "none" \/ disk.phase = "none"
    /\ proc' \in BeforeLaunch => ~disk.launched
    /\ proc' # "create" \/ proc' = proc

LEMMA QuietLaunchInv ==
    ASSUME TypeOK, LaunchInv, Quiet
    PROVE  LaunchInv'
  BY DEF TypeOK, LaunchInv, Quiet

\* Updating other fields keeps phase and launched.
LEMMA KeptFields ==
    ASSUME NEW l \in Ledger
    PROVE  /\ \A o, u : /\ [l EXCEPT !.uid[o] = u].launched = l.launched
                        /\ [l EXCEPT !.uid[o] = u].phase = l.phase
           /\ \A c : /\ [l EXCEPT !.cluster = c].launched = l.launched
                     /\ [l EXCEPT !.cluster = c].phase = l.phase
           /\ \A b : /\ [l EXCEPT !.cancel = b].launched = l.launched
                     /\ [l EXCEPT !.cancel = b].phase = l.phase
           /\ \A o, b : /\ [l EXCEPT !.absent[o] = b].launched = l.launched
                        /\ [l EXCEPT !.absent[o] = b].phase = l.phase
           /\ \A p : /\ [l EXCEPT !.phase = p].launched = l.launched
                     /\ [l EXCEPT !.phase = p].phase = p
  BY DEF Ledger

LEMMA ProvisioningLaunch ==
    ASSUME TypeOK, LaunchInv,
           \/ FindJob \/ PinCluster \/ ProvisionFails \/ Launch
           \/ \E o \in Provisioned : Ensure(o) \/ EnsureUnrecorded(o)
    PROVE  Quiet
  <1> USE DEF LaunchInv, Quiet, GoTo, Save, Keep, Stop, Return, ghosts, BeforeLaunch, Provisioned, Disposable
  <1>1. mem \in Ledger /\ disk \in Ledger
    BY DEF TypeOK
  <1>2. CASE FindJob
    BY <1>1, <1>2, ZenonT(60) DEF FindJob, Ledger
  <1>3. CASE PinCluster
    BY <1>1, <1>3, KeptFields DEF PinCluster
  <1>4. CASE ProvisionFails
    <2>1. /\ [mem EXCEPT !.cancel = TRUE].launched = mem.launched
          /\ [mem EXCEPT !.cancel = TRUE].phase = mem.phase
      BY <1>1, KeptFields
    <2> QED
      BY <1>4, <2>1 DEF ProvisionFails
  <1>5. CASE Launch
    BY <1>1, <1>5 DEF Launch, Ledger
  <1>6. ASSUME NEW o \in Provisioned, Ensure(o) PROVE Quiet
    <2> DEFINE l == [mem EXCEPT !.uid[o] = api'[o].uid]
    <2>1. l.launched = mem.launched /\ l.phase = mem.phase
      BY <1>1, KeptFields
    <2>2. After(o) # "create"
      BY DEF After
    <2> HIDE DEF l
    <2>3. /\ mem' = l /\ disk' \in {l, disk} /\ proc = o /\ proc' = After(o)
          /\ launches' = launches
      BY <1>6 DEF Ensure, l
    <2> QED
      BY <2>1, <2>2, <2>3
  <1>7. ASSUME NEW o \in Provisioned, EnsureUnrecorded(o) PROVE Quiet
    BY <1>1, <1>7 DEF EnsureUnrecorded
  <1> QED
    BY <1>2, <1>3, <1>4, <1>5, <1>6, <1>7

LEMMA MonitoringLaunch ==
    ASSUME TypeOK, LaunchInv,
           \/ MonitorTop \/ ObservePod \/ MonitorFails \/ ArmCollector \/ StartCollector
           \/ ReleaseGate \/ GateRefused \/ GateRetry
    PROVE  Quiet
  <1> USE DEF LaunchInv, Quiet, GoTo, Save, Keep, Return, ghosts, procVars, BeforeLaunch, Provisioned, Disposable
  <1>1. mem \in Ledger /\ disk \in Ledger
    BY DEF TypeOK
  <1>2. CASE MonitorTop
    <2>1. /\ [mem EXCEPT !.cancel = TRUE].launched = mem.launched
          /\ [mem EXCEPT !.cancel = TRUE].phase = mem.phase
      BY <1>1, KeptFields
    <2> QED
      BY <1>2, <2>1 DEF MonitorTop
  <1>3. CASE ObservePod
    <2>1. ASSUME NEW b \in BOOLEAN
          PROVE  /\ [mem EXCEPT !.phase = "collecting", !.exit = @ \/ b].launched = mem.launched
                 /\ [mem EXCEPT !.phase = "collecting", !.exit = @ \/ b].phase = "collecting"
      BY <1>1 DEF Ledger
    <2>2. /\ [mem EXCEPT !.uid["pod"] = api["pod"].uid].launched = mem.launched
          /\ [mem EXCEPT !.uid["pod"] = api["pod"].uid].phase = mem.phase
      BY <1>1, KeptFields
    <2> QED
      BY <1>3, <2>1, <2>2 DEF ObservePod, Terminal
  <1>4. CASE MonitorFails
    BY <1>4 DEF MonitorFails
  <1>5. CASE ArmCollector
    <2>1. /\ [mem EXCEPT !.armed = TRUE].launched = mem.launched
          /\ [mem EXCEPT !.armed = TRUE].phase = mem.phase
      BY <1>1 DEF Ledger
    <2> QED
      BY <1>5, <2>1 DEF ArmCollector
  <1>6. CASE StartCollector
    BY <1>6 DEF StartCollector
  <1>7. CASE ReleaseGate
    BY <1>7 DEF ReleaseGate
  <1>8. CASE GateRefused
    BY <1>8 DEF GateRefused
  <1>9. CASE GateRetry
    BY <1>9 DEF GateRetry
  <1> QED
    BY <1>2, <1>3, <1>4, <1>5, <1>6, <1>7, <1>8, <1>9

LEMMA CollectedLaunch ==
    ASSUME TypeOK, LaunchInv, NEW l \in Ledger, l.launched = mem.launched,
           NEW again, Collected(l, again), launches' = launches
    PROVE  Quiet
  <1> DEFINE stay == [l EXCEPT !.phase = "collecting"]
             on   == [l EXCEPT !.phase = "disposing"]
  <1>1. /\ stay.launched = mem.launched /\ stay.phase = "collecting"
        /\ on.launched = mem.launched /\ on.phase = "disposing"
    BY KeptFields
  <1> HIDE DEF stay, on
  <1>2. \/ mem' = stay /\ disk' = stay /\ proc' = "down"
        \/ mem' = on /\ disk' = on /\ proc' = "dispose"
    BY DEF Collected, GoTo, Save, Return, stay, on
  <1> QED
    BY <1>1, <1>2 DEF LaunchInv, Quiet, BeforeLaunch, Provisioned, Disposable

LEMMA CollectingLaunch ==
    ASSUME TypeOK, LaunchInv,
           CollectStage \/ StageFails \/ TransferLogs \/ CollectLogs \/ LogsPending \/ LogsFail
    PROVE  Quiet
  <1> USE DEF LaunchInv, Quiet, GoTo, Save, Keep, ghosts, BeforeLaunch, Provisioned, Disposable
  <1>1. mem \in Ledger /\ disk \in Ledger
    BY DEF TypeOK
  <1>2. CASE CollectStage
    <2>1. StageLedger(mem).launched = mem.launched /\ StageLedger(mem).phase = mem.phase
      BY <1>1 DEF StageLedger, Ledger
    <2>2. /\ [mem EXCEPT !.evidence = "missing"].launched = mem.launched
          /\ [mem EXCEPT !.evidence = "missing"].phase = mem.phase
      BY <1>1 DEF Ledger
    <2> QED
      BY <1>2, <2>1, <2>2 DEF CollectStage
  <1>3. CASE StageFails
    <2>1. /\ [mem EXCEPT !.guard = stage.version].launched = mem.launched
          /\ [mem EXCEPT !.guard = stage.version].phase = mem.phase
      BY <1>1 DEF Ledger
    <2> QED
      BY <1>3, <2>1 DEF StageFails
  <1>4. CASE TransferLogs
    <2>1. /\ [mem EXCEPT !.collected = TRUE, !.logs = collector].launched = mem.launched
          /\ [mem EXCEPT !.collected = TRUE, !.logs = collector].phase = mem.phase
      BY <1>1 DEF Ledger
    <2> QED
      BY <1>4, <2>1 DEF TransferLogs
  <1>5. CASE CollectLogs
    <2>1. /\ [mem EXCEPT !.logs = "missing"] \in Ledger
          /\ [mem EXCEPT !.logs = "missing"].launched = mem.launched
      BY <1>1 DEF Ledger
    <2>2. launches' = launches
      BY <1>5 DEF CollectLogs
    <2> QED
      BY <1>1, <1>5, <2>1, <2>2, CollectedLaunch DEF CollectLogs
  <1>6. CASE LogsPending
    BY <1>1, <1>6, CollectedLaunch DEF LogsPending
  <1>7. CASE LogsFail
    BY <1>1, <1>7, CollectedLaunch DEF LogsFail
  <1> QED
    BY <1>2, <1>3, <1>4, <1>5, <1>6, <1>7

LEMMA SettledLaunch ==
    ASSUME TypeOK, LaunchInv, NEW p \in DisposePoints, NEW ok \in BOOLEAN,
           Settled(p, ok), launches' = launches
    PROVE  Quiet
  <1> DEFINE l == [mem EXCEPT !.absent[Target(p)] = ok]
  <1>1. Target(p) \in Disposable
    BY DEF Target, DisposePoints, Disposable
  <1>2. l \in Ledger /\ l.launched = mem.launched /\ l.phase = mem.phase
    BY <1>1, LedgerAbsent, KeptFields DEF TypeOK
  <1> DEFINE done == [l EXCEPT !.phase = "complete"]
  <1>3. done.launched = mem.launched /\ done.phase = "complete"
    BY <1>2, KeptFields
  <1> HIDE DEF l
  <1>4. p # "delRole" => NextTarget(p) \in DisposePoints
    BY DEF NextTarget, DisposePoints
  <1> HIDE DEF done
  <1>5. \/ mem' = l /\ disk' = disk /\ proc' = NextTarget(p) /\ p # "delRole"
        \/ mem' = l /\ disk' = l /\ proc' = "down"
        \/ mem' = done /\ disk' = done /\ proc' = "publish"
    BY DEF Settled, Return, Save, Keep, GoTo, l, done
  <1>6. proc' \notin BeforeLaunch \cup {"create"}
    BY <1>4, <1>5 DEF BeforeLaunch, Provisioned, Disposable, DisposePoints
  <1> QED
    BY <1>2, <1>3, <1>5, <1>6 DEF LaunchInv, Quiet

LEMMA DisposingLaunch ==
    ASSUME TypeOK, LaunchInv,
           \/ CheckCluster \/ PublishObservations \/ PublishReady
           \/ \E p \in DisposePoints : DisposeGone(p) \/ Adopt(p) \/ Delete(p) \/ DisposeFails(p)
    PROVE  Quiet
  <1> USE DEF LaunchInv, Quiet, GoTo, Save, Keep, Return, Stop, ghosts, procVars, BeforeLaunch, Provisioned, Disposable
  <1>1. mem \in Ledger /\ disk \in Ledger
    BY DEF TypeOK
  <1>2. CASE CheckCluster
    BY <1>2 DEF CheckCluster
  <1>3. CASE PublishObservations
    BY <1>3 DEF PublishObservations
  <1>4. CASE PublishReady
    BY <1>4 DEF PublishReady
  <1>5. ASSUME NEW p \in DisposePoints, DisposeGone(p) PROVE Quiet
    BY <1>5, SettledLaunch DEF DisposeGone
  <1>6. ASSUME NEW p \in DisposePoints, DisposeFails(p) PROVE Quiet
    BY <1>6, SettledLaunch DEF DisposeFails
  <1>7. ASSUME NEW p \in DisposePoints, Adopt(p) PROVE Quiet
    BY <1>1, <1>7, KeptFields DEF Adopt, DisposePoints
  <1>8. ASSUME NEW p \in DisposePoints, Delete(p) PROVE Quiet
    BY <1>8 DEF Delete
  <1> QED
    BY <1>2, <1>3, <1>4, <1>5, <1>6, <1>7, <1>8

LEMMA EnvironmentLaunch ==
    ASSUME TypeOK, LaunchInv, Cluster \/ Others \/ UNCHANGED vars
    PROVE  Quiet
  <1>1. UNCHANGED <<procVars, launches>>
    BY DEF Cluster, Others, Finalised, LateJob, PodCreated, PodMoves, GuardStages,
           GuardCleans, CollectorEnds, RequestCancel, ClusterReplaced, CollectorLost,
           Vanish, ForeignCreate, vars, ghosts
  <1> QED
    BY <1>1 DEF procVars, LaunchInv, Quiet

LEMMA NextLaunch == TypeOK /\ LaunchInv /\ [Next]_vars => LaunchInv'
  <1> SUFFICES ASSUME TypeOK, LaunchInv, [Next]_vars PROVE LaunchInv'
    OBVIOUS
  <1> USE DEF LaunchInv, GoTo, Save, Keep, Stop, Return, ghosts, BeforeLaunch, Provisioned, Disposable
  <1>1. mem \in Ledger /\ disk \in Ledger /\ launches \in Nat
    BY DEF TypeOK
  <1>2. CASE Start
    BY <1>1, <1>2 DEF Start, NewLedger
  <1>3. CASE Collect
    <2>1. CASE disk.phase = "complete" /\ Keep(disk) /\ GoTo("publish")
      BY <1>1, <1>3, <2>1 DEF Collect
    <2>2. CASE disk.phase # "complete"
      <3> DEFINE pinned == [disk EXCEPT !.cluster = cluster]
      <3>1. pinned \in Ledger /\ pinned.launched = disk.launched /\ pinned.phase = disk.phase
        BY <1>1, LedgerCluster, KeptFields, ZenonT(60) DEF TypeOK
      <3>2. ASSUME NEW b PROVE /\ [pinned EXCEPT !.cancel = b].launched = disk.launched
                               /\ [pinned EXCEPT !.cancel = b].phase = disk.phase
        BY <3>1, KeptFields
      <3>3. Resume(pinned) \in {"dispose", "stageCM", "findJob", "monitor"}
        BY DEF Resume
      <3> HIDE DEF pinned
      <3>4. /\ disk' = pinned /\ mem' = [pinned EXCEPT !.cancel = @ \/ cancelFile]
            /\ proc' = Resume(pinned) /\ launches' = launches
        BY <1>3, <2>2 DEF Collect, pinned
      <3> QED
        BY <3>1, <3>2, <3>3, <3>4
    <2> QED
      BY <1>3, <2>1, <2>2 DEF Collect
  <1>4. CASE Crash
    BY <1>1, <1>4 DEF Crash
  <1>5. CASE RecordLaunch
    <2>1. /\ [mem EXCEPT !.launched = TRUE, !.phase = "launching"].launched
          /\ [mem EXCEPT !.launched = TRUE, !.phase = "launching"].phase = "launching"
      BY <1>1 DEF Ledger
    <2> QED
      BY <1>1, <1>5, <2>1 DEF RecordLaunch
  <1>6. CASE CreateJob
    <2> DEFINE l == [mem EXCEPT !.uid["job"] = api'["job"].uid, !.phase = "running"]
    <2>1. l.launched = mem.launched /\ l.phase = "running"
      BY <1>1 DEF Ledger
    <2> HIDE DEF l
    <2>2. /\ mem' = l /\ disk' = l /\ proc = "create" /\ proc' = "monitor"
          /\ launches' = launches + 1
      BY <1>6 DEF CreateJob, l
    <2> QED
      BY <1>1, <2>1, <2>2
  <1>7. CASE CreateJobUnrecorded
    <2>1. /\ [mem EXCEPT !.cancel = TRUE].launched = mem.launched
          /\ [mem EXCEPT !.cancel = TRUE].phase = mem.phase
      BY <1>1, KeptFields
    <2> DEFINE l == [mem EXCEPT !.cancel = TRUE]
    <2> HIDE DEF l
    <2>2. /\ proc = "create" /\ proc' = "down" /\ launches' = launches + 1
          /\ (mem' = disk /\ disk' = disk) \/ (mem' = l /\ disk' = l)
      BY <1>7 DEF CreateJobUnrecorded, l
    <2>3. l.launched = mem.launched /\ l.phase = mem.phase
      BY <2>1 DEF l
    <2> QED
      BY <1>1, <2>2, <2>3
  <1>8. CASE FindJob \/ PinCluster \/ ProvisionFails \/ Launch
             \/ \E o \in Provisioned : Ensure(o) \/ EnsureUnrecorded(o)
    BY <1>8, ProvisioningLaunch, QuietLaunchInv
  <1>9. CASE Monitoring \/ MonitorFails \/ GateRetry
    BY <1>9, MonitoringLaunch, QuietLaunchInv DEF Monitoring
  <1>10. CASE Closing \/ StageFails \/ LogsFail \/ \E p \in DisposePoints : DisposeFails(p)
    BY <1>10, CollectingLaunch, DisposingLaunch, QuietLaunchInv DEF Closing
  <1>11. CASE Cluster \/ Others \/ UNCHANGED vars
    BY <1>11, EnvironmentLaunch, QuietLaunchInv
  <1> QED
    BY <1>2, <1>3, <1>4, <1>5, <1>6, <1>7, <1>8, <1>9, <1>10, <1>11
    DEF Next, Steady, Provisioning, Faults

\* However often the process dies around the launch, whatever answers are lost and
\* whoever tampers with the cluster, at most one Job create request is ever sent.
THEOREM LaunchOnce == Spec => []LaunchedAtMostOnce
  <1>1. Init => LaunchInv
    BY DEF Init, LaunchInv, NoLedger, NewLedger, BeforeLaunch, Provisioned, Disposable
  <1>2. TypeOK /\ LaunchInv /\ [Next]_vars => LaunchInv'
    BY NextLaunch
  <1>3. LaunchInv => LaunchedAtMostOnce
    BY DEF LaunchInv, LaunchedAtMostOnce
  <1> QED
    BY <1>1, <1>2, <1>3, TypeCorrect, PTL DEF Spec
====
