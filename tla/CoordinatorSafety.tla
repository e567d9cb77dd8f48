-------------------------- MODULE CoordinatorSafety --------------------------
(***************************************************************************)
(* The safety properties of Coordinator, for every number of UIDs, hostile  *)
(* steps and staging patches.  One inductive invariant, SInv, carries them: *)
(* what the process's copy of the ledger and run.json may differ in, which   *)
(* phase goes with which point of the process, and what the ledger's UIDs,   *)
(* digests and absences say about the cluster and the files.                *)
(***************************************************************************)
EXTENDS CoordinatorProofs

----------------------------------------------------------------------------
(* The inductive invariant *)

\* Only the ClusterRole's UID is ever ahead of the disk, until the binding's is
\* saved; a UID on disk is never lost from memory.
Synced ==
    /\ proc = "down" => mem = disk
    /\ mem.phase = disk.phase /\ mem.armed = disk.armed
    /\ \A o \in Obj : disk.uid[o] # 0 => mem.uid[o] = disk.uid[o]
    /\ \A o \in Obj \ {"role"} : mem.uid[o] = disk.uid[o]
    /\ proc # "binding" => mem.uid = disk.uid

EarlyPoints == BeforeLaunch \cup {"create", "findJob", "monitor", "observe", "gate"}

\* The phase on disk tells how far the process is.
Phased ==
    /\ disk.phase = "none" => proc = "down" /\ disk = NoLedger
    /\ proc \in EarlyPoints => disk.phase \in {"provisioning", "launching", "running"}
    /\ proc \in {"stageCM", "logs"} => disk.phase = "collecting"
    /\ proc \in DisposePoints \cup {"dispose"} => disk.phase = "disposing"
    /\ proc \in {"publish", "mark"} => disk.phase = "complete" /\ mem = disk

Published ==
    /\ obs # NoLedger => obs = disk /\ disk.phase = "complete"
    /\ proc = "mark" => obs = disk
    /\ ready # NoLedger => ready = disk /\ obs = disk

\* the objects provision has recorded when it reaches p
RecordedAt(p) ==
    CASE p = "resource" -> {"runner"}
      [] p = "stage"    -> {"runner", "resource"}
      [] p = "role"     -> {"runner", "resource", "stage"}
      [] p = "binding"  -> {"runner", "resource", "stage", "role"}
      [] p \in {"launch", "intent"} -> Provisioned
      [] OTHER -> {}

\* A launch attempt has every provisioned UID on disk, a collector request all of
\* them; an owned Job means a launch attempt.
Bound ==
    /\ \A o \in RecordedAt(proc) : mem.uid[o] # 0
    /\ disk.launched => \A o \in Provisioned : disk.uid[o] # 0
    /\ Ours("job") \/ inflight \/ disk.uid["job"] # 0 => disk.launched
    /\ proc \in {"create", "findJob"} => disk.uid["job"] = 0
    /\ proc \in {"monitor", "observe", "gate"} => disk.uid["job"] # 0
    /\ proc = "gate" => disk.uid["pod"] # 0
    /\ disk.armed => disk.uid["job"] # 0 /\ disk.uid["pod"] # 0

Gated == gate # 0 => disk.uid["pod"] = gate /\ disk.armed /\ collector # "idle"

Owned ==
    \A r \in removed :
       r.owned /\ r.obj \in Disposable /\ r.uid # 0 /\ disk.uid[r.obj] = r.uid

\* Patches are numbered in the order they are made and files are written in that
\* order; accepted evidence is on file under its digest.
Kept ==
    /\ stage.version \in {0, writes} /\ files.guard <= writes
    /\ stage.evidence # "none" => stage.version # 0
    /\ \A l \in {mem, disk} :
          /\ l.guard <= files.guard
          /\ l.evidence = "accepted" => l.digest # 0
          /\ l.digest # 0 => files.evidence = l.digest
    /\ disk.digest # 0 => mem.digest = disk.digest

\* UIDs are never used twice, and nothing survives its namespace.
Fresh ==
    /\ \A o \in Obj : api[o].uid <= born[o] /\ mem.uid[o] <= born[o]
    /\ ~Exists("runner") => \A o \in InRunner : ~Exists(o)

\* what a recorded absence of o means: the run's own object is gone for good,
\* the runner namespace with everything in it
AbsentIsGone(l, o) ==
    /\ l.phase \in {"disposing", "complete"}
    /\ ~Ours(o)
    /\ l.uid[o] # 0 => api[o].uid # l.uid[o]
    /\ o = "runner" => \A i \in {"job", "pod"} : l.uid[i] # 0 => api[i].uid # l.uid[i]
    /\ o = "runner" /\ "runner" \notin Tampered => ~Exists("runner")

\* the objects dispose has settled when it reaches p
SettledAt(p) ==
    CASE p = "delRunner"  -> {"resource"}
      [] p = "delBinding" -> {"resource", "runner"}
      [] p = "delRole"    -> {"resource", "runner", "binding"}
      [] OTHER -> {}

Gone ==
    /\ \A l \in {mem, disk}, o \in Disposable : l.absent[o] => AbsentIsGone(l, o)
    /\ ~failed => \A o \in SettledAt(proc) : mem.absent[o]
    /\ disk.phase = "complete" => \A o \in Disposable : disk.absent[o]

SInv == Synced /\ Phased /\ Published /\ Bound /\ Gated /\ Owned /\ Kept /\ Fresh /\ Gone

----------------------------------------------------------------------------
(* What an update of the ledger leaves alone *)

SameIds(l, k)   == l.uid = k.uid /\ l.armed = k.armed /\ l.launched = k.launched
SameDocs(l, k)  == l.evidence = k.evidence /\ l.digest = k.digest /\ l.guard = k.guard
SamePlace(l, k) == l.phase = k.phase /\ l.absent = k.absent
Alike(l, k)     == SameIds(l, k) /\ SameDocs(l, k) /\ SamePlace(l, k)

LEMMA ClusterField ==
    ASSUME NEW l \in Ledger, NEW c PROVE Alike([l EXCEPT !.cluster = c], l)
  BY DEF Ledger, Alike, SameIds, SameDocs, SamePlace

LEMMA CancelField ==
    ASSUME NEW l \in Ledger, NEW b PROVE Alike([l EXCEPT !.cancel = b], l)
  BY DEF Ledger, Alike, SameIds, SameDocs, SamePlace

LEMMA LogsFields ==
    ASSUME NEW l \in Ledger, NEW v
    PROVE  /\ Alike([l EXCEPT !.logs = v], l)
           /\ Alike([l EXCEPT !.collected = TRUE, !.logs = v], l)
  BY DEF Ledger, Alike, SameIds, SameDocs, SamePlace

LEMMA PhaseField ==
    ASSUME NEW l \in Ledger, NEW p
    PROVE  LET k == [l EXCEPT !.phase = p]
           IN  SameIds(k, l) /\ SameDocs(k, l) /\ k.absent = l.absent /\ k.phase = p
  BY DEF Ledger, SameIds, SameDocs

LEMMA UidField ==
    ASSUME NEW l \in Ledger, NEW o, NEW u
    PROVE  LET k == [l EXCEPT !.uid[o] = u]
           IN  /\ k.uid = [l.uid EXCEPT ![o] = u] /\ k.armed = l.armed
               /\ k.launched = l.launched /\ SameDocs(k, l) /\ SamePlace(k, l)
  BY DEF Ledger, SameDocs, SamePlace

LEMMA AbsentField ==
    ASSUME NEW l \in Ledger, NEW o, NEW b
    PROVE  LET k == [l EXCEPT !.absent[o] = b]
           IN  /\ k.absent = [l.absent EXCEPT ![o] = b] /\ k.phase = l.phase
               /\ SameIds(k, l) /\ SameDocs(k, l)
  BY DEF Ledger, SameIds, SameDocs

LEMMA LedgerParts ==
    ASSUME NEW l \in Ledger
    PROVE  /\ l.uid \in [Obj -> 0..MaxUid] /\ l.absent \in [Disposable -> BOOLEAN]
           /\ l.armed \in BOOLEAN /\ l.launched \in BOOLEAN
           /\ l.guard \in Version /\ l.digest \in Version
           /\ l.phase \in PhaseNames
  BY DEF Ledger

----------------------------------------------------------------------------
(* Frames: what most steps preserve, proved once *)

\* what every step starts from
Context == TypeOK /\ TypeOK' /\ LaunchInv /\ LaunchInv' /\ SInv

LEMMA Typed ==
    ASSUME Context
    PROVE  /\ mem \in Ledger /\ disk \in Ledger /\ mem' \in Ledger /\ disk' \in Ledger
           /\ mem.uid \in [Obj -> 0..MaxUid] /\ disk.uid \in [Obj -> 0..MaxUid]
           /\ mem'.uid \in [Obj -> 0..MaxUid] /\ disk'.uid \in [Obj -> 0..MaxUid]
           /\ mem.absent \in [Disposable -> BOOLEAN] /\ disk.absent \in [Disposable -> BOOLEAN]
           /\ mem'.absent \in [Disposable -> BOOLEAN] /\ disk'.absent \in [Disposable -> BOOLEAN]
  BY LedgerParts DEF Context, TypeOK

\* Before disposal nothing is recorded as absent, before completion nothing is
\* published.
LEMMA NothingAbsent ==
    ASSUME SInv, disk.phase \notin {"disposing", "complete"}
    PROVE  \A o \in Disposable : ~mem.absent[o] /\ ~disk.absent[o]
  BY DEF SInv, Gone, AbsentIsGone, Synced

LEMMA NothingPublished ==
    ASSUME SInv, disk.phase # "complete"
    PROVE  obs = NoLedger /\ ready = NoLedger
  BY DEF SInv, Published

\* A step of the process before disposal that leaves the files and the artifacts in
\* the ledger alone, and only adds UIDs.
LEMMA GrowFrame ==
    ASSUME Context,
           UNCHANGED <<files, obs, ready, stage, writes, gate, collector, removed>>,
           disk.phase \notin {"none", "disposing", "complete"},
           disk'.phase # "complete", proc' \notin DisposePoints \cup {"mark"},
           SameDocs(mem', mem), SameDocs(disk', disk) \/ SameDocs(disk', mem),
           mem'.absent = mem.absent, disk'.absent \in {disk.absent, mem.absent},
           \A o \in Obj : mem'.uid[o] = mem.uid[o] \/ mem.uid[o] = 0,
           disk'.uid \in {disk.uid, mem.uid, mem'.uid}, disk.armed => disk'.armed
    PROVE  Published' /\ Gated' /\ Owned' /\ Kept' /\ Gone'
  <1> USE Typed
  <1>1. Published'
    BY NothingPublished DEF Context, Published
  <1>2. \A o \in Obj : disk.uid[o] # 0 => disk'.uid[o] = disk.uid[o]
    BY DEF Context, SInv, Synced
  <1>3. Gated'
    BY <1>2 DEF Context, SInv, Gated, Obj, TypeOK
  <1>4. Owned'
    BY <1>2 DEF Context, SInv, Owned, Obj, Provisioned
  <1>5. Kept'
    BY DEF Context, SInv, Kept, SameDocs
  <1>6. Gone'
    <2>1. \A o \in Disposable : ~mem'.absent[o] /\ ~disk'.absent[o]
      BY NothingAbsent DEF Context
    <2>2. SettledAt(proc') = {}
      BY DEF SettledAt, DisposePoints
    <2> QED
      BY <2>1, <2>2 DEF Gone
  <1> QED
    BY <1>1, <1>3, <1>4, <1>5, <1>6

\* The same, with the cluster unchanged and the UIDs those of objects it found.
LEMMA EarlyFrame ==
    ASSUME Context, UNCHANGED <<files, obs, ready, kubeVars, removed>>,
           disk.phase \notin {"none", "disposing", "complete"},
           disk'.phase # "complete", proc' \notin DisposePoints \cup {"mark"},
           SameDocs(mem', mem), SameDocs(disk', disk) \/ SameDocs(disk', mem),
           mem'.absent = mem.absent, disk'.absent \in {disk.absent, mem.absent},
           \A o \in Obj : \/ mem'.uid[o] = mem.uid[o]
                          \/ mem.uid[o] = 0 /\ mem'.uid[o] = api[o].uid,
           disk'.uid \in {disk.uid, mem.uid, mem'.uid}, disk.armed => disk'.armed
    PROVE  Published' /\ Gated' /\ Owned' /\ Kept' /\ Fresh' /\ Gone'
  <1>1. Published' /\ Gated' /\ Owned' /\ Kept' /\ Gone'
    BY GrowFrame DEF kubeVars
  <1>2. Fresh'
    BY Typed DEF Context, SInv, Fresh, Exists, kubeVars
  <1> QED
    BY <1>1, <1>2

\* A create request of the process: UIDs stay fresh.
LEMMA CreateFresh ==
    ASSUME Context, NEW o \in Obj,
           \/ CanCreate(o) /\ Create(o)
           \/ UNCHANGED <<api, born>>,
           \A x \in Obj : mem'.uid[x] \in {mem.uid[x], disk.uid[x], api'[x].uid}
    PROVE  Fresh'
  <1> USE Typed
  <1>1. /\ \A x \in Obj : api[x].uid <= born[x] /\ mem.uid[x] <= born[x] /\ disk.uid[x] <= born[x]
        /\ \A x \in Obj : born[x] \in Nat /\ api[x].uid \in Nat /\ mem.uid[x] \in Nat /\ disk.uid[x] \in Nat
    <2>1. \A x \in Obj : born[x] \in Nat /\ api[x].uid \in Nat
      BY CoordinatorAssumption DEF Context, TypeOK
    <2>2. \A x \in Obj : mem.uid[x] \in Nat /\ disk.uid[x] \in Nat
      BY CoordinatorAssumption
    <2>3. \A x \in Obj : api[x].uid <= born[x] /\ mem.uid[x] <= born[x]
      BY DEF Context, SInv, Fresh
    <2>4. \A x \in Obj : disk.uid[x] # 0 => mem.uid[x] = disk.uid[x]
      BY DEF Context, SInv, Synced
    <2> QED
      BY <2>1, <2>2, <2>3, <2>4
  <1>2. CASE UNCHANGED <<api, born>>
    BY <1>1, <1>2 DEF Context, SInv, Fresh, Exists
  <1>3. CASE CanCreate(o) /\ Create(o)
    <2>1. /\ api'[o].uid = born[o] + 1 /\ born'[o] = born[o] + 1
          /\ \A x \in Obj \ {o} : api'[x] = api[x] /\ born'[x] = born[x]
      BY <1>3 DEF Create, Context, TypeOK
    <2>2. \A x \in Obj : api'[x].uid <= born'[x] /\ mem'.uid[x] <= born'[x]
      BY <1>1, <2>1
    <2>3. "runner" \in Obj /\ InRunner \subseteq Obj /\ "runner" \notin InRunner
      BY DEF Obj, Provisioned, Disposable, InRunner
    <2>4. ~Exists("runner")' => \A x \in InRunner : ~Exists(x)'
      BY <1>1, <1>3, <2>1, <2>3 DEF Context, SInv, Fresh, Exists, CanCreate, RunnerLive
    <2> QED
      BY <2>2, <2>4 DEF Fresh
  <1> QED
    BY <1>2, <1>3

\* A step of the process that leaves all of that alone, UIDs included.
LEMMA AlikeFrame ==
    ASSUME Context, UNCHANGED <<files, obs, ready, kubeVars, removed>>,
           disk.phase # "complete", proc' # "mark", SettledAt(proc') = {},
           Alike(mem', mem), Alike(disk', disk) \/ Alike(disk', mem)
    PROVE  Published' /\ Gated' /\ Owned' /\ Kept' /\ Fresh' /\ Gone'
  <1> USE Typed DEF kubeVars, Alike, SameIds, SamePlace
  <1>1. Published'
    BY NothingPublished DEF Context, Published
  <1>2. \A o \in Obj : disk.uid[o] # 0 => disk'.uid[o] = disk.uid[o]
    BY DEF Context, SInv, Synced
  <1>3. Gated'
    BY <1>2 DEF Context, SInv, Gated, Obj, TypeOK, Synced
  <1>4. Owned'
    BY <1>2 DEF Context, SInv, Owned, Obj, Provisioned
  <1>5. Kept'
    BY DEF Context, SInv, Kept, SameDocs
  <1>6. Fresh'
    BY DEF Context, SInv, Fresh, Exists
  <1>7. Gone'
    <2>1. disk'.phase # "complete"
      BY DEF Context, SInv, Synced
    <2>2. ASSUME NEW o \in Disposable, mem'.absent[o] PROVE AbsentIsGone(mem, o)'
      <3>1. AbsentIsGone(mem, o)
        BY <2>2 DEF Context, SInv, Gone
      <3> QED
        BY <3>1 DEF AbsentIsGone, Ours, Exists
    <2>3. ASSUME NEW o \in Disposable, disk'.absent[o] PROVE AbsentIsGone(disk, o)'
      <3>1. CASE Alike(disk', disk)
        <4>1. AbsentIsGone(disk, o)
          BY <2>3, <3>1 DEF Context, SInv, Gone
        <4> QED
          BY <3>1, <4>1 DEF AbsentIsGone, Ours, Exists
      <3>2. CASE Alike(disk', mem)
        <4>1. AbsentIsGone(mem, o)
          BY <2>3, <3>2 DEF Context, SInv, Gone
        <4> QED
          BY <3>2, <4>1 DEF AbsentIsGone, Ours, Exists
      <3> QED
        BY <3>1, <3>2
    <2> QED
      BY <2>1, <2>2, <2>3 DEF Gone
  <1> QED
    BY <1>1, <1>3, <1>4, <1>5, <1>6, <1>7

\* The process dies or gives up: it will resume from what is on disk.
LEMMA StopInv ==
    ASSUME Context, Stop, UNCHANGED <<files, obs, ready, kubeVars, removed>>
    PROVE  SInv'
  <1> USE Typed DEF kubeVars, Stop
  <1>1. Synced' /\ Phased'
    BY DEF Context, SInv, Synced, Phased, EarlyPoints, BeforeLaunch, Provisioned, Disposable,
           DisposePoints
  <1>2. Published' /\ Gated' /\ Owned'
    BY DEF Context, SInv, Published, Gated, Owned
  <1>3. Bound'
    BY DEF Context, SInv, Bound, RecordedAt, Ours, Exists
  <1>4. Kept'
    BY DEF Context, SInv, Kept
  <1>5. Fresh'
    BY CoordinatorAssumption DEF Context, SInv, Fresh, Exists, Synced, TypeOK
  <1>6. Gone'
    BY DEF Context, SInv, Gone, SettledAt, AbsentIsGone, Ours, Exists
  <1> QED
    BY <1>1, <1>2, <1>3, <1>4, <1>5, <1>6 DEF SInv

----------------------------------------------------------------------------
(* Starting, resuming, dying *)

LEMMA InitSafe == Init => SInv
  <1> SUFFICES ASSUME Init PROVE SInv
    OBVIOUS
  <1>1. /\ NoLedger \in Ledger /\ NoLedger.phase = "none" /\ NoLedger.uid = [o \in Obj |-> 0]
        /\ NoLedger.absent = [o \in Disposable |-> FALSE] /\ ~NoLedger.armed
        /\ ~NoLedger.launched /\ NoLedger.guard = 0 /\ NoLedger.digest = 0
        /\ NoLedger.evidence = "missing"
    BY NewLedgerType DEF NoLedger, NewLedger, PhaseNames
  <1> USE <1>1 DEF Init
  <1>2. Synced /\ Published /\ Gated /\ Owned
    BY DEF Synced, Published, Gated, Owned
  <1>3. Phased
    BY DEF Phased, EarlyPoints, BeforeLaunch, Provisioned, Disposable, DisposePoints
  <1>4. Bound
    BY DEF Bound, RecordedAt, Ours, Exists, Absent, Obj
  <1>5. Kept
    BY CoordinatorAssumption DEF Kept, NoData, NoFiles
  <1>6. Fresh
    <2>1. \A o \in Obj : api[o].uid = 0 /\ born[o] = 0 /\ mem.uid[o] = 0
      BY DEF Absent
    <2>2. InRunner \subseteq Obj
      BY DEF InRunner, Obj, Provisioned
    <2> QED
      BY <2>1, <2>2 DEF Fresh, Exists
  <1>7. Gone
    BY DEF Gone, SettledAt
  <1> QED
    BY <1>2, <1>3, <1>4, <1>5, <1>6, <1>7 DEF SInv

LEMMA ResumeSafe ==
    ASSUME Context, Start \/ Collect \/ Crash \/ RequestCancel
    PROVE  SInv'
  <1> USE Typed
  <1>1. CASE Start
    <2> DEFINE l == NewLedger("provisioning")
    <2>1. /\ l.phase = "provisioning" /\ l.uid = [o \in Obj |-> 0] /\ ~l.launched /\ ~l.armed
          /\ l.absent = [o \in Disposable |-> FALSE] /\ l.guard = 0 /\ l.digest = 0
          /\ l.evidence = "missing"
      BY DEF NewLedger
    <2>2. /\ disk.uid = [o \in Obj |-> 0] /\ ~disk.armed /\ mem = disk /\ disk.phase = "none"
          /\ disk = NoLedger
      BY <1>1 DEF Start, Context, SInv, Phased, Synced, NoLedger, NewLedger
    <2> HIDE DEF l
    <2>3. /\ mem' = l /\ disk' = l /\ proc' = "provision"
          /\ UNCHANGED <<files, obs, ready, kubeVars, removed>>
      BY <1>1 DEF Start, Save, GoTo, fileVars, ghosts, l
    <2>4. Synced' /\ Phased'
      BY <2>1, <2>3 DEF Synced, Phased, EarlyPoints, BeforeLaunch, DisposePoints
    <2>5. Published'
      BY <2>2, <2>3, NothingPublished DEF Context, Published
    <2>6. Gated' /\ Owned'
      BY <2>2, <2>3 DEF Context, SInv, Gated, Owned, kubeVars, Obj, Provisioned
    <2>7. Bound'
      BY <2>1, <2>2, <2>3
      DEF Context, SInv, Bound, RecordedAt, Ours, Exists, kubeVars, Obj, LaunchInv
    <2>8. Kept'
      BY <2>1, <2>3, CoordinatorAssumption DEF Context, SInv, Kept, kubeVars, TypeOK, Version
    <2>9. Fresh'
      BY <2>1, <2>2, <2>3 DEF Context, SInv, Fresh, Exists, kubeVars
    <2>10. Gone'
      BY <2>1, <2>3 DEF Gone, SettledAt
    <2> QED
      BY <2>4, <2>5, <2>6, <2>7, <2>8, <2>9, <2>10 DEF SInv
  <1>2. CASE Collect /\ disk.phase = "complete"
    <2>1. /\ mem' = disk /\ disk' = disk /\ mem = disk /\ proc' = "publish" /\ failed' = failed
          /\ UNCHANGED <<files, obs, ready, kubeVars, removed>>
      BY <1>2 DEF Collect, Keep, GoTo, fileVars, ghosts, Context, SInv, Synced
    <2>2. SettledAt(proc') = {} /\ RecordedAt(proc') = {}
      BY <2>1 DEF SettledAt, RecordedAt
    <2>3. Synced' /\ Phased' /\ Published' /\ Gated' /\ Owned'
      BY <1>2, <2>1 DEF Context, SInv, Synced, Phased, Published, Gated, Owned, EarlyPoints,
         BeforeLaunch, Provisioned, Disposable, DisposePoints, kubeVars
    <2>4. Bound'
      BY <2>1, <2>2 DEF Context, SInv, Bound, Ours, Exists, kubeVars
    <2>5. Kept' /\ Fresh'
      BY <2>1 DEF Context, SInv, Kept, Fresh, Exists, kubeVars
    <2>6. Gone'
      BY <2>1, <2>2 DEF Context, SInv, Gone, AbsentIsGone, Ours, Exists, kubeVars
    <2> QED
      BY <2>3, <2>4, <2>5, <2>6 DEF SInv
  <1>3. CASE Collect /\ disk.phase # "complete"
    <2> DEFINE pinned == [disk EXCEPT !.cluster = cluster]
               c == pinned.cancel \/ cancelFile
    <2>1. pinned \in Ledger /\ Alike(pinned, disk)
      BY LedgerCluster, ClusterField DEF Context, TypeOK
    <2> HIDE DEF pinned
    <2>2. Alike([pinned EXCEPT !.cancel = c], pinned)
      BY <2>1, CancelField
    <2>3. /\ disk' = pinned /\ mem' = [pinned EXCEPT !.cancel = c] /\ proc' = Resume(pinned)
          /\ mem = disk /\ proc = "down" /\ disk.phase # "none"
          /\ UNCHANGED <<files, obs, ready, kubeVars, removed>>
      BY <1>3 DEF Collect, GoTo, fileVars, ghosts, Context, SInv, Synced, pinned
    <2>4. Alike(disk', disk) /\ Alike(mem', mem) /\ Alike(mem', disk')
      BY <2>1, <2>2, <2>3 DEF Alike, SameIds, SameDocs, SamePlace
    <2>5. \/ proc' = "dispose" /\ disk.phase = "disposing"
          \/ proc' = "stageCM" /\ disk.phase = "collecting"
          \/ /\ disk.phase \in {"provisioning", "launching", "running"}
             /\ \/ proc' = "findJob" /\ disk'.uid["job"] = 0
                \/ proc' = "monitor" /\ disk'.uid["job"] # 0
      <3>1. pinned.phase = disk.phase /\ disk.phase \in PhaseNames
        BY <2>1, LedgerParts DEF Alike, SamePlace
      <3> QED
        BY <1>3, <2>3, <3>1 DEF Resume, PhaseNames
    <2>6. SettledAt(proc') = {} /\ RecordedAt(proc') = {}
      BY <2>5 DEF SettledAt, RecordedAt
    <2>7. Published' /\ Gated' /\ Owned' /\ Kept' /\ Fresh' /\ Gone'
      BY <1>3, <2>3, <2>4, <2>5, <2>6, AlikeFrame
    <2>8. Synced'
      BY <2>3, <2>4, <2>5 DEF Synced, Alike, SameIds, SamePlace
    <2>9. Phased'
      BY <2>3, <2>4, <2>5 DEF Phased, Alike, SamePlace, EarlyPoints, BeforeLaunch, Provisioned,
         Disposable, DisposePoints
    <2>10. Bound'
      BY <2>3, <2>4, <2>5, <2>6 DEF Context, SInv, Bound, Alike, SameIds, Ours, Exists, kubeVars
    <2> QED
      BY <2>7, <2>8, <2>9, <2>10 DEF SInv
  <1>4. CASE Crash
    BY <1>4, StopInv DEF Crash, fileVars, ghosts
  <1>5. CASE RequestCancel
    BY <1>5 DEF RequestCancel, Context, SInv, procVars, fileVars, kubeVars, ghosts, Synced,
       Phased, Published, Bound, Gated, Owned, Kept, Fresh, Gone, AbsentIsGone, Ours, Exists
  <1> QED
    BY <1>1, <1>2, <1>3, <1>4, <1>5

----------------------------------------------------------------------------
(* provision, up to the create request of the Job *)

\* What is left to show once EarlyFrame or AlikeFrame has done the rest.
LEMMA FramedInv ==
    ASSUME Published' /\ Gated' /\ Owned' /\ Kept' /\ Fresh' /\ Gone', Synced', Phased', Bound'
    PROVE  SInv'
  BY DEF SInv

\* A process that provisions or monitors works on a ledger of an early phase.
LEMMA EarlyPhase ==
    ASSUME Context, proc \in EarlyPoints
    PROVE  /\ disk.phase \in {"provisioning", "launching", "running"} /\ mem.phase = disk.phase
           /\ disk.phase \notin {"none", "collecting", "disposing", "complete"}
           /\ mem.armed = disk.armed /\ mem.launched = disk.launched
           /\ \A o \in Obj : disk.uid[o] # 0 => mem.uid[o] = disk.uid[o]
           /\ proc # "binding" => mem.uid = disk.uid
  BY DEF Context, SInv, Phased, Synced, LaunchInv

LEMMA FindJobSafe == ASSUME Context, FindJob PROVE SInv'
  <1> USE Typed DEF FindJob, GoTo
  <1>1. /\ proc = "findJob" /\ UNCHANGED <<files, obs, ready, kubeVars, removed>>
        /\ proc \in EarlyPoints
    BY DEF fileVars, ghosts, EarlyPoints
  <1>2. /\ disk.phase \in {"provisioning", "launching", "running"} /\ mem.uid = disk.uid
        /\ disk.phase \notin {"none", "collecting", "disposing", "complete"}
        /\ mem.phase = disk.phase /\ mem.armed = disk.armed /\ mem.launched = disk.launched
        /\ disk.uid["job"] = 0 /\ ~disk.armed
    BY <1>1, EarlyPhase DEF Context, SInv, Bound
  <1>3. CASE Ours("job") /\ Save([mem EXCEPT !.uid["job"] = api["job"].uid, !.phase = "running"])
             /\ GoTo("monitor")
    <2> DEFINE l == [mem EXCEPT !.uid["job"] = api["job"].uid, !.phase = "running"]
    <2>1. /\ l.uid = [mem.uid EXCEPT !["job"] = api["job"].uid] /\ l.phase = "running"
          /\ l.armed = mem.armed /\ l.launched = mem.launched
          /\ SameDocs(l, mem) /\ l.absent = mem.absent
      BY DEF Ledger, SameDocs
    <2> HIDE DEF l
    <2>2. mem' = l /\ disk' = l /\ proc' = "monitor"
      BY <1>3 DEF Save, l
    <2>3. /\ mem'.uid["job"] # 0 /\ mem'.uid["job"] = api["job"].uid
          /\ \A o \in Obj \ {"job"} : mem'.uid[o] = mem.uid[o]
      BY <1>3, <2>1, <2>2 DEF Ours, Exists, Obj
    <2>4. Published' /\ Gated' /\ Owned' /\ Kept' /\ Fresh' /\ Gone'
      BY <1>1, <1>2, <2>1, <2>2, <2>3, EarlyFrame DEF DisposePoints
    <2>5. Synced'
      BY <2>2 DEF Synced
    <2>6. Phased'
      BY <2>1, <2>2 DEF Phased, DisposePoints
    <2>7. Bound'
      BY <1>1, <1>2, <1>3, <2>1, <2>2, <2>3
      DEF Context, SInv, Bound, RecordedAt, Ours, Exists, kubeVars, Obj, Provisioned, Disposable
    <2> QED
      BY <2>4, <2>5, <2>6, <2>7, FramedInv
  <1>4. CASE Save([mem EXCEPT !.phase = "collecting"]) /\ GoTo("stageCM")
    <2> DEFINE l == [mem EXCEPT !.phase = "collecting"]
    <2>1. SameIds(l, mem) /\ SameDocs(l, mem) /\ l.absent = mem.absent /\ l.phase = "collecting"
      BY PhaseField
    <2> HIDE DEF l
    <2>2. mem' = l /\ disk' = l /\ proc' = "stageCM"
      BY <1>4 DEF Save, l
    <2>4. Published' /\ Gated' /\ Owned' /\ Kept' /\ Fresh' /\ Gone'
      BY <1>1, <1>2, <2>1, <2>2, EarlyFrame DEF DisposePoints, SameIds
    <2>5. Synced' /\ Phased'
      BY <2>1, <2>2 DEF Synced, Phased, DisposePoints, EarlyPoints, BeforeLaunch, Provisioned, Disposable
    <2>7. Bound'
      BY <1>1, <1>2, <2>1, <2>2
      DEF Context, SInv, Bound, RecordedAt, Ours, Exists, kubeVars, SameIds
    <2> QED
      BY <2>4, <2>5, <2>7, FramedInv
  <1>5. CASE Keep(mem) /\ GoTo("provision")
    <2>1. mem' = mem /\ disk' = disk /\ proc' = "provision"
      BY <1>5 DEF Keep
    <2>2. Published' /\ Gated' /\ Owned' /\ Kept' /\ Fresh' /\ Gone'
      BY <1>1, <1>2, <2>1, EarlyFrame DEF DisposePoints, SameDocs
    <2>3. Synced' /\ Phased'
      BY <1>1, <1>2, <2>1 DEF Synced, Phased, DisposePoints, EarlyPoints, BeforeLaunch, Provisioned, Disposable
    <2>4. Bound'
      BY <1>1, <1>2, <2>1 DEF Context, SInv, Bound, RecordedAt, Ours, Exists, kubeVars
    <2> QED
      BY <2>2, <2>3, <2>4, FramedInv
  <1>6. CASE Stop
    BY <1>1, <1>6, StopInv
  <1> QED
    BY <1>3, <1>4, <1>5, <1>6

LEMMA ProvisionSafe ==
    ASSUME Context, PinCluster \/ ProvisionFails \/ Launch \/ RecordLaunch
    PROVE  SInv'
  <1> USE Typed
  <1>1. /\ proc \in EarlyPoints /\ UNCHANGED <<files, obs, ready, kubeVars, removed>>
        /\ proc \in BeforeLaunch
    BY DEF PinCluster, ProvisionFails, Launch, RecordLaunch, fileVars, ghosts, EarlyPoints, BeforeLaunch
  <1>2. /\ disk.phase \in {"provisioning", "launching", "running"} /\ mem.phase = disk.phase
        /\ disk.phase \notin {"none", "collecting", "disposing", "complete"}
        /\ mem.armed = disk.armed /\ mem.launched = disk.launched
        /\ \A o \in Obj : disk.uid[o] # 0 => mem.uid[o] = disk.uid[o]
        /\ proc # "binding" => mem.uid = disk.uid
    BY <1>1, EarlyPhase
  <1>3. /\ ~disk.launched /\ disk.uid["job"] = 0 /\ ~disk.armed
        /\ ~Ours("job") /\ ~inflight /\ mem.uid["job"] = 0
    BY <1>1, <1>2 DEF Context, SInv, Bound, LaunchInv, Synced, Obj
  <1>4. CASE PinCluster
    <2> DEFINE l == [mem EXCEPT !.cluster = cluster]
    <2>1. Alike(l, mem)
      BY ClusterField
    <2> HIDE DEF l
    <2>2. mem' = l /\ disk' = l /\ proc = "provision" /\ proc' = "runner"
      BY <1>4 DEF PinCluster, Save, GoTo, l
    <2>3. Published' /\ Gated' /\ Owned' /\ Kept' /\ Fresh' /\ Gone'
      BY <1>1, <1>2, <2>1, <2>2, EarlyFrame DEF DisposePoints, Alike, SameIds, SamePlace
    <2>4. Synced' /\ Phased'
      BY <1>2, <2>1, <2>2 DEF Synced, Phased, DisposePoints, Alike, SamePlace
    <2>5. Bound'
      BY <1>1, <1>2, <1>3, <2>1, <2>2
      DEF Context, SInv, Bound, RecordedAt, Ours, Exists, kubeVars, Alike, SameIds
    <2> QED
      BY <2>3, <2>4, <2>5, FramedInv
  <1>5. CASE ProvisionFails
    <2>1. PICK b : Alike([mem EXCEPT !.cancel = b], mem)
      BY CancelField
    <2>2. Alike(mem', mem) /\ disk' = mem' /\ proc' = "down"
      <3>1. Alike(mem, mem) /\ Alike([mem EXCEPT !.cancel = TRUE], mem)
        BY CancelField DEF Alike, SameIds, SameDocs, SamePlace
      <3> QED
        BY <1>5, <3>1 DEF ProvisionFails, Return
    <2>3. Published' /\ Gated' /\ Owned' /\ Kept' /\ Fresh' /\ Gone'
      BY <1>1, <1>2, <2>2, EarlyFrame DEF DisposePoints, Alike, SameIds, SamePlace
    <2>4. Synced' /\ Phased'
      BY <1>2, <2>2 DEF Synced, Phased, DisposePoints, Alike, SamePlace, EarlyPoints, BeforeLaunch,
         Provisioned, Disposable
    <2>5. Bound'
      BY <1>1, <1>2, <1>3, <2>2
      DEF Context, SInv, Bound, RecordedAt, Ours, Exists, kubeVars, Alike, SameIds
    <2> QED
      BY <2>3, <2>4, <2>5, FramedInv
  <1>6. CASE Launch /\ cancelFile
    <2> DEFINE l == [mem EXCEPT !.cancel = TRUE, !.phase = "collecting"]
    <2>1. SameIds(l, mem) /\ SameDocs(l, mem) /\ l.absent = mem.absent /\ l.phase = "collecting"
      BY DEF Ledger, SameIds, SameDocs
    <2> HIDE DEF l
    <2>2. mem' = l /\ disk' = l /\ proc = "launch" /\ proc' = "stageCM"
      BY <1>6 DEF Launch, Save, GoTo, l
    <2>3. Published' /\ Gated' /\ Owned' /\ Kept' /\ Fresh' /\ Gone'
      BY <1>1, <1>2, <2>1, <2>2, EarlyFrame DEF DisposePoints, SameIds
    <2>4. Synced' /\ Phased'
      BY <2>1, <2>2 DEF Synced, Phased, DisposePoints, EarlyPoints, BeforeLaunch, Provisioned, Disposable
    <2>5. Bound'
      BY <1>1, <1>2, <1>3, <2>1, <2>2
      DEF Context, SInv, Bound, RecordedAt, Ours, Exists, kubeVars, SameIds
    <2> QED
      BY <2>3, <2>4, <2>5, FramedInv
  <1>7. CASE Launch /\ ~cancelFile
    <2>1. mem' = mem /\ disk' = disk /\ proc = "launch" /\ proc' = "intent"
      BY <1>7 DEF Launch, Keep, GoTo
    <2>2. Published' /\ Gated' /\ Owned' /\ Kept' /\ Fresh' /\ Gone'
      BY <1>1, <1>2, <2>1, EarlyFrame DEF DisposePoints, SameDocs
    <2>3. Synced' /\ Phased'
      BY <1>2, <2>1 DEF Synced, Phased, DisposePoints, EarlyPoints, BeforeLaunch, Provisioned, Disposable
    <2>4. Bound'
      BY <1>1, <1>2, <1>3, <2>1 DEF Context, SInv, Bound, RecordedAt, Ours, Exists, kubeVars
    <2> QED
      BY <2>2, <2>3, <2>4, FramedInv
  <1>8. CASE RecordLaunch
    <2> DEFINE l == [mem EXCEPT !.launched = TRUE, !.phase = "launching"]
    <2>1. /\ l.uid = mem.uid /\ l.armed = mem.armed /\ l.launched
          /\ SameDocs(l, mem) /\ l.absent = mem.absent /\ l.phase = "launching"
      BY DEF Ledger, SameDocs
    <2> HIDE DEF l
    <2>2. mem' = l /\ disk' = l /\ proc = "intent" /\ proc' = "create"
      BY <1>8 DEF RecordLaunch, Save, GoTo, l
    <2>3. Published' /\ Gated' /\ Owned' /\ Kept' /\ Fresh' /\ Gone'
      BY <1>1, <1>2, <2>1, <2>2, EarlyFrame DEF DisposePoints
    <2>4. Synced' /\ Phased'
      BY <2>1, <2>2 DEF Synced, Phased, DisposePoints, EarlyPoints, BeforeLaunch, Provisioned, Disposable
    <2>5. \A o \in Provisioned : mem.uid[o] # 0
      BY <2>2 DEF Context, SInv, Bound, RecordedAt
    <2>6. Bound'
      BY <1>1, <1>2, <1>3, <2>1, <2>2, <2>5
      DEF Context, SInv, Bound, RecordedAt, Ours, Exists, kubeVars
    <2> QED
      BY <2>3, <2>4, <2>6, FramedInv
  <1> QED
    BY <1>4, <1>5, <1>6, <1>7, <1>8

LEMMA EnsureSafe ==
    ASSUME Context, NEW o \in Provisioned, Ensure(o) \/ EnsureUnrecorded(o)
    PROVE  SInv'
  <1> USE Typed
  <1>1. /\ proc = o /\ o \in Obj \ {"job", "pod"} /\ proc \in EarlyPoints /\ proc \in BeforeLaunch
        /\ UNCHANGED <<files, obs, ready, stage, writes, gate, collector, removed, inflight>>
        /\ (CanCreate(o) /\ Create(o)) \/ UNCHANGED <<api, born>>
    BY DEF Ensure, EnsureUnrecorded, fileVars, ghosts, EarlyPoints, BeforeLaunch, Obj,
           Provisioned, Disposable
  <1>2. /\ disk.phase \in {"provisioning", "launching", "running"} /\ mem.phase = disk.phase
        /\ disk.phase \notin {"none", "collecting", "disposing", "complete"}
        /\ mem.armed = disk.armed /\ mem.launched = disk.launched
        /\ \A x \in Obj : disk.uid[x] # 0 => mem.uid[x] = disk.uid[x]
        /\ proc # "binding" => mem.uid = disk.uid
    BY <1>1, EarlyPhase
  <1>3. /\ ~disk.launched /\ disk.uid["job"] = 0 /\ ~disk.armed
        /\ ~Ours("job") /\ ~inflight /\ mem.uid["job"] = 0
    BY <1>1, <1>2 DEF Context, SInv, Bound, LaunchInv, Synced, Obj
  <1>4. ~Ours("job")'
    BY <1>1, <1>3 DEF Ours, Exists, Create, Context, TypeOK, Obj
  <1>5. CASE Ensure(o)
    <2> DEFINE l == [mem EXCEPT !.uid[o] = api'[o].uid]
    <2>1. /\ l.uid = [mem.uid EXCEPT ![o] = api'[o].uid] /\ l.armed = mem.armed
          /\ l.launched = mem.launched /\ SameDocs(l, mem) /\ SamePlace(l, mem)
      BY UidField
    <2> HIDE DEF l
    <2>2. /\ mem' = l /\ disk' = (IF o = "role" THEN disk ELSE l) /\ proc' = After(o)
          /\ mem.uid[o] \in {0, api'[o].uid}
      BY <1>5 DEF Ensure, Save, Keep, GoTo, l
    <2>3. /\ mem'.uid[o] = api'[o].uid
          /\ \A x \in Obj \ {o} : mem'.uid[x] = mem.uid[x]
      BY <1>1, <2>1, <2>2
    <2>4. mem'.uid[o] # 0
      <3>1. CASE CanCreate(o) /\ Create(o)
        BY <1>1, <2>3, <3>1 DEF Create, Context, TypeOK
      <3>2. CASE Ours(o) /\ UNCHANGED <<api, born>>
        BY <2>3, <3>2 DEF Ours, Exists
      <3> QED
        BY <1>5, <3>1, <3>2 DEF Ensure
    <2>5. /\ After(o) \in {"resource", "stage", "role", "binding", "launch"}
          /\ After(o) = "binding" <=> o = "role"
          /\ RecordedAt(After(o)) \subseteq RecordedAt(o) \cup {o}
          /\ RecordedAt(After(o)) \subseteq Obj
      BY DEF After, RecordedAt, Provisioned, Disposable, Obj
    <2>6. Published' /\ Gated' /\ Owned' /\ Kept' /\ Gone'
      BY <1>1, <1>2, <2>1, <2>2, <2>3, <2>5, GrowFrame DEF DisposePoints, SameDocs, SamePlace
    <2>7. Fresh'
      BY <1>1, <2>3, CreateFresh
    <2>8. Synced'
      <3>1. CASE o = "role"
        <4>1. mem.uid = disk.uid
          BY <1>1, <1>2, <3>1
        <4> QED
          BY <1>1, <1>2, <2>1, <2>2, <2>3, <2>5, <3>1, <4>1 DEF Synced, SamePlace
      <3>2. CASE o # "role"
        BY <2>2, <2>5, <3>2 DEF Synced
      <3> QED
        BY <3>1, <3>2
    <2>9. Phased'
      BY <1>2, <2>1, <2>2, <2>5 DEF Phased, SamePlace, DisposePoints
    <2>10. Bound'
      <3>1. \A x \in RecordedAt(proc') : mem'.uid[x] # 0
        <4>1. \A x \in RecordedAt(o) : mem.uid[x] # 0
          BY <1>1 DEF Context, SInv, Bound
        <4> QED
          BY <2>2, <2>3, <2>4, <2>5, <4>1
      <3>2. ~disk'.launched /\ ~disk'.armed /\ disk'.uid["job"] = 0 /\ ~inflight'
        BY <1>1, <1>2, <1>3, <2>1, <2>2, <2>3 DEF Obj
      <3>3. proc' \notin {"create", "findJob", "monitor", "observe", "gate"}
        BY <2>2, <2>5
      <3> QED
        BY <1>4, <3>1, <3>2, <3>3 DEF Bound
    <2> QED
      BY <2>6, <2>7, <2>8, <2>9, <2>10, FramedInv
  <1>6. CASE EnsureUnrecorded(o)
    <2>1. /\ mem' = disk' /\ disk' \in {mem, disk} /\ proc' = "down"
      BY <1>6 DEF EnsureUnrecorded, Return, Stop
    <2>2. CASE disk' = mem
      <3>1. Published' /\ Gated' /\ Owned' /\ Kept' /\ Gone'
        BY <1>1, <1>2, <2>1, <2>2, GrowFrame DEF DisposePoints, SameDocs
      <3>2. Fresh'
        BY <1>1, <2>1, <2>2, CreateFresh
      <3> QED
        BY <1>1, <1>2, <1>3, <1>4, <2>1, <2>2, <3>1, <3>2, FramedInv
        DEF Synced, Phased, Bound, RecordedAt, EarlyPoints, BeforeLaunch, Provisioned, Disposable,
            DisposePoints
    <2>3. CASE disk' = disk
      <3>1. Published' /\ Gated' /\ Owned'
        BY <1>1, <2>1, <2>3 DEF Context, SInv, Published, Gated, Owned
      <3>2. Kept'
        BY <1>1, <2>1, <2>3 DEF Context, SInv, Kept
      <3>3. Gone'
        BY <1>2, <2>1, <2>3, NothingAbsent DEF Context, Gone, SettledAt
      <3>4. Fresh'
        BY <1>1, <2>1, <2>3, CreateFresh
      <3> QED
        BY <1>1, <1>2, <1>3, <1>4, <2>1, <2>3, <3>1, <3>2, <3>3, <3>4, FramedInv
        DEF Synced, Phased, Bound, RecordedAt, EarlyPoints, BeforeLaunch, Provisioned, Disposable,
            DisposePoints
    <2> QED
      BY <2>1, <2>2, <2>3
  <1> QED
    BY <1>5, <1>6

LEMMA CreateJobSafe ==
    ASSUME Context, CreateJob \/ CreateJobUnrecorded
    PROVE  SInv'
  <1> USE Typed
  <1>1. /\ proc = "create" /\ "job" \in Obj /\ proc \in EarlyPoints
        /\ UNCHANGED <<files, obs, ready, stage, writes, gate, collector, removed>>
        /\ (CanCreate("job") /\ Create("job")) \/ UNCHANGED <<api, born>>
    BY DEF CreateJob, CreateJobUnrecorded, fileVars, EarlyPoints, Obj
  <1>2. /\ disk.phase \in {"provisioning", "launching", "running"} /\ mem.phase = disk.phase
        /\ disk.phase \notin {"none", "collecting", "disposing", "complete"}
        /\ mem.armed = disk.armed /\ mem.launched = disk.launched /\ mem.uid = disk.uid
    BY <1>1, EarlyPhase
  <1>3. /\ disk.launched /\ disk.uid["job"] = 0 /\ ~disk.armed
        /\ \A o \in Provisioned : disk.uid[o] # 0
    BY <1>1, <1>2 DEF Context, SInv, Bound, LaunchInv
  <1>4. CASE CreateJob
    <2> DEFINE l == [mem EXCEPT !.uid["job"] = api'["job"].uid, !.phase = "running"]
    <2>1. /\ l.uid = [mem.uid EXCEPT !["job"] = api'["job"].uid] /\ l.phase = "running"
          /\ l.armed = mem.armed /\ l.launched = mem.launched
          /\ SameDocs(l, mem) /\ l.absent = mem.absent
      BY DEF Ledger, SameDocs
    <2> HIDE DEF l
    <2>2. mem' = l /\ disk' = l /\ proc' = "monitor"
      BY <1>4 DEF CreateJob, Save, GoTo, l
    <2>3. /\ mem'.uid["job"] = api'["job"].uid
          /\ \A x \in Obj \ {"job"} : mem'.uid[x] = mem.uid[x]
      BY <1>1, <2>1, <2>2
    <2>4. mem'.uid["job"] # 0
      <3>1. CASE CanCreate("job") /\ Create("job")
        BY <1>1, <2>3, <3>1 DEF Create, Context, TypeOK
      <3>2. CASE Ours("job") /\ UNCHANGED <<api, born>>
        BY <2>3, <3>2 DEF Ours, Exists
      <3> QED
        BY <1>4, <3>1, <3>2 DEF CreateJob
    <2>5. Published' /\ Gated' /\ Owned' /\ Kept' /\ Gone'
      BY <1>1, <1>2, <1>3, <2>1, <2>2, <2>3, GrowFrame DEF DisposePoints
    <2>6. Fresh'
      BY <1>1, <2>3, CreateFresh
    <2>7. Synced' /\ Phased'
      BY <2>1, <2>2 DEF Synced, Phased, DisposePoints
    <2>8. \A o \in Provisioned : disk'.uid[o] # 0
      BY <1>2, <1>3, <2>2, <2>3 DEF Obj, Provisioned, Disposable
    <2>9. Bound'
      BY <1>2, <1>3, <2>1, <2>2, <2>4, <2>8 DEF Bound, RecordedAt
    <2> QED
      BY <2>5, <2>6, <2>7, <2>9, FramedInv
  <1>5. CASE CreateJobUnrecorded
    <2>1. Alike(mem', disk) \/ Alike(mem', mem)
      <3>1. Alike(disk, disk) /\ Alike([mem EXCEPT !.cancel = TRUE], mem)
        BY CancelField DEF Alike, SameIds, SameDocs, SamePlace
      <3> QED
        BY <1>5, <3>1 DEF CreateJobUnrecorded, Stop, Return
    <2>2. disk' = mem' /\ proc' = "down"
      BY <1>5 DEF CreateJobUnrecorded, Stop, Return
    <2>3. /\ mem'.uid = disk.uid /\ mem'.launched /\ ~mem'.armed
          /\ mem'.phase = disk.phase
      BY <1>2, <1>3, <2>1 DEF Alike, SameIds, SamePlace
    <2>4. Kept'
      BY <1>1, <2>1, <2>2 DEF Context, SInv, Kept, Alike, SameDocs
    <2>5. Published'
      BY <1>1, <1>2, <2>2, NothingPublished DEF Context, Published
    <2>6. Gated' /\ Owned'
      BY <1>1, <1>2, <1>3, <2>2, <2>3 DEF Context, SInv, Gated, Owned
    <2>7. Gone'
      <3>1. \A o \in Disposable : ~mem'.absent[o]
        BY <1>2, <2>1, NothingAbsent DEF Context, Alike, SamePlace
      <3> QED
        BY <1>2, <2>2, <2>3, <3>1 DEF Gone, SettledAt
    <2>8. Fresh'
      BY <1>1, <2>3, CreateFresh
    <2>9. Synced' /\ Phased'
      BY <1>2, <2>2, <2>3 DEF Synced, Phased, DisposePoints, EarlyPoints, BeforeLaunch,
         Provisioned, Disposable
    <2>10. Bound'
      BY <1>3, <2>2, <2>3 DEF Bound, RecordedAt
    <2> QED
      BY <2>4, <2>5, <2>6, <2>7, <2>8, <2>9, <2>10, FramedInv
  <1> QED
    BY <1>4, <1>5

----------------------------------------------------------------------------
(* monitor, observePod and the gate *)

\* Every step of the monitor that leaves the cluster alone changes the ledger in one
\* of these ways, and goes on, ends the process or starts the collection.
MonitorLedger(l) ==
    /\ SameDocs(l, mem) /\ l.absent = mem.absent /\ l.launched = mem.launched
    /\ l.phase \in {mem.phase, "collecting"}
    /\ \/ l.uid = mem.uid /\ (mem.armed => l.armed) /\ (l.armed /\ ~mem.armed => proc = "gate")
       \/ /\ l.uid = [mem.uid EXCEPT !["pod"] = api["pod"].uid] /\ l.armed = mem.armed
          /\ mem.uid["pod"] = 0

LEMMA MonitorFrame ==
    ASSUME Context, UNCHANGED <<files, obs, ready, kubeVars, removed>>,
           proc \in {"monitor", "observe", "gate"}, MonitorLedger(mem'),
           disk' = mem' \/ (mem' = mem /\ disk' = disk),
           \/ proc' \in {"down", "monitor", "observe", "gate"} /\ mem'.phase = mem.phase
           \/ proc' = "stageCM" /\ mem'.phase = "collecting" /\ disk' = mem',
           proc' = "gate" => mem'.uid["pod"] # 0,
           proc' = "down" => disk' = mem'
    PROVE  SInv'
  <1> USE Typed
  <1>1. /\ disk.phase \in {"provisioning", "launching", "running"} /\ mem.phase = disk.phase
        /\ disk.phase \notin {"none", "collecting", "disposing", "complete"}
        /\ mem.armed = disk.armed /\ mem.launched = disk.launched /\ mem.uid = disk.uid
    BY EarlyPhase DEF EarlyPoints
  <1>2. /\ disk.launched /\ disk.uid["job"] # 0 /\ (proc = "gate" => disk.uid["pod"] # 0)
        /\ \A o \in Provisioned : disk.uid[o] # 0
        /\ disk.armed => disk.uid["pod"] # 0
    BY <1>1 DEF Context, SInv, Bound
  <1>3. /\ disk'.uid = mem'.uid /\ disk'.armed = mem'.armed /\ disk'.phase = mem'.phase
        /\ disk'.launched
        /\ disk'.absent \in {disk.absent, mem.absent} /\ disk'.phase # "complete"
        /\ SameDocs(disk', disk) \/ SameDocs(disk', mem)
    BY <1>1, <1>2 DEF MonitorLedger, SameDocs
  <1>4. \A o \in Obj : \/ mem'.uid[o] = mem.uid[o]
                       \/ o = "pod" /\ mem.uid[o] = 0 /\ mem'.uid[o] = api[o].uid
    BY DEF MonitorLedger
  <1>5. Published' /\ Gated' /\ Owned' /\ Kept' /\ Fresh' /\ Gone'
    BY <1>1, <1>3, <1>4, EarlyFrame DEF DisposePoints, MonitorLedger
  <1>6. Synced'
    BY <1>1, <1>3 DEF Synced
  <1>7. Phased'
    BY <1>1, <1>3 DEF Phased, DisposePoints, EarlyPoints, BeforeLaunch, Provisioned, Disposable
  <1>8. Bound'
    <2>1. RecordedAt(proc') = {}
      BY DEF RecordedAt
    <2>2. /\ disk'.uid["job"] # 0 /\ \A o \in Provisioned : disk'.uid[o] # 0
      BY <1>1, <1>2, <1>3, <1>4 DEF Obj, Provisioned, Disposable
    <2>3. disk'.armed => disk'.uid["pod"] # 0
      <3>1. CASE disk.uid["pod"] # 0
        BY <1>1, <1>3, <1>4, <3>1 DEF Obj
      <3>2. CASE disk.uid["pod"] = 0
        BY <1>1, <1>2, <1>3, <3>2 DEF MonitorLedger
      <3> QED
        BY <3>1, <3>2
    <2>4. proc' \notin {"create", "findJob"} /\ (proc' = "gate" => disk'.uid["pod"] # 0)
      BY <1>3
    <2> QED
      BY <1>3, <2>1, <2>2, <2>3, <2>4 DEF Bound
  <1> QED
    BY <1>5, <1>6, <1>7, <1>8, FramedInv

LEMMA MonitorSafe ==
    ASSUME Context, MonitorTop \/ ObservePod \/ MonitorFails \/ ArmCollector
                    \/ GateRefused \/ GateRetry
    PROVE  SInv'
  <1> USE Typed
  <1>1. /\ proc \in {"monitor", "observe", "gate"}
        /\ UNCHANGED <<files, obs, ready, kubeVars, removed>>
    BY DEF MonitorTop, ObservePod, MonitorFails, ArmCollector, GateRefused, GateRetry, fileVars, ghosts
  <1>2. MonitorLedger(mem)
    BY DEF MonitorLedger, SameDocs
  <1>3. CASE MonitorTop
    <2> DEFINE l == [mem EXCEPT !.cancel = TRUE]
    <2>1. Alike(l, mem)
      BY CancelField
    <2> HIDE DEF l
    <2>2. MonitorLedger(l) /\ l.phase = mem.phase
      BY <2>1 DEF MonitorLedger, Alike, SameIds, SamePlace
    <2>3. /\ (mem' = l /\ disk' = l) \/ (mem' = mem /\ disk' = disk)
          /\ proc' = "observe"
      BY <1>3 DEF MonitorTop, Save, Keep, GoTo, l
    <2> QED
      BY <1>1, <1>2, <2>2, <2>3, MonitorFrame
  <1>4. CASE ObservePod
    <2>1. ASSUME NEW b \in BOOLEAN, Terminal(b) PROVE SInv'
      <3> DEFINE l == [mem EXCEPT !.phase = "collecting", !.exit = @ \/ b]
      <3>1. MonitorLedger(l) /\ l.phase = "collecting"
        BY DEF Ledger, MonitorLedger, SameDocs
      <3> HIDE DEF l
      <3>2. mem' = l /\ disk' = l /\ proc' = "stageCM"
        BY <2>1 DEF Terminal, Save, GoTo, l
      <3> QED
        BY <1>1, <3>1, <3>2, MonitorFrame
    <2>2. CASE Return(mem)
      BY <1>1, <1>2, <2>2, MonitorFrame DEF Return
    <2>3. CASE Keep(mem) /\ GoTo("monitor")
      BY <1>1, <1>2, <2>3, MonitorFrame DEF Keep, GoTo
    <2>4. CASE Keep(mem) /\ GoTo("gate") /\ mem.uid["pod"] # 0
      BY <1>1, <1>2, <2>4, MonitorFrame DEF Keep, GoTo
    <2>5. CASE /\ mem.uid["pod"] = 0
               /\ Save([mem EXCEPT !.uid["pod"] = api["pod"].uid]) /\ GoTo("observe")
      <3> DEFINE l == [mem EXCEPT !.uid["pod"] = api["pod"].uid]
      <3>0. /\ l.uid = [mem.uid EXCEPT !["pod"] = api["pod"].uid] /\ l.armed = mem.armed
            /\ l.launched = mem.launched /\ SameDocs(l, mem) /\ SamePlace(l, mem)
        BY UidField
      <3> HIDE DEF l
      <3>1. MonitorLedger(l) /\ l.phase = mem.phase
        BY <2>5, <3>0 DEF MonitorLedger, SamePlace
      <3>2. mem' = l /\ disk' = l /\ proc' = "observe"
        BY <2>5 DEF Save, GoTo, l
      <3> QED
        BY <1>1, <3>1, <3>2, MonitorFrame
    <2> QED
      BY <1>4, <2>1, <2>2, <2>3, <2>4, <2>5 DEF ObservePod
  <1>5. CASE MonitorFails \/ GateRefused
    BY <1>1, <1>2, <1>5, MonitorFrame DEF MonitorFails, GateRefused, Return
  <1>6. CASE GateRetry
    BY <1>1, <1>2, <1>6, MonitorFrame DEF GateRetry, Keep, GoTo
  <1>7. CASE ArmCollector
    <2> DEFINE l == [mem EXCEPT !.armed = TRUE]
    <2>1. /\ SameDocs(l, mem) /\ SamePlace(l, mem) /\ l.uid = mem.uid /\ l.armed = TRUE
          /\ l.launched = mem.launched
      BY DEF Ledger, SameDocs, SamePlace
    <2> HIDE DEF l
    <2>2. mem' = l /\ disk' = l /\ proc = "gate" /\ proc' = "gate"
      BY <1>7 DEF ArmCollector, Save, GoTo, l
    <2>3. mem.uid["pod"] # 0
      BY <2>2 DEF Context, SInv, Bound, Synced
    <2>4. MonitorLedger(mem') /\ mem'.phase = mem.phase /\ mem'.uid = mem.uid
      BY <2>1, <2>2 DEF MonitorLedger, SamePlace
    <2> QED
      BY <1>1, <2>2, <2>3, <2>4, MonitorFrame
  <1> QED
    BY <1>3, <1>4, <1>5, <1>6, <1>7

LEMMA ReleaseSafe ==
    ASSUME Context, StartCollector \/ ReleaseGate
    PROVE  SInv'
  <1> USE Typed
  <1>1. /\ proc = "gate" /\ mem.armed /\ mem' = mem /\ disk' = disk /\ proc' \in {"gate", "monitor"}
        /\ UNCHANGED <<files, obs, ready, api, born, pod, stage, writes, inflight, removed>>
    BY DEF StartCollector, ReleaseGate, procVars, fileVars, ghosts, Keep, GoTo
  <1>2. /\ disk.phase \in {"provisioning", "launching", "running"}
        /\ disk.phase \notin {"none", "collecting", "disposing", "complete"}
        /\ mem.armed = disk.armed /\ mem.uid = disk.uid
        /\ disk.uid["job"] # 0 /\ disk.uid["pod"] # 0
    BY <1>1, EarlyPhase DEF EarlyPoints, Context, SInv, Bound
  <1>3. Gated'
    <2>1. CASE StartCollector
      BY <1>1, <1>2, <2>1 DEF StartCollector, Context, SInv, Gated
    <2>2. CASE ReleaseGate
      BY <1>1, <1>2, <2>2 DEF ReleaseGate, Gated
    <2> QED
      BY <2>1, <2>2
  <1>4. Synced' /\ Phased' /\ Published' /\ Owned'
    BY <1>1, <1>2 DEF Context, SInv, Synced, Phased, Published, Owned, EarlyPoints, DisposePoints
  <1>5. Bound'
    BY <1>1, <1>2 DEF Context, SInv, Bound, RecordedAt, Ours, Exists
  <1>6. Kept' /\ Fresh'
    BY <1>1 DEF Context, SInv, Kept, Fresh, Exists
  <1>7. Gone'
    BY <1>1, <1>2, NothingAbsent DEF Context, Gone, SettledAt
  <1> QED
    BY <1>3, <1>4, <1>5, <1>6, <1>7, FramedInv

----------------------------------------------------------------------------
(* finishCollection *)

\* The staging data only moves the ledger's artifacts, and forward: the guard status
\* is at least as recent, an accepted digest is new or the one already recorded.
LEMMA StageLedgerFields ==
    ASSUME Context, NEW l, l = StageLedger(mem)
    PROVE  /\ SameIds(l, mem) /\ SamePlace(l, mem)
           /\ l.guard = (IF stage.evidence # "garbled" /\ stage.version # 0
                         THEN stage.version ELSE mem.guard)
           /\ l.digest \in {mem.digest, stage.version}
           /\ mem.digest # 0 => l.digest = mem.digest
           /\ l.evidence = "accepted" =>
                 \/ stage.evidence = "garbled" /\ l = mem
                 \/ stage.evidence = "valid" /\ l.digest = stage.version
           /\ l.evidence # "accepted" => l.digest = mem.digest
  <1>1. /\ mem \in Ledger
        /\ stage.version \in Version /\ stage.evidence \in {"none", "valid", "invalid", "garbled"}
    BY Typed DEF Context, TypeOK
  <1> DEFINE g == [mem EXCEPT !.guard = IF stage.version = 0 THEN @ ELSE stage.version]
  <1>2. /\ g \in Ledger /\ SameIds(g, mem) /\ SamePlace(g, mem) /\ g.digest = mem.digest
        /\ g.guard = IF stage.version = 0 THEN mem.guard ELSE stage.version
    BY <1>1 DEF Ledger, SameIds, SamePlace
  <1>3. l = CASE stage.evidence = "none"    -> [g EXCEPT !.evidence = "missing"]
          [] stage.evidence = "invalid" -> [g EXCEPT !.evidence = "rejected"]
          [] stage.evidence = "garbled" -> mem
          [] stage.evidence = "valid" /\ mem.digest \notin {0, stage.version} ->
                [g EXCEPT !.evidence = "conflict"]
          [] OTHER -> [g EXCEPT !.evidence = "accepted", !.digest = stage.version]
    BY DEF StageLedger
  <1> HIDE DEF g
  <1>4. ASSUME NEW e, l = [g EXCEPT !.evidence = e]
        PROVE  /\ SameIds(l, mem) /\ SamePlace(l, mem) /\ l.guard = g.guard
               /\ l.digest = mem.digest /\ l.evidence = e
    BY <1>2, <1>4 DEF Ledger, SameIds, SamePlace
  <1>5. LET k == [g EXCEPT !.evidence = "accepted", !.digest = stage.version]
        IN  /\ SameIds(k, mem) /\ SamePlace(k, mem) /\ k.guard = g.guard
            /\ k.digest = stage.version /\ k.evidence = "accepted"
    BY <1>2 DEF Ledger, SameIds, SamePlace
  <1>6. CASE stage.evidence = "garbled"
    BY <1>3, <1>6 DEF SameIds, SamePlace
  <1>7. CASE stage.evidence \in {"none", "invalid"}
    <2>1. \E e \in {"missing", "rejected"} : l = [g EXCEPT !.evidence = e]
      BY <1>3, <1>7
    <2>2. /\ SameIds(l, mem) /\ SamePlace(l, mem) /\ l.guard = g.guard
          /\ l.digest = mem.digest /\ l.evidence # "accepted"
      BY <1>4, <2>1
    <2> QED
      BY <1>2, <1>7, <2>2
  <1>8. CASE stage.evidence = "valid" /\ mem.digest \notin {0, stage.version}
    <2>1. l = [g EXCEPT !.evidence = "conflict"]
      BY <1>3, <1>8
    <2>2. /\ SameIds(l, mem) /\ SamePlace(l, mem) /\ l.guard = g.guard
          /\ l.digest = mem.digest /\ l.evidence # "accepted"
      BY <1>4, <2>1
    <2> QED
      BY <1>2, <1>8, <2>2
  <1>9. CASE stage.evidence = "valid" /\ mem.digest \in {0, stage.version}
    <2>1. l = [g EXCEPT !.evidence = "accepted", !.digest = stage.version]
      BY <1>3, <1>9
    <2> QED
      BY <1>2, <1>5, <1>9, <2>1
  <1> QED
    BY <1>1, <1>6, <1>7, <1>8, <1>9

LEMMA StageSafe ==
    ASSUME Context, CollectStage \/ StageFails
    PROVE  SInv'
  <1> USE Typed
  <1>1. /\ proc = "stageCM" /\ proc' = "logs" /\ disk' = disk
        /\ UNCHANGED <<obs, ready, kubeVars, removed>>
    BY DEF CollectStage, StageFails, ghosts, Keep
  <1>2. disk.phase = "collecting" /\ mem.phase = disk.phase /\ mem.uid = disk.uid
    BY <1>1 DEF Context, SInv, Phased, Synced
  <1>3. /\ SameIds(mem', mem) /\ SamePlace(mem', mem) /\ Kept'
    <2> USE <1>1 DEF kubeVars
    <2>1. /\ files \in [guard : Version, evidence : Version] /\ files.guard \in Nat
          /\ mem.guard \in Nat /\ disk.guard \in Nat /\ stage.version \in Nat /\ writes \in Nat
      BY CoordinatorAssumption, LedgerParts DEF Context, TypeOK, Version
    <2>2. CASE mem' = mem /\ files' = files
      BY <2>2 DEF Context, SInv, Kept, SameIds, SamePlace
    <2>3. CASE mem' = [mem EXCEPT !.evidence = "missing"] /\ files' = files
      <3>1. /\ SameIds(mem', mem) /\ SamePlace(mem', mem) /\ mem'.evidence = "missing"
            /\ mem'.guard = mem.guard /\ mem'.digest = mem.digest
        BY <2>3 DEF Ledger, SameIds, SamePlace
      <3> QED
        BY <2>3, <3>1 DEF Context, SInv, Kept
    <2>4. CASE /\ mem' = StageLedger(mem)
               /\ files' = [guard    |-> IF stage.evidence # "garbled" /\ stage.version # 0
                                         THEN stage.version ELSE files.guard,
                            evidence |-> IF mem'.evidence = "accepted" THEN mem'.digest
                                         ELSE files.evidence]
      <3>1. /\ SameIds(mem', mem) /\ SamePlace(mem', mem)
            /\ mem'.guard = (IF stage.evidence # "garbled" /\ stage.version # 0
                             THEN stage.version ELSE mem.guard)
            /\ mem'.digest \in {mem.digest, stage.version}
            /\ mem.digest # 0 => mem'.digest = mem.digest
            /\ mem'.evidence = "accepted" =>
                 \/ stage.evidence = "garbled" /\ mem' = mem
                 \/ stage.evidence = "valid" /\ mem'.digest = stage.version
            /\ mem'.evidence # "accepted" => mem'.digest = mem.digest
        BY <2>4, StageLedgerFields
      <3>2. /\ files'.guard = (IF stage.evidence # "garbled" /\ stage.version # 0
                               THEN stage.version ELSE files.guard)
            /\ files'.evidence = (IF mem'.evidence = "accepted" THEN mem'.digest
                                  ELSE files.evidence)
        BY <2>4
      <3>3. /\ stage.version \in {0, writes} /\ files.guard <= writes
            /\ stage.evidence # "none" => stage.version # 0
            /\ mem.guard <= files.guard /\ disk.guard <= files.guard
            /\ mem.evidence = "accepted" => mem.digest # 0
            /\ disk.evidence = "accepted" => disk.digest # 0
            /\ mem.digest # 0 => files.evidence = mem.digest
            /\ disk.digest # 0 => files.evidence = disk.digest
            /\ disk.digest # 0 => mem.digest = disk.digest
        BY DEF Context, SInv, Kept
      <3>4. /\ files'.guard <= writes /\ mem'.guard <= files'.guard /\ disk.guard <= files'.guard
        BY <2>1, <3>1, <3>2, <3>3
      <3>5. mem'.evidence = "accepted" => mem'.digest # 0
        BY <3>1, <3>3
      <3>6. mem'.digest # 0 => files'.evidence = mem'.digest
        BY <3>1, <3>2, <3>3
      <3>7. disk.digest # 0 => mem'.digest = disk.digest /\ files'.evidence = disk.digest
        BY <3>1, <3>3, <3>6
      <3> QED
        BY <3>1, <3>3, <3>4, <3>5, <3>6, <3>7 DEF Kept
    <2>5. CASE /\ mem' = mem /\ files' = [files EXCEPT !.guard = stage.version]
               /\ stage.version # 0
      <3>1. files'.guard = stage.version /\ files'.evidence = files.evidence
        BY <2>1, <2>5
      <3> QED
        BY <2>1, <2>5, <3>1 DEF Context, SInv, Kept, SameIds, SamePlace
    <2>6. CASE /\ mem' = [mem EXCEPT !.guard = stage.version] /\ stage.version # 0
               /\ mem.digest \in {0, stage.version}
               /\ \E e \in {files.evidence, stage.version} :
                     files' = [guard |-> stage.version, evidence |-> e]
      <3>1. /\ files'.guard = stage.version
            /\ files'.evidence \in {files.evidence, stage.version}
        BY <2>6
      <3>2. /\ SameIds(mem', mem) /\ SamePlace(mem', mem) /\ mem'.guard = stage.version
            /\ mem'.evidence = mem.evidence /\ mem'.digest = mem.digest
        BY <2>6 DEF Ledger, SameIds, SamePlace
      <3> QED
        BY <2>1, <2>6, <3>1, <3>2 DEF Context, SInv, Kept
    <2> QED
      BY <2>2, <2>3, <2>4, <2>5, <2>6 DEF CollectStage, StageFails, Keep
  <1>4. Published' /\ Gated' /\ Owned'
    BY <1>1, <1>2, NothingPublished DEF Context, SInv, Published, Gated, Owned, kubeVars
  <1>5. Fresh' /\ Synced' /\ Phased'
    BY <1>1, <1>2, <1>3 DEF Context, SInv, Fresh, Synced, Phased, Exists, SameIds, SamePlace,
       kubeVars, EarlyPoints, BeforeLaunch, Provisioned, Disposable, DisposePoints
  <1>6. Bound'
    BY <1>1, <1>2, <1>3 DEF Context, SInv, Bound, RecordedAt, Ours, Exists, kubeVars, SameIds
  <1>7. Gone'
    BY <1>1, <1>2, <1>3, NothingAbsent DEF Context, Gone, SettledAt, SamePlace
  <1> QED
    BY <1>3, <1>4, <1>5, <1>6, <1>7, FramedInv

LEMMA CollectedSafe ==
    ASSUME Context, proc = "logs", NEW l \in Ledger, Alike(l, mem), NEW again \in BOOLEAN,
           Collected(l, again), UNCHANGED <<files, obs, ready, kubeVars, removed>>
    PROVE  SInv'
  <1> USE Typed
  <1>1. disk.phase = "collecting" /\ mem.phase = disk.phase /\ mem.uid = disk.uid
        /\ mem.armed = disk.armed /\ mem.launched = disk.launched
    BY DEF Context, SInv, Phased, Synced, LaunchInv
  <1>2. \E ph \in {"collecting", "disposing"} :
           /\ mem' = [l EXCEPT !.phase = ph] /\ disk' = mem'
           /\ proc' = IF ph = "disposing" THEN "dispose" ELSE "down"
    BY DEF Collected, Return, Save, GoTo
  <1>3. PICK ph \in {"collecting", "disposing"} :
           /\ mem' = [l EXCEPT !.phase = ph] /\ disk' = mem'
           /\ proc' = IF ph = "disposing" THEN "dispose" ELSE "down"
    BY <1>2
  <1>4. SameIds(mem', l) /\ SameDocs(mem', l) /\ mem'.absent = l.absent /\ mem'.phase = ph
    BY <1>3, PhaseField
  <1>5. SameIds(mem', mem) /\ SameDocs(mem', mem) /\ mem'.absent = mem.absent
    BY <1>4 DEF Alike, SameIds, SameDocs, SamePlace
  <1>6. Published' /\ Gated' /\ Owned' /\ Kept' /\ Fresh' /\ Gone'
    BY <1>1, <1>3, <1>4, <1>5, EarlyFrame DEF DisposePoints, SameIds
  <1>7. Synced' /\ Phased'
    BY <1>3, <1>4 DEF Synced, Phased, DisposePoints, EarlyPoints, BeforeLaunch, Provisioned, Disposable
  <1>8. Bound'
    BY <1>1, <1>3, <1>5 DEF Context, SInv, Bound, RecordedAt, Ours, Exists, kubeVars, SameIds
  <1> QED
    BY <1>6, <1>7, <1>8, FramedInv

LEMMA LogsSafe ==
    ASSUME Context, TransferLogs \/ CollectLogs \/ LogsPending \/ LogsFail
    PROVE  SInv'
  <1> USE Typed
  <1>1. proc = "logs" /\ UNCHANGED <<files, obs, ready, kubeVars, removed>>
    BY DEF TransferLogs, CollectLogs, LogsPending, LogsFail, fileVars, ghosts
  <1>2. Alike(mem, mem)
    BY DEF Alike, SameIds, SameDocs, SamePlace
  <1>3. CASE TransferLogs
    <2> DEFINE l == [mem EXCEPT !.collected = TRUE, !.logs = collector]
    <2>1. Alike(l, mem)
      BY LogsFields
    <2> HIDE DEF l
    <2>2. mem' = l /\ disk' = l /\ proc' = "logs"
      BY <1>3 DEF TransferLogs, Save, GoTo, l
    <2>3. disk.phase = "collecting" /\ mem.phase = disk.phase /\ mem.uid = disk.uid
          /\ mem.armed = disk.armed /\ mem.launched = disk.launched
      BY <1>1 DEF Context, SInv, Phased, Synced, LaunchInv
    <2>4. Published' /\ Gated' /\ Owned' /\ Kept' /\ Fresh' /\ Gone'
      BY <1>1, <2>1, <2>2, <2>3, AlikeFrame DEF SettledAt
    <2>5. Synced' /\ Phased'
      BY <2>1, <2>2, <2>3 DEF Synced, Phased, DisposePoints, EarlyPoints, BeforeLaunch,
         Provisioned, Disposable, Alike, SamePlace
    <2>6. Bound'
      BY <1>1, <2>1, <2>2, <2>3
      DEF Context, SInv, Bound, RecordedAt, Ours, Exists, kubeVars, Alike, SameIds
    <2> QED
      BY <2>4, <2>5, <2>6, FramedInv
  <1>4. CASE CollectLogs
    <2>1. [mem EXCEPT !.logs = "missing"] \in Ledger
      BY DEF Ledger
    <2>2. Alike([mem EXCEPT !.logs = "missing"], mem)
      BY LogsFields
    <2> QED
      BY <1>1, <1>2, <1>4, <2>1, <2>2, CollectedSafe DEF CollectLogs
  <1>5. CASE LogsPending \/ LogsFail
    BY <1>1, <1>2, <1>5, CollectedSafe DEF LogsPending, LogsFail
  <1> QED
    BY <1>3, <1>4, <1>5

----------------------------------------------------------------------------
(* finishDisposal *)

\* A process that disposes works on a ledger of that phase and of recorded UIDs.
LEMMA DisposePhase ==
    ASSUME Context, proc \in DisposePoints \cup {"dispose"}
    PROVE  /\ disk.phase = "disposing" /\ mem.phase = "disposing" /\ mem.uid = disk.uid
           /\ mem.armed = disk.armed /\ mem.launched = disk.launched
           /\ obs = NoLedger /\ ready = NoLedger
  BY NothingPublished DEF Context, SInv, Phased, Synced, LaunchInv, DisposePoints

LEMMA CheckClusterSafe == ASSUME Context, CheckCluster PROVE SInv'
  <1> USE Typed
  <1>1. /\ proc = "dispose" /\ UNCHANGED <<files, obs, ready, kubeVars, removed>>
        /\ mem' = mem /\ ((disk' = disk /\ proc' = "delResource") \/ (disk' = mem /\ proc' = "down"))
    BY DEF CheckCluster, fileVars, ghosts, Keep, Return, GoTo
  <1>2. /\ disk.phase = "disposing" /\ mem.phase = "disposing" /\ mem.uid = disk.uid
        /\ mem.armed = disk.armed /\ mem.launched = disk.launched
    BY <1>1, DisposePhase
  <1>3. Published' /\ Gated' /\ Owned' /\ Kept' /\ Fresh' /\ Gone'
    BY <1>1, <1>2, AlikeFrame DEF SettledAt, Alike, SameIds, SameDocs, SamePlace
  <1>4. Synced' /\ Phased'
    BY <1>1, <1>2 DEF Synced, Phased, DisposePoints, EarlyPoints, BeforeLaunch, Provisioned, Disposable
  <1>5. Bound'
    BY <1>1, <1>2 DEF Context, SInv, Bound, RecordedAt, Ours, Exists, kubeVars
  <1> QED
    BY <1>3, <1>4, <1>5, FramedInv

\* One object is settled: the absence recorded for it is true, and the ledger is
\* complete only when all four are.
LEMMA SettledSafe ==
    ASSUME Context, NEW p \in DisposePoints, proc = p, NEW ok \in BOOLEAN, Settled(p, ok),
           ok => ~Exists(Target(p)), UNCHANGED <<files, obs, ready, kubeVars, removed>>
    PROVE  SInv'
  <1> USE Typed
  <1> DEFINE T == Target(p)
  <1>1. T \in Disposable /\ T \in Obj
    BY DEF Target, DisposePoints, Disposable, Obj, Provisioned
  <1> HIDE DEF T
  <1> DEFINE l == [mem EXCEPT !.absent[T] = ok]
             done == [l EXCEPT !.phase = "complete"]
  <1>2. /\ l \in Ledger /\ l.absent = [mem.absent EXCEPT ![T] = ok] /\ l.phase = mem.phase
        /\ SameIds(l, mem) /\ SameDocs(l, mem)
    <2>1. l \in Ledger
      BY <1>1, LedgerAbsent
    <2>2. /\ l.absent = [mem.absent EXCEPT ![T] = ok] /\ l.phase = mem.phase
          /\ SameIds(l, mem) /\ SameDocs(l, mem)
      BY AbsentField
    <2> QED
      BY <2>1, <2>2
  <1> HIDE DEF l
  <1>3. /\ SameIds(done, mem) /\ SameDocs(done, mem) /\ done.absent = l.absent
        /\ done.phase = "complete"
    BY <1>2, PhaseField DEF SameIds, SameDocs
  <1> HIDE DEF done
  <1>4. /\ disk.phase = "disposing" /\ mem.phase = "disposing" /\ mem.uid = disk.uid
        /\ mem.armed = disk.armed /\ mem.launched = disk.launched
        /\ obs = NoLedger /\ ready = NoLedger
    BY DisposePhase
  <1>5. \/ /\ p # "delRole" /\ mem' = l /\ disk' = disk /\ proc' = NextTarget(p)
           /\ failed' = (failed \/ ~ok)
        \/ mem' = l /\ disk' = l /\ proc' = "down"
        \/ /\ p = "delRole" /\ ok /\ ~failed /\ mem' = done /\ disk' = done /\ proc' = "publish"
    BY DEF Settled, Return, Save, Keep, GoTo, l, done, T
  <1>6. p # "delRole" => /\ NextTarget(p) \in {"delRunner", "delBinding", "delRole"}
                         /\ SettledAt(NextTarget(p)) = SettledAt(p) \cup {T}
    BY DEF NextTarget, SettledAt, DisposePoints, Target, T
  <1>7. SameIds(mem', mem) /\ SameDocs(mem', mem) /\ SameIds(disk', mem)
        /\ (SameDocs(disk', disk) \/ SameDocs(disk', mem))
    BY <1>2, <1>3, <1>4, <1>5 DEF SameIds, SameDocs
  <1>8. Synced'
    BY <1>2, <1>4, <1>5, <1>6, <1>7 DEF Synced, SameIds
  <1>9. Phased'
    BY <1>2, <1>3, <1>4, <1>5, <1>6 DEF Phased, DisposePoints, EarlyPoints, BeforeLaunch,
       Provisioned, Disposable
  <1>10. Published'
    BY <1>4, <1>5, <1>6 DEF Published
  <1>11. Bound'
    BY <1>4, <1>5, <1>6, <1>7
    DEF Context, SInv, Bound, RecordedAt, Ours, Exists, kubeVars, SameIds
  <1>12. Gated' /\ Owned'
    BY <1>4, <1>7 DEF Context, SInv, Gated, Owned, kubeVars, SameIds
  <1>13. Kept'
    BY <1>7 DEF Context, SInv, Kept, kubeVars, SameDocs
  <1>14. Fresh'
    BY <1>7 DEF Context, SInv, Fresh, Exists, kubeVars, SameIds
  <1>15. Gone'
    <2>1. ASSUME NEW o \in Disposable, l.absent[o]
          PROVE  /\ ~Ours(o) /\ (mem.uid[o] # 0 => api[o].uid # mem.uid[o])
                 /\ o = "runner" => \A i \in {"job", "pod"} : mem.uid[i] # 0 => api[i].uid # mem.uid[i]
                 /\ o = "runner" /\ "runner" \notin Tampered => ~Exists("runner")
      <3>1. CASE o = T
        <4>1. ~Exists(o)
          BY <1>2, <2>1, <3>1 DEF T
        <4>2. o = "runner" => \A i \in {"job", "pod"} : api[i].uid = 0
          BY <4>1 DEF Context, SInv, Fresh, Exists, InRunner
        <4> QED
          BY <4>1, <4>2 DEF Ours, Exists
      <3>2. CASE o # T
        <4>1. mem.absent[o]
          BY <1>1, <1>2, <2>1, <3>2
        <4> QED
          BY <4>1 DEF Context, SInv, Gone, AbsentIsGone
      <3> QED
        BY <3>1, <3>2
    <2>2. ASSUME NEW o \in Disposable, mem'.absent[o] PROVE AbsentIsGone(mem, o)'
      <3>1. l.absent[o] /\ mem'.phase \in {"disposing", "complete"}
        BY <1>2, <1>3, <1>4, <1>5, <2>2
      <3> QED
        BY <1>7, <2>1, <3>1 DEF AbsentIsGone, Ours, Exists, kubeVars, SameIds
    <2>3. ASSUME NEW o \in Disposable, disk'.absent[o] PROVE AbsentIsGone(disk, o)'
      <3>1. CASE disk' = disk
        <4>1. AbsentIsGone(disk, o)
          BY <2>3, <3>1 DEF Context, SInv, Gone
        <4> QED
          BY <3>1, <4>1 DEF AbsentIsGone, Ours, Exists, kubeVars
      <3>2. CASE disk' = mem'
        BY <2>2, <2>3, <3>2 DEF AbsentIsGone
      <3> QED
        BY <1>5, <3>1, <3>2
    <2>4. ~failed' => \A o \in SettledAt(proc') : mem'.absent[o]
      <3>1. ~failed => \A o \in SettledAt(p) : mem.absent[o]
        BY DEF Context, SInv, Gone
      <3>2. SettledAt("down") = {} /\ SettledAt("publish") = {}
        BY DEF SettledAt
      <3>3. SettledAt(p) \subseteq Disposable
        BY DEF SettledAt, Disposable
      <3>4. (~failed /\ ok) => \A o \in SettledAt(p) \cup {T} : l.absent[o]
        BY <1>1, <1>2, <3>1, <3>3
      <3> QED
        BY <1>5, <1>6, <3>2, <3>4
    <2>5. disk'.phase = "complete" => \A o \in Disposable : disk'.absent[o]
      <3>1. ASSUME disk'.phase = "complete" PROVE \A o \in Disposable : disk'.absent[o]
        <4>1. p = "delRole" /\ ok /\ ~failed /\ disk' = done
          BY <1>2, <1>4, <1>5, <3>1
        <4>2. \A o \in SettledAt("delRole") : mem.absent[o]
          BY <4>1 DEF Context, SInv, Gone
        <4>3. Disposable = SettledAt("delRole") \cup {T}
          BY <4>1 DEF SettledAt, Disposable, Target, T
        <4> QED
          BY <1>1, <1>2, <1>3, <4>1, <4>2, <4>3
      <3> QED
        BY <3>1
    <2> QED
      BY <2>2, <2>3, <2>4, <2>5 DEF Gone
  <1> QED
    BY <1>8, <1>9, <1>10, <1>11, <1>12, <1>13, <1>14, <1>15, FramedInv

LEMMA AdoptSafe == ASSUME Context, NEW p \in DisposePoints, Adopt(p) PROVE SInv'
  <1> USE Typed
  <1> DEFINE T == Target(p)
  <1>1. T \in Disposable /\ T \in Obj \ {"job", "pod"}
    BY DEF Target, DisposePoints, Disposable, Obj, Provisioned
  <1>2. /\ proc = p /\ Ours(T) /\ mem.uid[T] = 0
        /\ UNCHANGED <<failed, files, obs, ready, kubeVars, removed>>
    BY DEF Adopt, fileVars, ghosts, GoTo
  <1> HIDE DEF T
  <1> DEFINE l == [mem EXCEPT !.uid[T] = api[T].uid]
  <1>3. /\ l.uid = [mem.uid EXCEPT ![T] = api[T].uid] /\ l.armed = mem.armed
        /\ l.launched = mem.launched /\ SameDocs(l, mem) /\ SamePlace(l, mem)
    BY UidField
  <1> HIDE DEF l
  <1>4. mem' = l /\ disk' = l /\ proc' = p
    BY DEF Adopt, Save, GoTo, l, T
  <1>5. /\ disk.phase = "disposing" /\ mem.phase = "disposing" /\ mem.uid = disk.uid
        /\ mem.armed = disk.armed /\ mem.launched = disk.launched
        /\ obs = NoLedger /\ ready = NoLedger
    BY <1>2, DisposePhase
  <1>6. /\ mem'.uid[T] = api[T].uid /\ mem'.uid[T] # 0
        /\ \A o \in Obj \ {T} : mem'.uid[o] = mem.uid[o]
        /\ \A o \in Obj : mem.uid[o] # 0 => mem'.uid[o] = mem.uid[o]
        /\ mem'.phase = "disposing" /\ mem'.absent = mem.absent
    BY <1>1, <1>2, <1>3, <1>4, <1>5 DEF Ours, Exists, SamePlace
  <1>7. Synced' /\ Published'
    BY <1>2, <1>4, <1>5, <1>6 DEF Synced, Published, DisposePoints
  <1>8. Phased'
    BY <1>4, <1>6 DEF Phased, DisposePoints, EarlyPoints, BeforeLaunch, Provisioned, Disposable
  <1>9. Bound'
    <2>1. RecordedAt(p) = {} /\ p \notin {"create", "findJob", "monitor", "observe", "gate"}
      BY DEF RecordedAt, DisposePoints
    <2>2. disk'.uid["job"] = disk.uid["job"] /\ disk'.uid["pod"] = disk.uid["pod"]
      BY <1>1, <1>4, <1>5, <1>6 DEF Obj
    <2>3. disk'.launched = disk.launched /\ disk'.armed = disk.armed
      BY <1>3, <1>4, <1>5
    <2>4. \A o \in Obj : disk.uid[o] # 0 => disk'.uid[o] # 0
      BY <1>4, <1>5, <1>6
    <2> QED
      BY <1>2, <1>4, <2>1, <2>2, <2>3, <2>4
      DEF Context, SInv, Bound, Ours, Exists, kubeVars, Obj, Provisioned
  <1>10. Gated'
    BY <1>1, <1>2, <1>3, <1>4, <1>5, <1>6 DEF Context, SInv, Gated, kubeVars, Obj
  <1>11. Owned'
    BY <1>2, <1>4, <1>5, <1>6 DEF Context, SInv, Owned, Obj, Provisioned
  <1>12. Kept'
    BY <1>2, <1>3, <1>4 DEF Context, SInv, Kept, kubeVars, SameDocs
  <1>13. Fresh'
    BY <1>1, <1>2, <1>6 DEF Context, SInv, Fresh, Exists, kubeVars
  <1>14. Gone'
    <2>1. ASSUME NEW o \in Disposable, mem'.absent[o] PROVE AbsentIsGone(mem, o)'
      <3>1. AbsentIsGone(mem, o)
        BY <1>6, <2>1 DEF Context, SInv, Gone
      <3>2. o # T /\ o \in Obj
        BY <1>2, <3>1 DEF AbsentIsGone, Obj, Provisioned
      <3>3. mem'.uid[o] = mem.uid[o] /\ \A i \in {"job", "pod"} : mem'.uid[i] = mem.uid[i]
        BY <1>1, <1>6, <3>2 DEF Obj
      <3> QED
        BY <1>2, <1>6, <3>1, <3>3 DEF AbsentIsGone, Ours, Exists, kubeVars
    <2>2. ~failed' => \A o \in SettledAt(proc') : mem'.absent[o]
      BY <1>2, <1>4, <1>6 DEF Context, SInv, Gone
    <2> QED
      BY <1>4, <1>6, <2>1, <2>2 DEF Gone
  <1> QED
    BY <1>7, <1>8, <1>9, <1>10, <1>11, <1>12, <1>13, <1>14, FramedInv

\* A deletion mark is all a step puts on an object: everything the ledger says of UIDs
\* stays true.
LEMMA MarkFrame ==
    ASSUME Context, UNCHANGED <<procVars, files, obs, ready, born, stage, writes, gate, collector>>,
           inflight' => inflight,
           \A o \in Obj : api'[o].uid = api[o].uid /\ api'[o].owned = api[o].owned
    PROVE  /\ Synced' /\ Phased' /\ Published' /\ Bound' /\ Gated' /\ Kept' /\ Fresh' /\ Gone'
           /\ removed' = removed => Owned'
  <1> USE DEF procVars
  <1>1. \A o \in Obj : (Exists(o)' <=> Exists(o)) /\ (Ours(o)' <=> Ours(o))
    BY DEF Exists, Ours
  <1>2. Synced' /\ Phased' /\ Published' /\ Gated' /\ Kept' /\ (removed' = removed => Owned')
    BY DEF Context, SInv, Synced, Phased, Published, Gated, Kept, Owned
  <1>3. Bound'
    BY <1>1 DEF Context, SInv, Bound, Obj
  <1>4. Fresh'
    BY <1>1 DEF Context, SInv, Fresh, Obj, InRunner, Provisioned, Disposable
  <1>5. Gone'
    <2>1. \A l, o : o \in Disposable /\ AbsentIsGone(l, o)
             => /\ l.phase \in {"disposing", "complete"} /\ ~Ours(o)'
                /\ l.uid[o] # 0 => api'[o].uid # l.uid[o]
                /\ o = "runner" => \A i \in {"job", "pod"} : l.uid[i] # 0 => api'[i].uid # l.uid[i]
                /\ o = "runner" /\ "runner" \notin Tampered => ~Exists("runner")'
      BY <1>1 DEF AbsentIsGone, Obj, Provisioned
    <2>2. ASSUME NEW o \in Disposable, mem'.absent[o] PROVE AbsentIsGone(mem, o)'
      BY <2>1, <2>2 DEF Context, SInv, Gone, AbsentIsGone
    <2>3. ASSUME NEW o \in Disposable, disk'.absent[o] PROVE AbsentIsGone(disk, o)'
      BY <2>1, <2>3 DEF Context, SInv, Gone, AbsentIsGone
    <2>4. ~failed' => \A o \in SettledAt(proc') : mem'.absent[o]
      BY DEF Context, SInv, Gone
    <2>5. disk'.phase = "complete" => \A o \in Disposable : disk'.absent[o]
      BY DEF Context, SInv, Gone
    <2> QED
      BY <2>2, <2>3, <2>4, <2>5 DEF Gone
  <1> QED
    BY <1>2, <1>3, <1>4, <1>5

LEMMA DeleteSafe == ASSUME Context, NEW p \in DisposePoints, Delete(p) PROVE SInv'
  <1> USE Typed
  <1> DEFINE T == Target(p)
  <1>1. T \in Disposable /\ T \in Obj
    BY DEF Target, DisposePoints, Disposable, Obj, Provisioned
  <1>2. /\ proc = p /\ Ours(T) /\ mem.uid[T] = api[T].uid
        /\ UNCHANGED <<procVars, files, obs, ready, born, stage, writes, gate, collector, inflight>>
        /\ api' = [api EXCEPT ![T].term = TRUE]
        /\ removed' = removed \cup {[obj |-> T, uid |-> api[T].uid, owned |-> api[T].owned]}
    BY DEF Delete, fileVars
  <1> HIDE DEF T
  <1>3. \A o \in Obj : api'[o].uid = api[o].uid /\ api'[o].owned = api[o].owned
    BY <1>1, <1>2 DEF Context, TypeOK
  <1>4. Owned'
    <2>1. disk.uid[T] = api[T].uid /\ api[T].uid # 0 /\ api[T].owned
      BY <1>1, <1>2, DisposePhase DEF Ours, Exists
    <2> QED
      BY <1>1, <1>2, <2>1 DEF Context, SInv, Owned, procVars
  <1> QED
    BY <1>2, <1>3, <1>4, MarkFrame, FramedInv

LEMMA DisposeSafe ==
    ASSUME Context, NEW p \in DisposePoints,
           DisposeGone(p) \/ DisposeFails(p) \/ Adopt(p) \/ Delete(p)
    PROVE  SInv'
  <1>1. CASE DisposeGone(p)
    BY <1>1, SettledSafe DEF DisposeGone, fileVars, ghosts
  <1>2. CASE DisposeFails(p)
    BY <1>2, SettledSafe DEF DisposeFails, fileVars, ghosts
  <1> QED
    BY <1>1, <1>2, AdoptSafe, DeleteSafe

----------------------------------------------------------------------------
(* publishObservations *)

LEMMA PublishSafe ==
    ASSUME Context, PublishObservations \/ PublishReady
    PROVE  SInv'
  <1> USE Typed
  <1>1. /\ proc \in {"publish", "mark"} /\ mem' = mem /\ disk' = disk /\ mem = disk
        /\ disk.phase = "complete" /\ UNCHANGED <<files, kubeVars, removed>>
        /\ proc' \in {"mark", "down"}
    BY DEF PublishObservations, PublishReady, Stop, Keep, GoTo, Context, SInv, Phased, ghosts
  <1>2. Published'
    <2>1. CASE PublishObservations
      BY <1>1, <2>1 DEF PublishObservations, Stop, Keep, GoTo, Context, SInv, Published
    <2>2. CASE PublishReady
      BY <1>1, <2>2 DEF PublishReady, Stop, Context, SInv, Published
    <2> QED
      BY <2>1, <2>2
  <1>3. Synced' /\ Phased'
    BY <1>1 DEF Synced, Phased, EarlyPoints, BeforeLaunch, Provisioned, Disposable, DisposePoints
  <1>4. Bound'
    BY <1>1 DEF Context, SInv, Bound, RecordedAt, Ours, Exists, kubeVars
  <1>5. Gated' /\ Owned' /\ Kept' /\ Fresh'
    BY <1>1 DEF Context, SInv, Gated, Owned, Kept, Fresh, Exists, kubeVars
  <1>6. Gone'
    <2>1. SettledAt(proc') = {}
      BY <1>1 DEF SettledAt
    <2> QED
      BY <1>1, <2>1 DEF Context, SInv, Gone, AbsentIsGone, Ours, Exists, kubeVars
  <1> QED
    BY <1>2, <1>3, <1>4, <1>5, <1>6, FramedInv

----------------------------------------------------------------------------
(* The cluster, the runner pod and everybody else *)

\* Objects only disappear, the namespace with what it holds.
LEMMA ShrinkFrame ==
    ASSUME Context, UNCHANGED <<procVars, files, obs, ready, born, writes, gate, removed>>,
           collector # "idle" => collector' # "idle", stage' \in {stage, NoData},
           inflight' => inflight, \A o \in Obj : api'[o] \in {api[o], Absent},
           ~Exists("runner")' => \A o \in InRunner : ~Exists(o)'
    PROVE  SInv'
  <1> USE Typed DEF procVars
  <1>1. /\ \A o \in Obj : (Exists(o)' => Exists(o)) /\ (Ours(o)' => Ours(o))
        /\ \A o \in Obj : api'[o].uid \in {api[o].uid, 0}
    BY DEF Exists, Ours, Absent
  <1>2. Synced' /\ Phased' /\ Published' /\ Gated' /\ Owned'
    BY DEF Context, SInv, Synced, Phased, Published, Gated, Owned
  <1>3. Bound'
    BY <1>1 DEF Context, SInv, Bound, Obj
  <1>4. Kept'
    BY DEF Context, SInv, Kept, NoData
  <1>5. Fresh'
    BY <1>1, CoordinatorAssumption DEF Context, SInv, Fresh, TypeOK
  <1>6. Gone'
    <2>1. \A l, o : o \in Disposable /\ AbsentIsGone(l, o)
             => /\ l.phase \in {"disposing", "complete"} /\ ~Ours(o)'
                /\ l.uid[o] # 0 => api'[o].uid # l.uid[o]
                /\ o = "runner" => \A i \in {"job", "pod"} : l.uid[i] # 0 => api'[i].uid # l.uid[i]
                /\ o = "runner" /\ "runner" \notin Tampered => ~Exists("runner")'
      BY <1>1 DEF AbsentIsGone, Obj, Provisioned
    <2>2. ASSUME NEW o \in Disposable, mem'.absent[o] PROVE AbsentIsGone(mem, o)'
      BY <2>1, <2>2 DEF Context, SInv, Gone, AbsentIsGone
    <2>3. ASSUME NEW o \in Disposable, disk'.absent[o] PROVE AbsentIsGone(disk, o)'
      BY <2>1, <2>3 DEF Context, SInv, Gone, AbsentIsGone
    <2>4. ~failed' => \A o \in SettledAt(proc') : mem'.absent[o]
      BY DEF Context, SInv, Gone
    <2>5. disk'.phase = "complete" => \A o \in Disposable : disk'.absent[o]
      BY DEF Context, SInv, Gone
    <2> QED
      BY <2>2, <2>3, <2>4, <2>5 DEF Gone
  <1> QED
    BY <1>2, <1>3, <1>4, <1>5, <1>6, FramedInv

\* An object o appears that the process did not ask for, or no longer knows of.
LEMMA BornFrame ==
    ASSUME Context, NEW o \in Obj, NEW b \in BOOLEAN, CanCreate(o),
           api' = [api EXCEPT ![o] = [uid |-> born[o] + 1, owned |-> b, term |-> FALSE]],
           born' = [born EXCEPT ![o] = @ + 1],
           b => o \in {"job", "pod"}, o = "job" /\ b => disk.launched,
           o = "runner" => "runner" \in Tampered, inflight' => inflight,
           UNCHANGED <<procVars, files, obs, ready, stage, writes, gate, collector, removed>>
    PROVE  SInv'
  <1> USE Typed DEF procVars
  <1>1. /\ api'[o].uid = born[o] + 1 /\ born'[o] = born[o] + 1 /\ api'[o].owned = b
        /\ \A x \in Obj \ {o} : api'[x] = api[x] /\ born'[x] = born[x]
    BY DEF Context, TypeOK
  <1>2. /\ \A x \in Obj : api[x].uid <= born[x] /\ mem.uid[x] <= born[x] /\ disk.uid[x] <= born[x]
        /\ \A x \in Obj : born[x] \in Nat /\ api[x].uid \in Nat /\ mem.uid[x] \in Nat /\ disk.uid[x] \in Nat
    <2>1. \A x \in Obj : born[x] \in Nat /\ api[x].uid \in Nat
      BY CoordinatorAssumption DEF Context, TypeOK
    <2>2. \A x \in Obj : mem.uid[x] \in Nat /\ disk.uid[x] \in Nat
      BY CoordinatorAssumption
    <2>3. \A x \in Obj : api[x].uid <= born[x] /\ mem.uid[x] <= born[x]
      BY DEF Context, SInv, Fresh
    <2>4. \A x \in Obj : disk.uid[x] # 0 => mem.uid[x] = disk.uid[x]
      BY DEF Context, SInv, Synced
    <2> QED
      BY <2>1, <2>2, <2>3, <2>4
  <1>3. Synced' /\ Phased' /\ Published' /\ Gated' /\ Owned' /\ Kept'
    BY DEF Context, SInv, Synced, Phased, Published, Gated, Owned, Kept
  <1>4. Bound'
    <2>1. Ours("job")' => Ours("job") \/ disk.launched
      BY <1>1 DEF Ours, Exists, Obj
    <2> QED
      BY <2>1 DEF Context, SInv, Bound
  <1>5. Fresh'
    <2>1. \A x \in Obj : api'[x].uid <= born'[x] /\ mem'.uid[x] <= born'[x]
      BY <1>1, <1>2
    <2>2. "runner" \in Obj /\ InRunner \subseteq Obj /\ "runner" \notin InRunner
      BY DEF Obj, Provisioned, Disposable, InRunner
    <2>3. ~Exists("runner")' => \A x \in InRunner : ~Exists(x)'
      BY <1>1, <1>2, <2>2 DEF Context, SInv, Fresh, Exists, CanCreate, RunnerLive
    <2> QED
      BY <2>1, <2>3 DEF Fresh
  <1>6. Gone'
    <2>1. ASSUME NEW l \in {mem, disk}, NEW x \in Disposable, AbsentIsGone(l, x)
          PROVE  /\ l.phase \in {"disposing", "complete"} /\ ~Ours(x)'
                 /\ l.uid[x] # 0 => api'[x].uid # l.uid[x]
                 /\ x = "runner" => \A i \in {"job", "pod"} : l.uid[i] # 0 => api'[i].uid # l.uid[i]
                 /\ x = "runner" /\ "runner" \notin Tampered => ~Exists("runner")'
      <3>1. \A i \in Obj : l.uid[i] # 0 /\ api[i].uid # l.uid[i] => api'[i].uid # l.uid[i]
        BY <1>1, <1>2
      <3>2. ~Ours(x)'
        BY <1>1, <2>1 DEF AbsentIsGone, Ours, Exists, Obj, Provisioned, Disposable
      <3>3. x = "runner" /\ "runner" \notin Tampered => ~Exists("runner")'
        BY <1>1, <2>1 DEF AbsentIsGone, Exists, Obj, Provisioned, Disposable
      <3> QED
        BY <2>1, <3>1, <3>2, <3>3 DEF AbsentIsGone, Obj, Provisioned
    <2>2. ASSUME NEW x \in Disposable, mem'.absent[x] PROVE AbsentIsGone(mem, x)'
      <3>1. AbsentIsGone(mem, x)
        BY <2>2 DEF Context, SInv, Gone
      <3> QED
        BY <2>1, <3>1 DEF AbsentIsGone
    <2>3. ASSUME NEW x \in Disposable, disk'.absent[x] PROVE AbsentIsGone(disk, x)'
      <3>1. AbsentIsGone(disk, x)
        BY <2>3 DEF Context, SInv, Gone
      <3> QED
        BY <2>1, <3>1 DEF AbsentIsGone
    <2>4. ~failed' => \A x \in SettledAt(proc') : mem'.absent[x]
      BY DEF Context, SInv, Gone
    <2>5. disk'.phase = "complete" => \A x \in Disposable : disk'.absent[x]
      BY DEF Context, SInv, Gone
    <2> QED
      BY <2>2, <2>3, <2>4, <2>5 DEF Gone
  <1> QED
    BY <1>3, <1>4, <1>5, <1>6, FramedInv

LEMMA RemoveSafe ==
    ASSUME Context, NEW o \in Obj, Remove(o), UNCHANGED <<procVars, fileVars, removed>>
    PROVE  SInv'
  <1>1. /\ UNCHANGED <<procVars, files, obs, ready, born, writes, gate, collector, removed>>
        /\ stage' \in {stage, NoData} /\ (inflight' => inflight)
        /\ \A x \in Obj : api'[x] = IF x \in Contained(o) THEN Absent ELSE api[x]
    BY DEF Remove, fileVars
  <1>2. "runner" \in Obj /\ InRunner \subseteq Obj
    BY DEF Obj, Provisioned, Disposable, InRunner
  <1>3. Exists("runner") /\ ~Exists("runner")' => o = "runner"
    BY <1>1, <1>2 DEF Exists, Contained, InRunner
  <1>4. ~Exists("runner")' => \A x \in InRunner : ~Exists(x)'
    <2>1. CASE o = "runner"
      BY <1>1, <1>2, <2>1 DEF Exists, Contained, Absent
    <2>2. CASE ~Exists("runner")
      BY <1>1, <1>2, <2>2 DEF Context, SInv, Fresh, Exists, Absent
    <2> QED
      BY <1>3, <2>1, <2>2
  <1> QED
    BY <1>1, <1>4, ShrinkFrame

LEMMA ClusterSafe == ASSUME Context, Cluster PROVE SInv'
  <1> USE Typed DEF fileVars, ghosts
  <1>1. ASSUME NEW o \in Disposable, Finalised(o) PROVE SInv'
    BY <1>1, RemoveSafe DEF Finalised, Obj, Provisioned
  <1>2. CASE LateJob
    <2>1. disk.launched /\ inflight
      BY <1>2 DEF LateJob, Context, SInv, Bound
    <2> QED
      BY <1>2, <2>1, BornFrame DEF LateJob, Create, Obj
  <1>3. CASE PodCreated
    BY <1>3, BornFrame DEF PodCreated, Create, Obj
  <1>4. CASE PodMoves \/ CollectorEnds
    <2>1. /\ UNCHANGED <<procVars, files, obs, ready, born, writes, gate, removed, api, stage, inflight>>
          /\ collector # "idle" => collector' # "idle"
      BY <1>4 DEF PodMoves, CollectorEnds
    <2>2. ~Exists("runner")' => \A o \in InRunner : ~Exists(o)'
      BY <2>1 DEF Context, SInv, Fresh, Exists
    <2> QED
      BY <2>1, <2>2, ShrinkFrame
  <1>5. CASE GuardStages
    <2>1. /\ UNCHANGED <<procVars, files, obs, ready, api, born, gate, collector, inflight, removed>>
          /\ writes' = writes + 1 /\ stage'.version = writes + 1
      BY <1>5 DEF GuardStages
    <2>2. Synced' /\ Phased' /\ Published' /\ Gated' /\ Owned'
      BY <2>1 DEF Context, SInv, Synced, Phased, Published, Gated, Owned, procVars
    <2>3. Bound' /\ Fresh'
      BY <2>1 DEF Context, SInv, Bound, Fresh, Ours, Exists, procVars
    <2>4. Gone'
      BY <2>1 DEF Context, SInv, Gone, AbsentIsGone, Ours, Exists, procVars
    <2>5. Kept'
      <3>1. files.guard \in Nat /\ writes \in Nat
        BY CoordinatorAssumption DEF Context, TypeOK, Version
      <3> QED
        BY <2>1, <3>1 DEF Context, SInv, Kept, procVars
    <2> QED
      BY <2>2, <2>3, <2>4, <2>5, FramedInv
  <1>6. CASE GuardCleans
    <2>1. /\ UNCHANGED <<procVars, files, obs, ready, born, stage, writes, gate, collector, inflight, removed>>
          /\ api' = [api EXCEPT !["resource"].term = TRUE]
      BY <1>6 DEF GuardCleans
    <2>2. \A o \in Obj : api'[o].uid = api[o].uid /\ api'[o].owned = api[o].owned
      BY <2>1 DEF Context, TypeOK
    <2> QED
      BY <2>1, <2>2, MarkFrame, FramedInv
  <1> QED
    BY <1>1, <1>2, <1>3, <1>4, <1>5, <1>6 DEF Cluster

LEMMA OthersSafe == ASSUME Context, Others \/ UNCHANGED vars PROVE SInv'
  <1> USE Typed DEF fileVars, ghosts
  <1>1. CASE RequestCancel
    BY <1>1, ResumeSafe
  <1>2. CASE ClusterReplaced
    <2>1. /\ UNCHANGED <<procVars, files, obs, ready, born, writes, gate, removed>>
          /\ collector # "idle" => collector' # "idle"
          /\ stage' = NoData /\ ~inflight' /\ \A o \in Obj : api'[o] = Absent
      BY <1>2 DEF ClusterReplaced
    <2>2. \A o \in InRunner : ~Exists(o)'
      BY <2>1 DEF Exists, Absent, InRunner, Obj, Provisioned
    <2> QED
      BY <2>1, <2>2, ShrinkFrame
  <1>3. CASE CollectorLost
    <2>1. ~Exists("runner")' => \A o \in InRunner : ~Exists(o)'
      BY <1>3 DEF CollectorLost, Context, SInv, Fresh, Exists
    <2> QED
      BY <1>3, <2>1, ShrinkFrame DEF CollectorLost
  <1>4. ASSUME NEW o \in Tampered \cap Obj, Vanish(o) PROVE SInv'
    BY <1>4, RemoveSafe DEF Vanish
  <1>5. ASSUME NEW o \in Tampered \cap Obj, ForeignCreate(o) PROVE SInv'
    BY <1>5, BornFrame DEF ForeignCreate
  <1>6. CASE UNCHANGED vars
    <2>1. ~Exists("runner")' => \A o \in InRunner : ~Exists(o)'
      BY <1>6 DEF vars, kubeVars, Context, SInv, Fresh, Exists
    <2> QED
      BY <1>6, <2>1, ShrinkFrame DEF vars, kubeVars
  <1> QED
    BY <1>1, <1>2, <1>3, <1>4, <1>5, <1>6 DEF Others

----------------------------------------------------------------------------
(* The invariant holds *)

LEMMA NextSafe == TypeOK /\ LaunchInv /\ SInv /\ [Next]_vars => SInv'
  <1> SUFFICES ASSUME TypeOK, LaunchInv, SInv, [Next]_vars PROVE SInv'
    OBVIOUS
  <1>1. Context
    BY NextType, NextLaunch DEF Context
  <1>2. CASE Provisioning
    BY <1>1, <1>2, ResumeSafe, FindJobSafe, ProvisionSafe, EnsureSafe, CreateJobSafe DEF Provisioning
  <1>3. CASE Monitoring
    BY <1>1, <1>3, MonitorSafe, ReleaseSafe DEF Monitoring
  <1>4. CASE Closing
    BY <1>1, <1>4, StageSafe, LogsSafe, CheckClusterSafe, DisposeSafe, PublishSafe DEF Closing
  <1>5. CASE Faults
    BY <1>1, <1>5, ResumeSafe, ProvisionSafe, EnsureSafe, CreateJobSafe, MonitorSafe, StageSafe,
       LogsSafe, DisposeSafe DEF Faults
  <1>6. CASE Cluster
    BY <1>1, <1>6, ClusterSafe
  <1>7. CASE Others \/ UNCHANGED vars
    BY <1>1, <1>7, OthersSafe
  <1> QED
    BY <1>2, <1>3, <1>4, <1>5, <1>6, <1>7 DEF Next, Steady

LEMMA SafeInvariant == Spec => [](TypeOK /\ LaunchInv /\ SInv)
  <1>1. Init => TypeOK /\ LaunchInv /\ SInv
    <2>1. Init => LaunchInv
      BY DEF Init, LaunchInv, NoLedger, NewLedger, BeforeLaunch, Provisioned, Disposable
    <2> QED
      BY <2>1, InitType, InitSafe
  <1>2. TypeOK /\ LaunchInv /\ SInv /\ [Next]_vars => (TypeOK /\ LaunchInv /\ SInv)'
    BY NextType, NextLaunch, NextSafe
  <1> QED
    BY <1>1, <1>2, PTL DEF Spec

----------------------------------------------------------------------------
(* What it shows *)

\* The gate is only ever open to the pod whose UID and collector request are durable,
\* for any number of pods, crashes and replacements: ensureGate saves the request
\* before it starts the collector, and releases only while that collector watches.
THEOREM GateIsBound == Spec => []GateOpensToRecordedPod
  <1>1. SInv => GateOpensToRecordedPod
    BY DEF SInv, Gated, GateOpensToRecordedPod
  <1> QED
    BY <1>1, SafeInvariant, PTL

\* Every delete request of dispose took away an object this run created and whose UID
\* was, and still is, in run.json, whoever replaces objects under the same names.
THEOREM DeletesOwnOnly == Spec => []OnlyOwnObjectsRemoved
  <1>1. SInv => OnlyOwnObjectsRemoved
    BY DEF SInv, Owned, OnlyOwnObjectsRemoved
  <1> QED
    BY <1>1, SafeInvariant, PTL

\* The readiness marker binds the exact final ledger and the observations derived
\* from it, for ever: no collect, cancel request or crash after it changes either.
THEOREM MarkerBindsLedger == Spec => []ReadyBindsFinalLedger
  <1>1. TypeOK /\ SInv => ReadyBindsFinalLedger
    <2> SUFFICES ASSUME TypeOK, SInv, ready # NoLedger
                 PROVE  /\ ready = disk /\ obs = disk /\ disk.phase = "complete"
                        /\ proc \in {"down", "publish", "mark"}
      BY DEF ReadyBindsFinalLedger
    <2>1. ready = disk /\ obs = disk /\ disk.phase = "complete"
      BY DEF SInv, Published
    <2>2. proc \in {"down", "publish", "mark"}
      BY <2>1 DEF SInv, Phased, TypeOK, Points, EarlyPoints, BeforeLaunch, DisposePoints
    <2> QED
      BY <2>1, <2>2
  <1> QED
    BY <1>1, SafeInvariant, PTL

\* A published disposal or resource claim is true: none of the UIDs it is about
\* exists any more, however often somebody re-creates objects under those names.
THEOREM PublishedClaimsHold == Spec => []ClaimsAreTrue
  <1>1. TypeOK /\ SInv => ClaimsAreTrue
    <2> SUFFICES ASSUME TypeOK, SInv PROVE ClaimsAreTrue
      OBVIOUS
    <2>1. CASE obs = NoLedger
      <3>1. ~obs.absent["resource"] /\ ~obs.absent["runner"]
        BY <2>1 DEF NoLedger, NewLedger, Disposable
      <3> QED
        BY <3>1 DEF ClaimsAreTrue, DisposalVerified, ResourcesVerified
    <2>2. CASE obs # NoLedger
      <3>1. obs = disk
        BY <2>2 DEF SInv, Published
      <3>2. \A o \in Disposable : disk.absent[o] => AbsentIsGone(disk, o)
        BY DEF SInv, Gone
      <3> QED
        BY <3>1, <3>2 DEF ClaimsAreTrue, DisposalVerified, ResourcesVerified, AbsentIsGone, Disposable
    <2> QED
      BY <2>1, <2>2
  <1> QED
    BY <1>1, SafeInvariant, PTL

\* Evidence the ledger records is on disk under exactly that digest and guard.json is
\* never older than the recorded status, for any number of patches and failed writes.
THEOREM ArtifactsAreKept == Spec => []LedgerMatchesArtifacts
  <1>1. SInv => LedgerMatchesArtifacts
    BY DEF SInv, Kept, LedgerMatchesArtifacts
  <1> QED
    BY <1>1, SafeInvariant, PTL

\* A complete ledger leaves nothing of the run in the cluster, as long as nobody but
\* the run deletes or creates its runner namespace.  The hypothesis is needed: a Job
\* create still on its way would land in a namespace somebody re-created.
THEOREM CompleteIsGone ==
    ASSUME "runner" \notin Tampered
    PROVE  Spec => []CompleteMeansGone
  <1>1. TypeOK /\ SInv => CompleteMeansGone
    <2> SUFFICES ASSUME TypeOK, SInv, disk.phase = "complete", NEW o \in Obj PROVE ~Ours(o)
      BY DEF CompleteMeansGone
    <2>1. \A x \in Disposable : AbsentIsGone(disk, x)
      BY DEF SInv, Gone
    <2>2. CASE o \in Disposable
      BY <2>1, <2>2 DEF AbsentIsGone
    <2>3. CASE o \in InRunner
      <3>1. ~Exists("runner")
        BY <2>1 DEF AbsentIsGone, Disposable
      <3> QED
        BY <2>3, <3>1 DEF SInv, Fresh, Ours
    <2> QED
      BY <2>2, <2>3 DEF Obj, Provisioned, InRunner
  <1> QED
    BY <1>1, SafeInvariant, PTL

----------------------------------------------------------------------------
(* What a step may never do to the ledger on disk *)

\* l loses nothing run.json binds: no UID, no collector request, no accepted digest
Retains(l) ==
    /\ \A o \in Obj : disk.uid[o] # 0 => l.uid[o] = disk.uid[o]
    /\ disk.armed => l.armed
    /\ disk.digest # 0 => l.digest = disk.digest

\* The process's copy retains it, and so does whatever agrees with that copy.
LEMMA MemRetains ==
    ASSUME SInv, NEW l, l.uid = mem.uid, mem.armed => l.armed, l.digest = mem.digest
    PROVE  Retains(l)
  BY DEF SInv, Synced, Kept, Retains

\* An update that records the UID of an object not recorded yet.
LEMMA UidRetains ==
    ASSUME TypeOK, SInv, NEW l, NEW o \in Obj, NEW u, mem.uid[o] \in {0, u},
           l.uid = [mem.uid EXCEPT ![o] = u], l.armed = mem.armed, l.digest = mem.digest
    PROVE  Retains(l)
  <1>1. mem.uid \in [Obj -> 0..MaxUid]
    BY LedgerParts DEF TypeOK
  <1> QED
    BY <1>1 DEF SInv, Synced, Kept, Retains

LEMMA ProvisioningRetains ==
    ASSUME TypeOK, LaunchInv, SInv,
           \/ Start \/ Collect \/ Crash \/ FindJob \/ PinCluster \/ ProvisionFails
           \/ Launch \/ RecordLaunch \/ CreateJob \/ CreateJobUnrecorded
           \/ \E o \in Provisioned : Ensure(o) \/ EnsureUnrecorded(o)
    PROVE  Retains(disk') /\ files' = files
  <1>1. files' = files
    BY DEF Start, Collect, Crash, FindJob, PinCluster, ProvisionFails, Launch, RecordLaunch,
           CreateJob, CreateJobUnrecorded, Ensure, EnsureUnrecorded, fileVars
  <1>2. mem \in Ledger /\ disk \in Ledger /\ "job" \in Obj
    BY DEF TypeOK, Obj
  <1>3. Retains(mem) /\ Retains(disk)
    BY MemRetains DEF Retains
  <1>4. Retains([mem EXCEPT !.cancel = TRUE])
    <2>1. Alike([mem EXCEPT !.cancel = TRUE], mem)
      BY <1>2, CancelField
    <2> QED
      BY <2>1, MemRetains DEF Alike, SameIds, SameDocs
  <1>5. CASE Start
    <2>1. ~disk.armed /\ disk.digest = 0 /\ \A o \in Obj : disk.uid[o] = 0
      BY <1>5 DEF Start, SInv, Phased, NoLedger, NewLedger
    <2> QED
      BY <1>1, <2>1 DEF Retains
  <1>6. CASE Collect
    <2>1. Alike([disk EXCEPT !.cluster = cluster], disk)
      BY <1>2, ClusterField
    <2>2. Retains([disk EXCEPT !.cluster = cluster])
      BY <2>1 DEF Retains, Alike, SameIds, SameDocs
    <2> QED
      BY <1>1, <1>3, <1>6, <2>2 DEF Collect, Keep
  <1>7. CASE FindJob
    <2> DEFINE l == [mem EXCEPT !.uid["job"] = api["job"].uid, !.phase = "running"]
               k == [mem EXCEPT !.phase = "collecting"]
    <2>1. /\ l.uid = [mem.uid EXCEPT !["job"] = api["job"].uid] /\ l.armed = mem.armed
          /\ l.digest = mem.digest
          /\ k.uid = mem.uid /\ k.armed = mem.armed /\ k.digest = mem.digest
      BY <1>2 DEF Ledger
    <2> HIDE DEF l, k
    <2>2. mem.uid["job"] = 0
      BY <1>7, <1>2 DEF FindJob, SInv, Bound, Synced
    <2>3. Retains(l) /\ Retains(k)
      BY <1>2, <2>1, <2>2, MemRetains, UidRetains
    <2>4. disk' \in {l, k, disk}
      BY <1>7 DEF FindJob, Save, Keep, Stop, l, k
    <2> QED
      BY <1>1, <1>3, <2>3, <2>4
  <1>8. CASE PinCluster
    <2>1. Alike([mem EXCEPT !.cluster = cluster], mem)
      BY <1>2, ClusterField
    <2>2. Retains([mem EXCEPT !.cluster = cluster])
      BY <2>1, MemRetains DEF Alike, SameIds, SameDocs
    <2> QED
      BY <1>1, <1>8, <2>2 DEF PinCluster, Save
  <1>9. CASE ProvisionFails
    BY <1>1, <1>3, <1>4, <1>9 DEF ProvisionFails, Return
  <1>10. CASE Launch \/ RecordLaunch
    <2> DEFINE l == [mem EXCEPT !.cancel = TRUE, !.phase = "collecting"]
               k == [mem EXCEPT !.launched = TRUE, !.phase = "launching"]
    <2>1. /\ l.uid = mem.uid /\ l.armed = mem.armed /\ l.digest = mem.digest
          /\ k.uid = mem.uid /\ k.armed = mem.armed /\ k.digest = mem.digest
      BY <1>2 DEF Ledger
    <2> HIDE DEF l, k
    <2>2. disk' \in {l, k, disk}
      BY <1>10 DEF Launch, RecordLaunch, Save, Keep, l, k
    <2> QED
      BY <1>1, <1>3, <2>1, <2>2, MemRetains
  <1>11. CASE CreateJob
    <2> DEFINE l == [mem EXCEPT !.uid["job"] = api'["job"].uid, !.phase = "running"]
    <2>1. /\ l.uid = [mem.uid EXCEPT !["job"] = api'["job"].uid] /\ l.armed = mem.armed
          /\ l.digest = mem.digest
      BY <1>2 DEF Ledger
    <2> HIDE DEF l
    <2>2. mem.uid["job"] = 0 /\ disk' = l
      BY <1>11 DEF CreateJob, Save, SInv, Bound, Synced, l
    <2> QED
      BY <1>1, <1>2, <2>1, <2>2, UidRetains
  <1>12. CASE CreateJobUnrecorded
    BY <1>1, <1>3, <1>4, <1>12 DEF CreateJobUnrecorded, Return, Stop
  <1>13. ASSUME NEW o \in Provisioned, Ensure(o) PROVE Retains(disk')
    <2> DEFINE l == [mem EXCEPT !.uid[o] = api'[o].uid]
    <2>1. l.uid = [mem.uid EXCEPT ![o] = api'[o].uid] /\ l.armed = mem.armed /\ l.digest = mem.digest
      BY <1>2, UidField DEF SameDocs
    <2> HIDE DEF l
    <2>2. disk' \in {l, disk} /\ mem.uid[o] \in {0, api'[o].uid} /\ o \in Obj
      BY <1>13 DEF Ensure, Save, Keep, l, Obj
    <2> QED
      BY <1>3, <2>1, <2>2, UidRetains
  <1>14. ASSUME NEW o \in Provisioned, EnsureUnrecorded(o) PROVE Retains(disk')
    BY <1>3, <1>14 DEF EnsureUnrecorded, Return, Stop
  <1>15. CASE Crash
    BY <1>1, <1>3, <1>15 DEF Crash, Stop
  <1> QED
    BY <1>1, <1>5, <1>6, <1>7, <1>8, <1>9, <1>10, <1>11, <1>12, <1>13, <1>14, <1>15

LEMMA MonitoringRetains ==
    ASSUME TypeOK, LaunchInv, SInv,
           \/ MonitorTop \/ ObservePod \/ MonitorFails \/ ArmCollector \/ StartCollector
           \/ ReleaseGate \/ GateRefused \/ GateRetry
    PROVE  Retains(disk') /\ files' = files
  <1>1. files' = files
    BY DEF MonitorTop, ObservePod, MonitorFails, ArmCollector, StartCollector, ReleaseGate,
           GateRefused, GateRetry, fileVars
  <1>2. mem \in Ledger /\ "pod" \in Obj
    BY DEF TypeOK, Obj
  <1>3. Retains(mem) /\ Retains(disk)
    BY MemRetains DEF Retains
  <1>4. CASE MonitorTop
    <2>1. Alike([mem EXCEPT !.cancel = TRUE], mem)
      BY <1>2, CancelField
    <2>2. Retains([mem EXCEPT !.cancel = TRUE])
      BY <2>1, MemRetains DEF Alike, SameIds, SameDocs
    <2> QED
      BY <1>1, <1>3, <1>4, <2>2 DEF MonitorTop, Save, Keep
  <1>5. CASE ObservePod
    <2>1. ASSUME NEW b \in BOOLEAN, Terminal(b) PROVE Retains(disk')
      <3> DEFINE l == [mem EXCEPT !.phase = "collecting", !.exit = @ \/ b]
      <3>1. l.uid = mem.uid /\ l.armed = mem.armed /\ l.digest = mem.digest
        BY <1>2 DEF Ledger
      <3> HIDE DEF l
      <3>2. disk' = l
        BY <2>1 DEF Terminal, Save, l
      <3> QED
        BY <3>1, <3>2, MemRetains
    <2>2. ASSUME mem.uid["pod"] = 0, Save([mem EXCEPT !.uid["pod"] = api["pod"].uid])
          PROVE  Retains(disk')
      <3> DEFINE l == [mem EXCEPT !.uid["pod"] = api["pod"].uid]
      <3>1. l.uid = [mem.uid EXCEPT !["pod"] = api["pod"].uid] /\ l.armed = mem.armed /\ l.digest = mem.digest
        BY <1>2, UidField DEF SameDocs
      <3> HIDE DEF l
      <3>2. disk' = l
        BY <2>2 DEF Save, l
      <3> QED
        BY <1>2, <2>2, <3>1, <3>2, UidRetains
    <2>3. CASE disk' \in {mem, disk}
      BY <1>1, <1>3, <2>3
    <2> QED
      BY <1>1, <1>5, <2>1, <2>2, <2>3 DEF ObservePod, Return, Keep
  <1>6. CASE ArmCollector
    <2> DEFINE l == [mem EXCEPT !.armed = TRUE]
    <2>1. l.uid = mem.uid /\ l.armed /\ l.digest = mem.digest
      BY <1>2 DEF Ledger
    <2> HIDE DEF l
    <2>2. disk' = l
      BY <1>6 DEF ArmCollector, Save, l
    <2> QED
      BY <1>1, <2>1, <2>2, MemRetains
  <1>7. CASE MonitorFails \/ StartCollector \/ ReleaseGate \/ GateRefused \/ GateRetry
    BY <1>1, <1>3, <1>7
    DEF MonitorFails, StartCollector, ReleaseGate, GateRefused, GateRetry, Return, Keep, procVars
  <1> QED
    BY <1>4, <1>5, <1>6, <1>7

LEMMA CollectedRetains ==
    ASSUME SInv, NEW l \in Ledger, Alike(l, mem), NEW again, Collected(l, again)
    PROVE  Retains(disk')
  <1>1. PICK ph : disk' = [l EXCEPT !.phase = ph]
    BY DEF Collected, Return, Save
  <1>2. SameIds(disk', l) /\ SameDocs(disk', l)
    BY <1>1, PhaseField
  <1> QED
    BY <1>2, MemRetains DEF Alike, SameIds, SameDocs

LEMMA ClosingRetains ==
    ASSUME TypeOK, LaunchInv, SInv,
           \/ TransferLogs \/ CollectLogs \/ LogsPending \/ LogsFail \/ CheckCluster
           \/ \E p \in DisposePoints : DisposeGone(p) \/ Adopt(p) \/ Delete(p) \/ DisposeFails(p)
           \/ PublishObservations \/ PublishReady
    PROVE  Retains(disk') /\ files' = files
  <1>1. files' = files
    BY DEF TransferLogs, CollectLogs, LogsPending, LogsFail, CheckCluster, DisposeGone, Adopt, Delete,
           DisposeFails, PublishObservations, PublishReady, fileVars
  <1>2. mem \in Ledger /\ Alike(mem, mem)
    BY DEF TypeOK, Alike, SameIds, SameDocs, SamePlace
  <1>3. Retains(mem) /\ Retains(disk)
    BY MemRetains DEF Retains
  <1>4. CASE TransferLogs
    <2>1. Alike([mem EXCEPT !.collected = TRUE, !.logs = collector], mem)
      BY <1>2, LogsFields
    <2>2. Retains([mem EXCEPT !.collected = TRUE, !.logs = collector])
      BY <2>1, MemRetains DEF Alike, SameIds, SameDocs
    <2> QED
      BY <1>1, <1>4, <2>2 DEF TransferLogs, Save
  <1>5. CASE CollectLogs
    <2>1. [mem EXCEPT !.logs = "missing"] \in Ledger
      BY <1>2 DEF Ledger
    <2>2. Alike([mem EXCEPT !.logs = "missing"], mem)
      BY <1>2, LogsFields
    <2> QED
      BY <1>1, <1>2, <1>5, <2>1, <2>2, CollectedRetains DEF CollectLogs
  <1>6. CASE LogsPending \/ LogsFail
    BY <1>1, <1>2, <1>6, CollectedRetains DEF LogsPending, LogsFail
  <1>7. ASSUME NEW p \in DisposePoints, NEW ok \in BOOLEAN, Settled(p, ok) PROVE Retains(disk')
    <2> DEFINE T == Target(p)
    <2>1. T \in Disposable
      BY DEF Target, DisposePoints, Disposable
    <2> HIDE DEF T
    <2> DEFINE l == [mem EXCEPT !.absent[T] = ok]
               done == [l EXCEPT !.phase = "complete"]
    <2>2. l \in Ledger
      BY <1>2, <2>1, LedgerAbsent
    <2>3. SameIds(l, mem) /\ SameDocs(l, mem)
      BY <1>2, AbsentField
    <2> HIDE DEF l
    <2>4. SameIds(done, l) /\ SameDocs(done, l)
      BY <2>2, PhaseField
    <2> HIDE DEF done
    <2>5. disk' \in {disk, l, done}
      BY <1>7 DEF Settled, Keep, Return, Save, l, done, T
    <2> QED
      BY <1>3, <2>3, <2>4, <2>5, MemRetains DEF SameIds, SameDocs
  <1>8. ASSUME NEW p \in DisposePoints, Adopt(p) PROVE Retains(disk')
    <2> DEFINE T == Target(p)
    <2>1. T \in Obj
      BY DEF Target, DisposePoints, Disposable, Obj, Provisioned
    <2>2. mem.uid[T] = 0 /\ disk' = [mem EXCEPT !.uid[T] = api[T].uid]
      BY <1>8 DEF Adopt, Save
    <2> HIDE DEF T
    <2> DEFINE u == api[T].uid
    <2>3. /\ disk'.uid = [mem.uid EXCEPT ![T] = u] /\ disk'.armed = mem.armed
          /\ disk'.digest = mem.digest
      BY <1>2, <2>2, UidField DEF SameDocs
    <2>4. mem.uid[T] \in {0, u}
      BY <2>2
    <2> HIDE DEF u
    <2> QED
      BY <2>1, <2>3, <2>4, UidRetains
  <1>9. CASE \/ CheckCluster \/ PublishObservations \/ PublishReady
             \/ \E p \in DisposePoints : Delete(p)
    BY <1>1, <1>3, <1>9
    DEF CheckCluster, PublishObservations, PublishReady, Delete, Keep, Return, Stop, procVars
  <1> QED
    BY <1>1, <1>4, <1>5, <1>6, <1>7, <1>8, <1>9 DEF DisposeGone, DisposeFails

\* Every step retains what run.json binds, and the evidence file once its digest is there.
LEMMA NextRetains ==
    ASSUME TypeOK, LaunchInv, SInv, SInv', [Next]_vars
    PROVE  Retains(disk') /\ (disk.digest # 0 => files'.evidence = files.evidence)
  <1>1. CASE Provisioning \/ Crash \/ ProvisionFails \/ CreateJobUnrecorded
             \/ \E o \in Provisioned : EnsureUnrecorded(o)
    BY <1>1, ProvisioningRetains DEF Provisioning
  <1>2. CASE Monitoring \/ MonitorFails \/ GateRetry
    BY <1>2, MonitoringRetains DEF Monitoring
  <1>3. CASE \/ TransferLogs \/ CollectLogs \/ LogsPending \/ LogsFail \/ CheckCluster
             \/ \E p \in DisposePoints : DisposeGone(p) \/ Adopt(p) \/ Delete(p) \/ DisposeFails(p)
             \/ PublishObservations \/ PublishReady
    BY <1>3, ClosingRetains
  <1>4. CASE CollectStage \/ StageFails
    <2>1. disk' = disk
      BY <1>4 DEF CollectStage, StageFails, Keep
    <2>2. disk.digest # 0 => files'.evidence = files.evidence
      BY <2>1 DEF SInv, Kept
    <2> QED
      BY <2>1, <2>2 DEF Retains
  <1>5. CASE Cluster \/ Others \/ UNCHANGED vars
    <2>1. UNCHANGED <<procVars, fileVars>>
      BY <1>5 DEF Cluster, Others, Finalised, LateJob, PodCreated, PodMoves, GuardStages,
         GuardCleans, CollectorEnds, RequestCancel, ClusterReplaced, CollectorLost,
         Vanish, ForeignCreate, vars
    <2> QED
      BY <2>1 DEF procVars, fileVars, Retains
  <1> QED
    BY <1>1, <1>2, <1>3, <1>4, <1>5 DEF Next, Steady, Closing, Faults

\* Once a collector request is bound to the recorded UIDs, run.json never changes one
\* of them again: ensureGate arms only when all seven are recorded, and neither
\* recovery nor disposal adopts over a recorded UID.
THEOREM BindingStands == Spec => BindingStable
  <1>1. /\ TypeOK /\ LaunchInv /\ SInv /\ (TypeOK /\ LaunchInv /\ SInv)' /\ [Next]_vars
        => [disk.armed => disk'.armed /\ disk'.uid = disk.uid]_vars
    <2> SUFFICES ASSUME TypeOK, LaunchInv, SInv, TypeOK', SInv', [Next]_vars, disk.armed
                 PROVE  disk'.armed /\ disk'.uid = disk.uid
      OBVIOUS
    <2>1. \A o \in Obj : disk.uid[o] # 0
      BY DEF SInv, Bound, Obj
    <2>2. disk.uid \in [Obj -> 0..MaxUid] /\ disk'.uid \in [Obj -> 0..MaxUid]
      BY LedgerParts DEF TypeOK
    <2>3. Retains(disk')
      BY NextRetains
    <2> QED
      BY <2>1, <2>2, <2>3 DEF Retains
  <1> QED
    BY <1>1, SafeInvariant, PTL DEF Spec, BindingStable

\* Evidence whose digest is durable is never replaced, neither the digest nor the file,
\* whatever collectStage meets in the staging ConfigMap afterwards.
THEOREM EvidenceStands == Spec => EvidenceFrozen
  <1>1. /\ TypeOK /\ LaunchInv /\ SInv /\ (TypeOK /\ LaunchInv /\ SInv)' /\ [Next]_vars
        => [disk.digest # 0 => disk'.digest = disk.digest /\ files'.evidence = files.evidence]_vars
    BY NextRetains DEF Retains
  <1> QED
    BY <1>1, SafeInvariant, PTL DEF Spec, EvidenceFrozen

----------------------------------------------------------------------------
(* A cancellation in time *)

\* a cancel request exists and the launch is neither durable nor past provision's last check
Cancelled == cancelFile /\ ~disk.launched /\ proc # "intent"

LEMMA ProvisioningCancelled ==
    ASSUME TypeOK, LaunchInv, SInv, Cancelled, Provisioning \/ Faults
    PROVE  Cancelled'
  <1> USE DEF Cancelled, GoTo, Return, Stop
  <1>1. cancelFile'
    <2>1. CASE Provisioning
      BY <2>1 DEF Provisioning, Start, Collect, FindJob, PinCluster, Ensure, Launch, RecordLaunch, CreateJob
    <2>2. CASE Faults
      BY <2>2 DEF Faults, Crash, ProvisionFails, CreateJobUnrecorded, MonitorFails, GateRetry,
         StageFails, LogsFail, EnsureUnrecorded, DisposeFails
    <2> QED
      BY <2>1, <2>2
  <1>2. proc' # "intent"
    <2>1. CASE Provisioning
      <3>1. ASSUME NEW o \in Provisioned, Ensure(o) PROVE proc' # "intent"
        BY <3>1 DEF Ensure, After, Provisioned, Disposable
      <3>2. CASE Collect
        BY <3>2 DEF Collect, Resume
      <3> QED
        BY <2>1, <3>1, <3>2 DEF Provisioning, Start, FindJob, PinCluster, Launch, RecordLaunch, CreateJob
    <2>2. CASE Faults
      <3>1. ASSUME NEW p \in DisposePoints, DisposeFails(p) PROVE proc' # "intent"
        BY <3>1 DEF DisposeFails, Settled, NextTarget, DisposePoints
      <3>2. CASE LogsFail
        BY <3>2 DEF LogsFail, Collected
      <3> QED
        BY <2>2, <3>1, <3>2 DEF Faults, Crash, ProvisionFails, CreateJobUnrecorded, MonitorFails, GateRetry,
           StageFails, EnsureUnrecorded
    <2> QED
      BY <2>1, <2>2
  <1>3. disk'.launched = disk.launched
    <2>1. CASE Start
      BY <2>1, LedgerParts DEF Start, Save, NewLedger, TypeOK
    <2>2. CASE Collect \/ Crash
      <3>1. [disk EXCEPT !.cluster = cluster].launched = disk.launched
        BY KeptFields DEF TypeOK
      <3> QED
        BY <2>2, <3>1 DEF Collect, Crash, Keep
    <2>3. CASE CreateJob \/ CreateJobUnrecorded \/ RecordLaunch
      BY <2>3 DEF CreateJob, CreateJobUnrecorded, RecordLaunch, LaunchInv
    <2> QED
      BY <2>1, <2>2, <2>3, ProvisioningLaunch, MonitoringLaunch, CollectingLaunch, DisposingLaunch
      DEF Provisioning, Faults, Quiet
  <1> QED
    BY <1>1, <1>2, <1>3

LEMMA NextCancelled ==
    ASSUME TypeOK, LaunchInv, SInv, Cancelled, [Next]_vars
    PROVE  Cancelled'
  <1>1. CASE Provisioning \/ Faults
    BY <1>1, ProvisioningCancelled
  <1>2. CASE Monitoring
    <2>1. cancelFile' /\ proc' # "intent"
      BY <1>2 DEF Monitoring, MonitorTop, ObservePod, Terminal, ArmCollector, StartCollector, ReleaseGate,
         GateRefused, GoTo, Return, procVars, Cancelled
    <2> QED
      BY <1>2, <2>1, MonitoringLaunch DEF Monitoring, Quiet, Cancelled
  <1>3. CASE Closing
    <2>1. cancelFile'
      BY <1>3 DEF Closing, CollectStage, TransferLogs, CollectLogs, LogsPending, CheckCluster, DisposeGone,
         Adopt, Delete, PublishObservations, PublishReady, Cancelled
    <2>2. ASSUME NEW p \in DisposePoints, DisposeGone(p) \/ Adopt(p) \/ Delete(p) PROVE proc' # "intent"
      BY <2>2 DEF DisposeGone, Adopt, Delete, Settled, NextTarget, DisposePoints, GoTo, Return, procVars,
         Cancelled
    <2>3. ASSUME CollectStage \/ TransferLogs \/ CheckCluster \/ PublishObservations \/ PublishReady
          PROVE  proc' # "intent"
      BY <2>3 DEF CollectStage, TransferLogs, CheckCluster, PublishObservations, PublishReady, GoTo, Return,
         Stop
    <2>4. ASSUME CollectLogs \/ LogsPending PROVE proc' # "intent"
      BY <2>4 DEF CollectLogs, LogsPending, Collected, GoTo, Return
    <2>5. disk'.launched = disk.launched
      BY <1>3, CollectingLaunch, DisposingLaunch DEF Closing, Quiet
    <2> QED
      BY <1>3, <2>1, <2>2, <2>3, <2>4, <2>5 DEF Closing, Cancelled
  <1>4. CASE Cluster \/ Others \/ UNCHANGED vars
    <2>1. UNCHANGED procVars /\ (cancelFile => cancelFile')
      BY <1>4 DEF Cluster, Others, Finalised, LateJob, PodCreated, PodMoves, GuardStages,
         GuardCleans, CollectorEnds, RequestCancel, ClusterReplaced, CollectorLost,
         Vanish, ForeignCreate, vars
    <2> QED
      BY <2>1 DEF procVars, Cancelled
  <1> QED
    BY <1>1, <1>2, <1>3, <1>4 DEF Next, Steady

\* A cancel request that exists before the launch attempt is durable, and outside the
\* window between provision's last check and that save, means the command never
\* starts, however many processes provision or resume the run afterwards.
THEOREM CancelPreventsLaunch == Spec => CancelBeforeLaunch
  <1>1. TypeOK /\ LaunchInv /\ SInv /\ Cancelled /\ [Next]_vars => Cancelled'
    BY NextCancelled
  <1>2. TypeOK /\ LaunchInv /\ Cancelled => launches = 0
    BY DEF TypeOK, LaunchInv, Cancelled
  <1>3. Cancelled <=> (cancelFile /\ ~disk.launched /\ proc # "intent")
    BY DEF Cancelled
  <1> QED
    BY <1>1, <1>2, <1>3, SafeInvariant, PTL DEF Spec, CancelBeforeLaunch
====
