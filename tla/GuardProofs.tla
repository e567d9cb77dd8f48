----------------------------- MODULE GuardProofs -----------------------------
(***************************************************************************)
(* Proofs about the guard and proofctl, for every number of claims,         *)
(* processes, cleanup attempts and troubles: a recorded failure is never    *)
(* lost, and what the guard and proofctl claim is true.                     *)
(***************************************************************************)
EXTENDS Guard, TLAPS

----------------------------------------------------------------------------
(* The inductive invariant *)

Callings == {"list", "volumes", "delete", "remove", "check", "verify"}
Workings == Callings \cup {"begin", "wipe", "save"}
Early == {"main", "announce", "begin", "inventory", "completed", "mainFailed",
          "command", "group", "postStarted"}
Late == {"final", "finalAgain", "exiting", "exited"}

ProcRecs == [cmd : {"none", "begin", "inventory", "cleanup", "receipt"},
             pc : {"off", "start", "exit", "dying"} \cup Workings,
             mem : State, found : SUBSET Claims, again : BOOLEAN, absent : BOOLEAN,
             ok : BOOLEAN]
Failed(s) == {k \in Components : s.coverage[k] = "failed"}
Saved == [kind : {"absent", "saved"}, state : State]
Status == [main : BOOLEAN, post : BOOLEAN, failed : BOOLEAN]
Jobs == [pc : Early \cup Late \cup {"cleanup", "receipt", "dead", "absent"},
         helper : Procs \cup {"none"}, fired : BOOLEAN, cancelled : BOOLEAN,
         killTimer : BOOLEAN,
         command : {"none", "running", "ok", "failed", "signalled"},
         timedOut : BOOLEAN, tried : Nat, main : BOOLEAN, post : BOOLEAN,
         errors : BOOLEAN, stagingErrors : BOOLEAN, evidence : Saved,
         exit : {"none", "ok", "command", "timeout", "signal", "guard"}]

(* The shape of the state, a little more precise than TypeOK about the job. *)
Typed ==
    /\ scoped \in BOOLEAN /\ namespace \in {"none", "left", "active", "terminating", "gone"}
    /\ claims \in [Claims -> {"never", "live", "gone"}]
    /\ volumes \in [Claims -> {"none", "labelled", "unlabelled", "gone"}]
    /\ context \in [kind : {"absent", "reserved", "saved"}, state : State]
    /\ lock \in Procs \cup {"none"} /\ procs \in [Procs -> ProcRecs] /\ job \in Jobs
    /\ staged \in [guard : Status, evidence : Saved]
    /\ late \subseteq [guard : Status, evidence : Saved]

(* A process that works on the context holds the lock, and its copy has every *)
(* failure that the file has.                                                 *)
Locked ==
    \A p \in Procs :
      /\ procs[p].pc \in Workings =>
            lock = p /\ Failed(context.state) \subseteq Failed(procs[p].mem)
      /\ procs[p].pc = "begin" => context = Reserved

(* Resources are called verified only when they are gone, and then they stay  *)
(* gone: the second inventory of an absent namespace has seen every volume.   *)
Removed ==
    /\ namespace = "gone" => \A c \in Claims : claims[c] # "live"
    /\ \A p \in Procs :
         /\ procs[p].again => namespace = "gone"
         /\ procs[p].absent => /\ namespace = "gone"
                               /\ \A c \in Claims : LiveVolume(c) => c \in procs[p].mem.volumes
         /\ procs[p].pc \in {"start", "wipe"} => ~procs[p].again /\ ~procs[p].absent
         /\ procs[p].mem.coverage["resources"] = "verified" => ResourcesGone
    /\ \A r \in Records : Verified(r, "resources") => ResourcesGone
    /\ \A patch \in late : Verified(patch.evidence, "resources") => ResourcesGone

(* How far the guard has come. *)
Ordered ==
    /\ job.helper # "none" => job.pc \in Helpers
    /\ job.command = "running" => job.pc = "command"
    /\ job.post => job.pc \in Late \cup {"dead"}
    /\ job.exit # "none" => job.pc = "exited"
    /\ job.pc \in {"group", "postStarted", "cleanup", "receipt"} \cup Late =>
         job.errors \/ job.cancelled \/ job.command \in {"ok", "failed", "signalled"}
    /\ job.pc \in Early => job.tried = 0
    /\ job.pc = "main" => ~job.errors
    /\ job.pc = "mainFailed" => job.errors
    /\ job.pc = "cleanup" /\ ~job.errors => job.tried = 0

(* Which command a process at work was started for. *)
Aimed ==
    \A p \in Procs :
      /\ procs[p].pc = "wipe" => procs[p].cmd = "cleanup"
      /\ procs[p].pc \in Callings => procs[p].cmd \in {"inventory", "cleanup"}

Pristine(s) == s.attempts = 0 /\ s.coverage = Fresh.coverage

(* Before the guard's first cleanup nothing has been attempted or recorded. *)
Untouched ==
    job.pc \in Early \/ (job.pc = "cleanup" /\ job.tried = 0 /\ job.helper = "none") =>
      /\ Pristine(context.state)
      /\ \A p \in Procs : procs[p].cmd # "cleanup" /\ Pristine(procs[p].mem)

\* the evidence of one verified cleanup
Proper(s) == s.attempts = 1 /\ s.complete /\ \A k \in Components : s.coverage[k] = "verified"

\* the guard has recorded no error and is still there: nothing was left behind
Sound == ~job.errors /\ job.pc \notin {"absent", "dead"}

(* As long as the guard has no error, only the helper it waits for is alive. *)
Alone == Sound => \A p \in Procs : p # job.helper => procs[p].pc = "off"

FirstCleanup(h) ==
    /\ h.pc # "begin"
    /\ h.pc = "start" => h.cmd = "cleanup" /\ Pristine(context.state)
    /\ h.pc = "wipe" => Pristine(h.mem)
    /\ h.pc \in Callings =>
         /\ h.cmd = "cleanup" /\ h.mem.attempts = 1
         /\ h.mem.coverage["resources"] = "unobservable"
         /\ h.ok => /\ h.mem.coverage["workspace"] = "verified"
                    /\ h.mem.coverage["credentials"] = "verified"
    /\ h.pc \in {"delete", "remove", "check", "verify"} => h.mem.complete
    /\ h.pc = "save" /\ h.ok => Proper(h.mem)
    /\ h.pc = "exit" /\ h.ok => context.kind = "saved" /\ Proper(context.state)

ReceiptRun(h) ==
    /\ h.pc \in {"start", "exit", "dying", "off"}
    /\ h.pc = "start" => h.cmd = "receipt"
    /\ h.pc = "exit" /\ h.ok => Proper(h.mem)

(* Without an error, the first cleanup succeeds and the receipt shows it. *)
Earned ==
    /\ Sound /\ job.pc = "cleanup" /\ job.helper # "none" => FirstCleanup(procs[job.helper])
    /\ Sound /\ job.pc = "receipt" =>
         /\ context.kind = "saved" /\ Proper(context.state)
         /\ job.helper # "none" => ReceiptRun(procs[job.helper])
    /\ job.post /\ ~job.errors => job.evidence.kind = "saved" /\ Proper(job.evidence.state)

Proven(patch) ==
    Clean(patch.guard) => patch.evidence.kind = "saved" /\ Proper(patch.evidence.state)

(* What is staged, or may still be. *)
Staged ==
    /\ Proven(staged) /\ \A patch \in late : Proven(patch)
    /\ ~job.stagingErrors /\ job.pc # "dead" => late = {}
    /\ job.pc \in {"exiting", "exited"} /\ ~job.stagingErrors => staged.guard = Snapshot(job)
    /\ job.exit = "ok" => ~GuardFailed(job) /\ job.command = "ok" /\ ~job.cancelled

IInv == Typed /\ Locked /\ Removed /\ Ordered /\ Aimed /\ Untouched /\ Alone /\ Earned /\ Staged

----------------------------------------------------------------------------
(* Records and the recorded state *)

LEMMA FreshFacts ==
    /\ Fresh \in State /\ Pristine(Fresh) /\ Failed(Fresh) = {}
    /\ Off \in ProcRecs /\ Absent \in Saved
    /\ Absent \in [kind : {"absent", "reserved", "saved"}, state : State]
    /\ Reserved \in [kind : {"absent", "reserved", "saved"}, state : State]
    /\ Fresh.coverage["resources"] = "unobservable"
  <1>1. Fresh \in State
    BY DEF Fresh, State
  <1>2. \A k \in Components : Fresh.coverage[k] = "unobservable"
    BY DEF Fresh
  <1>3. Off \in ProcRecs
    BY <1>1 DEF Off, ProcRecs
  <1> QED
    BY <1>1, <1>2, <1>3 DEF Pristine, Failed, Absent, Reserved, Saved, Components, Fresh

LEMMA RecordType ==
    ASSUME NEW s \in State, NEW k \in Components, NEW v \in {"verified", "failed"}
    PROVE  Record(s, k, v) \in State
  <1>1. s.coverage \in [Components -> {"unobservable", "verified", "failed"}]
    BY DEF State
  <1> QED
    BY <1>1 DEF Record, State

(* A recorded failure stays, anything else is overwritten, in one component. *)
LEMMA RecordFacts ==
    ASSUME NEW s \in State, NEW k \in Components, NEW v \in {"verified", "failed"}
    PROVE  /\ Record(s, k, v).volumes = s.volumes
           /\ Record(s, k, v).attempts = s.attempts
           /\ Record(s, k, v).complete = s.complete
           /\ Record(s, k, v).coverage[k] = IF s.coverage[k] = "failed" THEN "failed" ELSE v
           /\ \A j \in Components : j # k => Record(s, k, v).coverage[j] = s.coverage[j]
           /\ Failed(s) \subseteq Failed(Record(s, k, v))
  <1>1. s.coverage \in [Components -> {"unobservable", "verified", "failed"}]
    BY DEF State
  <1>2. CASE s.coverage[k] = "failed"
    BY <1>1, <1>2 DEF Record
  <1>3. CASE s.coverage[k] # "failed"
    <2> DEFINE r == [s EXCEPT !.coverage[k] = v]
    <2>1. Record(s, k, v) = r
      BY <1>3 DEF Record
    <2>2. /\ r.coverage = [s.coverage EXCEPT ![k] = v]
          /\ r.volumes = s.volumes /\ r.attempts = s.attempts /\ r.complete = s.complete
      BY DEF State
    <2> HIDE DEF r
    <2> QED
      BY <1>1, <1>3, <2>1, <2>2 DEF Failed
  <1> QED
    BY <1>2, <1>3

LEMMA CompleteFacts ==
    ASSUME NEW s \in State, NEW b \in BOOLEAN
    PROVE  /\ [s EXCEPT !.complete = b] \in State
           /\ [s EXCEPT !.complete = b].volumes = s.volumes
           /\ [s EXCEPT !.complete = b].attempts = s.attempts
           /\ [s EXCEPT !.complete = b].coverage = s.coverage
           /\ [s EXCEPT !.complete = b].complete = b
  BY DEF State

LEMMA RecordedFacts ==
    ASSUME NEW s \in State, NEW fails \in BOOLEAN
    PROVE  /\ ResourcesRecorded(s, fails) \in State
           /\ ResourcesRecorded(s, fails).volumes = s.volumes
           /\ ResourcesRecorded(s, fails).attempts = s.attempts
           /\ ResourcesRecorded(s, fails).complete = s.complete
           /\ Failed(s) \subseteq Failed(ResourcesRecorded(s, fails))
           /\ ResourcesRecorded(s, fails).coverage["resources"] =
                IF s.coverage["resources"] = "failed" \/ fails THEN "failed" ELSE "verified"
           /\ ~fails => \A k \in {"workspace", "credentials"} :
                          ResourcesRecorded(s, fails).coverage[k] = s.coverage[k]
  <1>1. "resources" \in Components /\ "credentials" \in Components /\ "workspace" \in Components
    BY DEF Components
  <1>2. CASE fails
    <2> DEFINE r == Record(s, "resources", "failed")
               t == Record(r, "credentials", "failed")
    <2>1. ResourcesRecorded(s, fails) = t
      BY <1>2 DEF ResourcesRecorded, Outcome
    <2>2. r \in State
      BY <1>1, RecordType
    <2>3. r.volumes = s.volumes /\ r.attempts = s.attempts
      BY <1>1, RecordFacts
    <2>4. r.complete = s.complete /\ Failed(s) \subseteq Failed(r)
      BY <1>1, RecordFacts
    <2>5. r.coverage["resources"] = "failed"
      BY <1>1, RecordFacts
    <2> HIDE DEF r
    <2>6. t \in State
      BY <1>1, <2>2, RecordType
    <2>7. t.volumes = r.volumes /\ t.attempts = r.attempts
      BY <1>1, <2>2, RecordFacts
    <2>8. t.complete = r.complete /\ Failed(r) \subseteq Failed(t)
      BY <1>1, <2>2, RecordFacts
    <2>9. t.coverage["resources"] = r.coverage["resources"]
      BY <1>1, <2>2, RecordFacts
    <2> HIDE DEF t
    <2> QED
      BY <1>2, <2>1, <2>3, <2>4, <2>5, <2>6, <2>7, <2>8, <2>9
  <1>3. CASE ~fails
    <2> DEFINE r == Record(s, "resources", "verified")
    <2>1. ResourcesRecorded(s, fails) = r
      BY <1>3 DEF ResourcesRecorded, Outcome
    <2>2. r \in State
      BY <1>1, RecordType
    <2>3. r.volumes = s.volumes /\ r.attempts = s.attempts
      BY <1>1, RecordFacts
    <2>4. r.complete = s.complete /\ Failed(s) \subseteq Failed(r)
      BY <1>1, RecordFacts
    <2>5. r.coverage["resources"] = IF s.coverage["resources"] = "failed"
                                    THEN "failed" ELSE "verified"
      BY <1>1, RecordFacts
    <2>6. r.coverage["workspace"] = s.coverage["workspace"]
      BY <1>1, RecordFacts
    <2>7. r.coverage["credentials"] = s.coverage["credentials"]
      BY <1>1, RecordFacts
    <2> HIDE DEF r
    <2> QED
      BY <1>3, <2>1, <2>2, <2>3, <2>4, <2>5, <2>6, <2>7
  <1> QED
    BY <1>2, <1>3

\* the state after Wipe, with what it recorded for the two directories
Wiped(s, w, c) ==
    Record(Record([s EXCEPT !.attempts = @ + 1], "workspace", w), "credentials", c)

LEMMA WipedFacts ==
    ASSUME NEW s \in State, NEW w \in {"verified", "failed"}, NEW c \in {"verified", "failed"}
    PROVE  /\ Wiped(s, w, c) \in State /\ Wiped(s, w, c).attempts = s.attempts + 1
           /\ Failed(s) \subseteq Failed(Wiped(s, w, c))
           /\ Wiped(s, w, c).coverage["resources"] = s.coverage["resources"]
           /\ Pristine(s) => /\ Wiped(s, w, c).coverage["workspace"] = w
                             /\ Wiped(s, w, c).coverage["credentials"] = c
  <1> DEFINE counted == [s EXCEPT !.attempts = @ + 1]
             first == Record(counted, "workspace", w)
             mem == Record(first, "credentials", c)
  <1>1. "resources" \in Components /\ "credentials" \in Components /\ "workspace" \in Components
    BY DEF Components
  <1>2. counted \in State
    BY DEF State
  <1>3. counted.attempts = s.attempts + 1
    BY DEF State
  <1>4. counted.coverage = s.coverage
    BY DEF State
  <1> HIDE DEF counted
  <1>5. first \in State
    BY <1>1, <1>2, RecordType
  <1>6. first.attempts = counted.attempts
    BY <1>1, <1>2, RecordFacts
  <1>7. /\ Failed(counted) \subseteq Failed(first)
        /\ first.coverage["resources"] = counted.coverage["resources"]
    BY <1>1, <1>2, RecordFacts
  <1>8. first.coverage["workspace"] =
          IF counted.coverage["workspace"] = "failed" THEN "failed" ELSE w
    BY <1>1, <1>2, RecordFacts
  <1>9. first.coverage["credentials"] = counted.coverage["credentials"]
    BY <1>1, <1>2, RecordFacts
  <1> HIDE DEF first
  <1>10. mem \in State
    BY <1>1, <1>5, RecordType
  <1>11. mem.attempts = first.attempts
    BY <1>1, <1>5, RecordFacts
  <1>12. /\ Failed(first) \subseteq Failed(mem)
        /\ mem.coverage["resources"] = first.coverage["resources"]
    BY <1>1, <1>5, RecordFacts
  <1>13. mem.coverage["credentials"] =
          IF first.coverage["credentials"] = "failed" THEN "failed" ELSE c
    BY <1>1, <1>5, RecordFacts
  <1>14. mem.coverage["workspace"] = first.coverage["workspace"]
    BY <1>1, <1>5, RecordFacts
  <1>15. Wiped(s, w, c) = mem
    BY DEF Wiped, first, counted
  <1> HIDE DEF mem
  <1>16. Failed(s) = Failed(counted)
    BY <1>4 DEF Failed
  <1>17. Pristine(s) => s.coverage["workspace"] # "failed" /\ s.coverage["credentials"] # "failed"
    BY DEF Pristine, Fresh, Components
  <1> QED
    BY <1>2, <1>3, <1>4, <1>5, <1>6, <1>7, <1>8, <1>9, <1>10, <1>11,
       <1>12, <1>13, <1>14, <1>15, <1>16, <1>17

----------------------------------------------------------------------------
(* Steps of the cluster and of a process at work *)

\* what the cluster may do: a namespace that is gone stays so, and no volume of it appears
Cleared ==
    /\ namespace' \in {"none", "left", "active", "terminating", "gone"} /\ scoped' = scoped
    /\ claims' \in [Claims -> {"never", "live", "gone"}]
    /\ volumes' \in [Claims -> {"none", "labelled", "unlabelled", "gone"}]
    /\ namespace = "gone" =>
         /\ namespace' = "gone"
         /\ \A c \in Claims : volumes'[c] \in {"labelled", "unlabelled"} => LiveVolume(c)
    /\ namespace' = "gone" => \A c \in Claims : claims'[c] # "live"

LEMMA GoneStays ==
    ASSUME Cleared, ResourcesGone
    PROVE  ResourcesGone'
  BY DEF Cleared, ResourcesGone, LiveVolume

LEMMA SameCluster ==
    ASSUME Typed, Removed, UNCHANGED cluster
    PROVE  Cleared
  BY DEF Typed, Removed, cluster, Cleared, LiveVolume

\* what a process at work may become without touching the file or the lock
Fits(h, g) ==
    /\ g \in ProcRecs /\ h.pc \in Workings /\ g.pc \in Workings \ {"begin", "wipe"}
    /\ g.pc \in Callings => h.pc \in Callings \cup {"wipe"}
    /\ g.cmd = h.cmd
    /\ Failed(h.mem) \subseteq Failed(g.mem)
    /\ g.again => h.again \/ namespace = "gone"
    /\ g.absent => \/ h.absent /\ g.mem.volumes = h.mem.volumes
                   \/ /\ namespace = "gone"
                      /\ \A c \in Claims : LiveVolume(c) => c \in g.mem.volumes
    /\ g.mem.coverage["resources"] = "verified" =>
         h.mem.coverage["resources"] = "verified" \/ ResourcesGone
    /\ Pristine(h.mem) /\ h.cmd # "cleanup" => Pristine(g.mem)
    /\ FirstCleanup(h) => FirstCleanup(g)

LEMMA WorkStep ==
    ASSUME IInv, Cleared, NEW p \in Procs, NEW g,
           procs' = [procs EXCEPT ![p] = g], Fits(procs[p], g),
           UNCHANGED <<context, lock, job, staged, late>>
    PROVE  IInv'
  <1>1. Typed /\ Typed'
    BY DEF IInv, Typed, Fits, Cleared
  <1>2. procs'[p] = g /\ \A q \in Procs \ {p} : procs'[q] = procs[q]
    BY <1>1 DEF Typed
  <1>3. Locked'
    BY <1>2 DEF IInv, Locked, Fits, Workings
  <1>4. Removed'
    <2>1. ResourcesGone => ResourcesGone'
      BY GoneStays
    <2>2. namespace' = "gone" => \A c \in Claims : claims'[c] # "live"
      BY DEF Cleared
    <2>3. ASSUME NEW q \in Procs
          PROVE  /\ procs'[q].again => namespace' = "gone"
                 /\ procs'[q].absent =>
                      /\ namespace' = "gone"
                      /\ \A c \in Claims : LiveVolume(c)' => c \in procs'[q].mem.volumes
                 /\ procs'[q].pc \in {"start", "wipe"} => ~procs'[q].again /\ ~procs'[q].absent
                 /\ procs'[q].mem.coverage["resources"] = "verified" => ResourcesGone'
      <3>1. CASE q # p
        BY <1>2, <2>1, <3>1 DEF IInv, Removed, Cleared, LiveVolume
      <3>2. CASE q = p
        BY <1>2, <2>1, <3>2 DEF IInv, Removed, Cleared, LiveVolume, Fits, Workings, Callings
      <3> QED
        BY <3>1, <3>2
    <2>4. /\ \A r \in Records : Verified(r, "resources") => ResourcesGone
          /\ \A patch \in late : Verified(patch.evidence, "resources") => ResourcesGone
      BY DEF IInv, Removed
    <2>5. Records' = Records /\ late' = late
      BY DEF Records
    <2> QED
      BY <2>1, <2>2, <2>3, <2>4, <2>5 DEF Removed, Verified
  <1>5. Ordered' /\ Staged'
    BY DEF IInv, Ordered, Staged, Proven, Clean, Proper, Snapshot, GuardFailed
  <1>6. Aimed'
    BY <1>2 DEF IInv, Aimed, Fits
  <1>7. Untouched'
    BY <1>2 DEF IInv, Untouched, Fits, Pristine
  <1>8. Alone'
    BY <1>2 DEF IInv, Alone, Sound, Fits, Workings, Callings
  <1>9. Earned'
    <2>1. Sound' = Sound
      BY DEF Sound
    <2>2. ASSUME Sound, job.pc = "cleanup", job.helper # "none"
          PROVE  FirstCleanup(procs[job.helper])'
      <3>1. FirstCleanup(procs[job.helper]) /\ job.helper \in Procs
        BY <1>1, <2>2 DEF IInv, Earned, Typed, Jobs
      <3>2. CASE job.helper = p
        BY <1>2, <3>1, <3>2 DEF Fits, FirstCleanup, Pristine, Proper
      <3>3. CASE job.helper # p
        BY <1>2, <3>1, <3>3 DEF FirstCleanup, Pristine, Proper
      <3> QED
        BY <3>2, <3>3
    <2>3. ASSUME Sound, job.pc = "receipt"
          PROVE  /\ context'.kind = "saved" /\ Proper(context'.state)
                 /\ job.helper # "none" => ReceiptRun(procs[job.helper])'
      <3>1. /\ context.kind = "saved" /\ Proper(context.state)
            /\ job.helper # "none" => ReceiptRun(procs[job.helper]) /\ job.helper \in Procs
        BY <1>1, <2>3 DEF IInv, Earned, Typed, Jobs
      <3>2. job.helper # p
        BY <3>1, CleanupAssumption DEF Fits, ReceiptRun, Workings, Callings
      <3> QED
        BY <1>2, <3>1, <3>2 DEF ReceiptRun, Proper
    <2> QED
      BY <2>1, <2>2, <2>3 DEF IInv, Earned, Proper
  <1> QED
    BY <1>1, <1>3, <1>4, <1>5, <1>6, <1>7, <1>8, <1>9 DEF IInv

(* The end of the resource part: a failure is recorded as one, and without one *)
(* the resources are gone.                                                     *)
LEMMA EndFits ==
    ASSUME IInv, NEW p \in Procs, procs[p].pc \in Callings, NEW fails \in BOOLEAN,
           NEW mem \in State, mem.coverage = procs[p].mem.coverage,
           mem.attempts = procs[p].mem.attempts,
           FirstCleanup(procs[p]) /\ ~fails => mem.complete,
           ~fails => (procs[p].cmd = "inventory" \/ ResourcesGone),
           ResourcesEnd(p, fails, mem)
    PROVE  \E g : procs' = [procs EXCEPT ![p] = g] /\ Fits(procs[p], g)
  <1> DEFINE h == procs[p]
             out == IF h.cmd = "inventory" THEN mem ELSE ResourcesRecorded(mem, fails)
             g == [Off EXCEPT !.pc = "save", !.ok = h.ok /\ ~fails, !.cmd = h.cmd, !.mem = out]
  <1>1. procs' = [procs EXCEPT ![p] = g]
    BY DEF ResourcesEnd
  <1>2. h \in ProcRecs /\ h.cmd \in {"inventory", "cleanup"}
    BY DEF IInv, Typed, Aimed
  <1>3. /\ ResourcesRecorded(mem, fails) \in State
        /\ ResourcesRecorded(mem, fails).attempts = mem.attempts
        /\ ResourcesRecorded(mem, fails).complete = mem.complete
        /\ Failed(mem) \subseteq Failed(ResourcesRecorded(mem, fails))
    BY RecordedFacts
  <1>4. /\ ResourcesRecorded(mem, fails).coverage["resources"] =
             IF mem.coverage["resources"] = "failed" \/ fails THEN "failed" ELSE "verified"
        /\ ~fails => \A k \in {"workspace", "credentials"} :
                       ResourcesRecorded(mem, fails).coverage[k] = mem.coverage[k]
    BY RecordedFacts
  <1>5. /\ g.pc = "save" /\ g.ok = (h.ok /\ ~fails) /\ g.cmd = h.cmd /\ g.mem = out
        /\ g.again = FALSE /\ g.absent = FALSE /\ g.found = {}
    BY DEF Off
  <1>6. out \in State /\ Failed(h.mem) \subseteq Failed(out)
    BY <1>2, <1>3 DEF Failed
  <1>7. g \in ProcRecs
    <2>1. h.ok \in BOOLEAN
      BY <1>2 DEF ProcRecs
    <2>2. Off \in ProcRecs
      BY FreshFacts
    <2> QED
      BY <1>2, <1>6, <2>1, <2>2 DEF ProcRecs, Workings, Off
  <1>8. out.coverage["resources"] = "verified" =>
          h.mem.coverage["resources"] = "verified" \/ ResourcesGone
    BY <1>2, <1>4
  <1>9. Pristine(h.mem) /\ h.cmd # "cleanup" => Pristine(out)
    BY <1>2 DEF Pristine
  <1>10. FirstCleanup(h) => FirstCleanup(g)
    <2> SUFFICES ASSUME FirstCleanup(h) PROVE FirstCleanup(g)
      OBVIOUS
    <2>1. /\ h.cmd = "cleanup" /\ mem.attempts = 1
          /\ mem.coverage["resources"] = "unobservable"
          /\ h.ok => /\ mem.coverage["workspace"] = "verified"
                     /\ mem.coverage["credentials"] = "verified"
          /\ ~fails => mem.complete
      BY DEF FirstCleanup
    <2>2. out = ResourcesRecorded(mem, fails)
      BY <2>1
    <2> HIDE DEF out, g, h
    <2>3. g.ok => Proper(g.mem)
      BY <1>3, <1>4, <1>5, <2>1, <2>2 DEF Proper, Components
    <2> QED
      BY <1>5, <2>3 DEF FirstCleanup, Callings
  <1> HIDE DEF out, g
  <1>11. Fits(h, g)
    BY <1>5, <1>6, <1>7, <1>8, <1>9, <1>10 DEF Fits, Workings, Callings
  <1> QED
    BY <1>1, <1>11

LEMMA MoveFits ==
    ASSUME IInv, NEW p \in Procs, procs[p].pc \in {"delete", "remove", "check", "verify"},
           NEW pc \in {"remove", "check"}, Goes(p, pc)
    PROVE  \E g : procs' = [procs EXCEPT ![p] = g] /\ Fits(procs[p], g)
  <1> DEFINE h == procs[p]
             g == [h EXCEPT !.pc = pc]
  <1>1. h \in ProcRecs
    BY DEF IInv, Typed
  <1>2. procs' = [procs EXCEPT ![p] = g]
    BY DEF Goes
  <1>3. /\ g \in ProcRecs /\ g.pc = pc /\ g.cmd = h.cmd /\ g.mem = h.mem /\ g.ok = h.ok
        /\ g.again = h.again /\ g.absent = h.absent
    BY <1>1 DEF ProcRecs, Workings, Callings
  <1> HIDE DEF g
  <1>4. Fits(h, g)
    BY <1>3 DEF Fits, Workings, Callings, FirstCleanup
  <1> QED
    BY <1>2, <1>4

LEMMA ListClaimsInv ==
    ASSUME IInv, NEW p \in Procs, ListClaims(p), UNCHANGED <<job, staged, late>>
    PROVE  IInv'
  <1> DEFINE h == procs[p]
             found == procs'[p].found
             g == [h EXCEPT !.pc = "volumes", !.mem.complete = FALSE, !.found = found]
  <1>1. h \in ProcRecs /\ h.mem \in State
    BY DEF IInv, Typed, ProcRecs
  <1>2. procs' = [procs EXCEPT ![p] = g] /\ found \in SUBSET Claims /\ h.pc = "list"
    BY <1>1 DEF ListClaims, IInv, Typed, ProcRecs
  <1>3. /\ g.pc = "volumes" /\ g.cmd = h.cmd /\ g.again = h.again /\ g.absent = h.absent
        /\ g.ok = h.ok /\ g.mem = [h.mem EXCEPT !.complete = FALSE]
    BY <1>1 DEF ProcRecs
  <1>4. /\ g.mem \in State /\ g.mem.volumes = h.mem.volumes /\ g.mem.attempts = h.mem.attempts
        /\ g.mem.coverage = h.mem.coverage
    <2> DEFINE m == [h.mem EXCEPT !.complete = FALSE]
    <2>1. m \in State /\ m.volumes = h.mem.volumes /\ m.attempts = h.mem.attempts
      BY <1>1, CompleteFacts
    <2>2. m.coverage = h.mem.coverage
      BY <1>1, CompleteFacts
    <2> QED
      BY <1>3, <2>1, <2>2
  <1>5. g \in ProcRecs
    BY <1>1, <1>2, <1>4 DEF ProcRecs, Workings, Callings
  <1> HIDE DEF g
  <1>6. Fits(h, g)
    BY <1>1, <1>2, <1>3, <1>4, <1>5 DEF Fits, Workings, Callings, Failed, Pristine, FirstCleanup
  <1>7. Cleared
    BY SameCluster DEF IInv, ListClaims
  <1> QED
    BY <1>2, <1>6, <1>7, WorkStep DEF ListClaims

LEMMA ListVolumesInv ==
    ASSUME IInv, NEW p \in Procs, ListVolumes(p), UNCHANGED <<job, staged, late>>
    PROVE  IInv'
  <1> DEFINE h == procs[p]
             recorded == h.mem.claims \cup h.found
             all == h.mem.volumes \cup {c \in Claims : volumes[c] = "labelled"}
             next == [h.mem EXCEPT !.claims = recorded, !.volumes = all, !.complete = TRUE]
             absent == h.again /\ next.claims = h.mem.claims /\ next.volumes = h.mem.volumes
             g == [h EXCEPT !.mem = next, !.found = {},
                            !.pc = IF h.again THEN "verify" ELSE "delete",
                            !.absent = absent]
  <1>1. h \in ProcRecs /\ h.mem \in State /\ h.pc = "volumes"
    BY DEF IInv, Typed, ProcRecs, ListVolumes
  <1>2. /\ next \in State /\ next.volumes = all /\ next.complete
        /\ next.attempts = h.mem.attempts /\ next.coverage = h.mem.coverage
    BY <1>1 DEF State, ProcRecs
  <1>3. Cleared
    BY SameCluster DEF IInv, ListVolumes
  <1>4. CASE Unsupported(recorded)
    <2>1. ResourcesEnd(p, TRUE, h.mem)
      BY <1>4 DEF ListVolumes
    <2>2. \E f : procs' = [procs EXCEPT ![p] = f] /\ Fits(procs[p], f)
      BY <1>1, <2>1, EndFits DEF Callings
    <2> QED
      BY <1>3, <2>2, WorkStep DEF ListVolumes
  <1>5. CASE ~Unsupported(recorded) /\ h.cmd = "inventory"
    <2>1. ResourcesEnd(p, FALSE, next)
      BY <1>5 DEF ListVolumes
    <2> HIDE DEF next
    <2>2. \E f : procs' = [procs EXCEPT ![p] = f] /\ Fits(procs[p], f)
      BY <1>1, <1>2, <1>5, <2>1, EndFits DEF Callings
    <2> QED
      BY <1>3, <2>2, WorkStep DEF ListVolumes
  <1>6. CASE ~Unsupported(recorded) /\ h.cmd # "inventory"
    <2>1. procs' = [procs EXCEPT ![p] = g]
      <3>1. procs' = [procs EXCEPT ![p].mem = next, ![p].found = {},
                        ![p].pc = IF h.again THEN "verify" ELSE "delete",
                        ![p].absent = absent]
        BY <1>6 DEF ListVolumes
      <3>2. procs \in [Procs -> ProcRecs]
        BY DEF IInv, Typed
      <3> HIDE DEF next, absent
      <3> QED
        BY <1>1, <3>1, <3>2, SMTT(30) DEF ProcRecs
    <2>2. \A c \in Claims : LiveVolume(c) => c \in all
      BY <1>6 DEF Unsupported, LiveVolume
    <2>3. absent => namespace = "gone"
      BY DEF IInv, Removed
    <2> HIDE DEF next, all, absent
    <2>4. /\ g.pc \in {"verify", "delete"} /\ g.cmd = h.cmd /\ g.again = h.again
          /\ g.absent = absent /\ g.ok = h.ok /\ g.mem = next /\ g.found = {}
      BY <1>1 DEF ProcRecs
    <2>5. absent \in BOOLEAN
      BY <1>1 DEF absent, ProcRecs
    <2>6. g \in ProcRecs
      BY <1>1, <1>2, <2>5 DEF ProcRecs, Workings, Callings
    <2> HIDE DEF g
    <2>7. Fits(h, g)
      BY <1>1, <1>2, <2>2, <2>3, <2>4, <2>6
         DEF Fits, Workings, Callings, Failed, Pristine, FirstCleanup
    <2> QED
      BY <1>3, <2>1, <2>7, WorkStep DEF ListVolumes
  <1> QED
    BY <1>4, <1>5, <1>6

LEMMA VerifyInv ==
    ASSUME IInv, NEW p \in Procs, Verify(p), UNCHANGED <<job, staged, late>>
    PROVE  IInv'
  <1> DEFINE h == procs[p]
             replaced == ~scoped /\ \E c \in h.mem.claims, d \in Claims :
                           c # d /\ claims[d] = "live" /\ Name(c) = Name(d)
             absent == /\ h.absent /\ \A c \in h.mem.volumes : ~LiveVolume(c)
                       /\ scoped \/ \A c \in h.mem.claims : claims[c] # "live"
  <1>1. h \in ProcRecs /\ h.mem \in State /\ h.pc = "verify"
    BY DEF IInv, Typed, ProcRecs, Verify
  <1>2. Cleared
    BY SameCluster DEF IInv, Verify
  <1>3. CASE replaced \/ absent
    <2>1. ResourcesEnd(p, replaced, h.mem)
      BY <1>3 DEF Verify
    <2>2. absent => ResourcesGone
      BY DEF IInv, Removed, ResourcesGone
    <2>3. FirstCleanup(h) => h.mem.complete
      BY <1>1 DEF FirstCleanup
    <2>4. replaced \in BOOLEAN
      OBVIOUS
    <2> HIDE DEF replaced, absent
    <2>5. \E g : procs' = [procs EXCEPT ![p] = g] /\ Fits(procs[p], g)
      BY <1>1, <1>3, <2>1, <2>2, <2>3, <2>4, EndFits DEF Callings
    <2> QED
      BY <1>2, <2>5, WorkStep DEF Verify
  <1>4. CASE ~(replaced \/ absent)
    <2>1. Goes(p, "remove")
      BY <1>4 DEF Verify
    <2>2. \E g : procs' = [procs EXCEPT ![p] = g] /\ Fits(procs[p], g)
      BY <1>1, <2>1, MoveFits
    <2> QED
      BY <1>2, <2>2, WorkStep DEF Verify
  <1> QED
    BY <1>3, <1>4

LEMMA DeadlineInv ==
    ASSUME IInv, NEW p \in Procs, Deadline(p), UNCHANGED <<job, staged, late>>
    PROVE  IInv'
  <1> DEFINE h == procs[p]
             b == h.mem.complete /\ h.pc # "list"
             mem == [h.mem EXCEPT !.complete = b]
  <1>1. h \in ProcRecs /\ h.mem \in State /\ h.pc \in Callings
    BY DEF IInv, Typed, ProcRecs, Deadline, Calling, Callings
  <1>2. Cleared
    BY SameCluster DEF IInv, Deadline
  <1>3. ResourcesEnd(p, TRUE, mem)
    BY DEF Deadline
  <1>4. b \in BOOLEAN
    BY <1>1 DEF State
  <1> HIDE DEF b
  <1>5. mem \in State /\ mem.attempts = h.mem.attempts
    BY <1>1, <1>4, CompleteFacts
  <1>6. mem.coverage = h.mem.coverage
    BY <1>1, <1>4, CompleteFacts
  <1> HIDE DEF mem
  <1>7. \E g : procs' = [procs EXCEPT ![p] = g] /\ Fits(procs[p], g)
    BY <1>1, <1>3, <1>5, <1>6, EndFits
  <1> QED
    BY <1>2, <1>7, WorkStep DEF Deadline

LEMMA DeleteInv ==
    ASSUME IInv, NEW p \in Procs, DeleteNamespace(p) \/ DeleteVolumes(p),
           UNCHANGED <<job, staged, late>>
    PROVE  IInv'
  <1>1. Cleared
    BY DEF IInv, Typed, Removed, DeleteNamespace, DeleteVolumes, Cleared, LiveVolume
  <1>2. \E g : procs' = [procs EXCEPT ![p] = g] /\ Fits(procs[p], g)
    BY MoveFits DEF DeleteNamespace, DeleteVolumes
  <1> QED
    BY <1>1, <1>2, WorkStep DEF DeleteNamespace, DeleteVolumes

LEMMA CheckNamespaceInv ==
    ASSUME IInv, NEW p \in Procs, CheckNamespace(p), UNCHANGED <<job, staged, late>>
    PROVE  IInv'
  <1> DEFINE h == procs[p]
             gone == namespace = "gone"
             g == [h EXCEPT !.again = gone, !.absent = FALSE,
                            !.pc = IF gone THEN "list" ELSE "verify"]
  <1>1. h \in ProcRecs /\ h.pc = "check"
    BY DEF IInv, Typed, CheckNamespace
  <1>2. procs' = [procs EXCEPT ![p] = g]
    BY <1>1 DEF CheckNamespace, IInv, Typed, ProcRecs
  <1>3. /\ g.pc \in {"list", "verify"} /\ g.cmd = h.cmd /\ g.mem = h.mem /\ g.ok = h.ok
        /\ g.again = gone /\ ~g.absent
    BY <1>1 DEF ProcRecs
  <1>4. g \in ProcRecs
    BY <1>1 DEF ProcRecs, Workings, Callings
  <1> HIDE DEF g
  <1>5. Fits(h, g)
    BY <1>1, <1>3, <1>4 DEF Fits, Workings, Callings, FirstCleanup
  <1>6. Cleared
    BY SameCluster DEF IInv, CheckNamespace
  <1> QED
    BY <1>2, <1>5, <1>6, WorkStep DEF CheckNamespace

LEMMA WipeInv ==
    ASSUME IInv, NEW p \in Procs, Wipe(p), UNCHANGED <<job, staged, late>>
    PROVE  IInv'
  <1> DEFINE h == procs[p]
             counted == [h.mem EXCEPT !.attempts = @ + 1]
  <1>1. h \in ProcRecs /\ h.mem \in State /\ h.pc = "wipe" /\ h.cmd = "cleanup"
    BY DEF IInv, Typed, ProcRecs, Wipe, Aimed
  <1>2. PICK failing \in {{}, {"workspace"}, {"credentials"}, {"workspace", "credentials"}} :
          LET first == Record(counted, "workspace", Outcome("workspace" \in failing))
          IN  procs' = [procs EXCEPT ![p].pc = "list", ![p].ok = failing = {},
                    ![p].mem = Record(first, "credentials",
                                      Outcome("credentials" \in failing))]
    BY DEF Wipe
  <1> DEFINE w == Outcome("workspace" \in failing)
             c == Outcome("credentials" \in failing)
             mem == Wiped(h.mem, w, c)
             g == [h EXCEPT !.pc = "list", !.ok = failing = {}, !.mem = mem]
  <1>3. procs' = [procs EXCEPT ![p] = g]
    <2>1. procs' = [procs EXCEPT ![p].pc = "list", ![p].ok = failing = {}, ![p].mem = mem]
      BY <1>2 DEF Wiped
    <2> HIDE DEF mem
    <2> QED
      BY <1>1, <2>1 DEF IInv, Typed, ProcRecs
  <1>4. w \in {"verified", "failed"} /\ c \in {"verified", "failed"}
    BY DEF Outcome
  <1>5. failing = {} => w = "verified" /\ c = "verified"
    BY DEF Outcome
  <1> HIDE DEF w, c
  <1>6. /\ mem \in State /\ mem.attempts = h.mem.attempts + 1
        /\ Failed(h.mem) \subseteq Failed(mem)
        /\ mem.coverage["resources"] = h.mem.coverage["resources"]
        /\ Pristine(h.mem) => mem.coverage["workspace"] = w /\ mem.coverage["credentials"] = c
    BY <1>1, <1>4, WipedFacts
  <1> HIDE DEF mem
  <1>7. /\ g.pc = "list" /\ g.cmd = h.cmd /\ g.mem = mem /\ g.ok = (failing = {})
        /\ g.again = h.again /\ g.absent = h.absent
    BY <1>1 DEF ProcRecs
  <1>8. g \in ProcRecs
    BY <1>1, <1>6 DEF ProcRecs, Workings, Callings
  <1>9. ~h.absent
    BY <1>1 DEF IInv, Removed
  <1> HIDE DEF g
  <1>10. FirstCleanup(h) => FirstCleanup(g)
    <2> SUFFICES ASSUME FirstCleanup(h) PROVE FirstCleanup(g)
      OBVIOUS
    <2>1. Pristine(h.mem) /\ h.mem.attempts = 0
      BY <1>1 DEF FirstCleanup, Pristine
    <2>3. mem.attempts = 1
      BY <1>6, <2>1
    <2>4. /\ mem.coverage["resources"] = h.mem.coverage["resources"]
          /\ mem.coverage["workspace"] = w /\ mem.coverage["credentials"] = c
      BY <1>6, <2>1
    <2>2. h.mem.coverage["resources"] = "unobservable"
      BY <2>1, FreshFacts DEF Pristine
    <2> QED
      BY <1>1, <1>5, <1>7, <2>2, <2>3, <2>4 DEF FirstCleanup, Callings
  <1>11. Fits(h, g)
    BY <1>1, <1>6, <1>7, <1>8, <1>9, <1>10 DEF Fits, Workings, Callings
  <1>12. Cleared
    BY SameCluster DEF IInv, Wipe
  <1> QED
    BY <1>3, <1>11, <1>12, WorkStep DEF Wipe

LEMMA BeginInv ==
    ASSUME IInv, NEW p \in Procs, Begin(p), UNCHANGED <<job, staged, late>>
    PROVE  IInv'
  <1> DEFINE h == procs[p]
             g == [h EXCEPT !.pc = "save"]
  <1>1. h \in ProcRecs /\ h.pc = "begin"
    BY DEF IInv, Typed, Begin
  <1>2. procs' = [procs EXCEPT ![p] = g]
    BY DEF Begin, Goes
  <1>3. /\ g \in ProcRecs /\ g.pc = "save" /\ g.cmd = h.cmd /\ g.mem = h.mem
        /\ g.again = h.again /\ g.absent = h.absent
    BY <1>1 DEF ProcRecs, Workings
  <1> HIDE DEF g
  <1>4. Fits(h, g)
    BY <1>1, <1>3 DEF Fits, Workings, Callings, FirstCleanup
  <1>5. Cleared
    BY DEF IInv, Typed, Removed, Begin, Unnamed, Cleared, LiveVolume
  <1> QED
    BY <1>2, <1>4, <1>5, WorkStep DEF Begin

----------------------------------------------------------------------------
(* A process that ends or takes the lock *)

LEMMA EndStep ==
    ASSUME IInv, NEW p \in Procs, NEW ok \in BOOLEAN, NEW out \in State, Ended(p, ok, out),
           Cleared, UNCHANGED <<job, staged, late>>,
           context' \in [kind : {"absent", "reserved", "saved"}, state : State],
           lock' \in Procs \cup {"none"},
           procs[p].pc \in Workings \cup {"start"},
           (context' = context /\ lock' = lock) \/ procs[p].pc \in Workings,
           out.coverage["resources"] = "verified" => ResourcesGone,
           Verified(context', "resources") => ResourcesGone,
           Pristine(context.state) /\ procs[p].cmd # "cleanup" /\ Pristine(procs[p].mem)
             => Pristine(out) /\ Pristine(context'.state),
           FirstCleanup(procs[p]) /\ ok => context'.kind = "saved" /\ Proper(context'.state),
           ReceiptRun(procs[p]) => context' = context,
           ReceiptRun(procs[p]) /\ context.kind = "saved" /\ Proper(context.state) /\ ok
             => Proper(out)
    PROVE  IInv'
  <1> DEFINE g == [Off EXCEPT !.pc = "exit", !.mem = out, !.ok = ok]
  <1>1. procs' = [procs EXCEPT ![p] = g]
    BY DEF Ended
  <1>2. /\ g.pc = "exit" /\ g.mem = out /\ g.ok = ok /\ g.cmd = "none"
        /\ g.again = FALSE /\ g.absent = FALSE
    BY DEF Off
  <1>3. g \in ProcRecs
    BY FreshFacts DEF ProcRecs, Off
  <1> HIDE DEF g
  <1>4. Typed /\ Typed'
    BY <1>1, <1>3 DEF IInv, Typed, Cleared
  <1>5. procs'[p] = g /\ \A q \in Procs \ {p} : procs'[q] = procs[q]
    BY <1>1, <1>4 DEF Typed
  <1>6. Locked'
    <2> SUFFICES ASSUME NEW q \in Procs
                 PROVE  /\ procs'[q].pc \in Workings =>
                             lock' = q /\ Failed(context'.state) \subseteq Failed(procs'[q].mem)
                        /\ procs'[q].pc = "begin" => context' = Reserved
      BY DEF Locked
    <2>1. CASE q = p
      BY <1>2, <1>5, <2>1 DEF Workings, Callings
    <2>2. CASE q # p
      BY <1>5, <2>2 DEF IInv, Locked, Workings
    <2> QED
      BY <2>1, <2>2
  <1>7. Removed'
    <2>1. ResourcesGone => ResourcesGone'
      BY GoneStays
    <2>2. namespace' = "gone" => \A c \in Claims : claims'[c] # "live"
      BY DEF Cleared
    <2>3. ASSUME NEW q \in Procs
          PROVE  /\ procs'[q].again => namespace' = "gone"
                 /\ procs'[q].absent =>
                      /\ namespace' = "gone"
                      /\ \A c \in Claims : LiveVolume(c)' => c \in procs'[q].mem.volumes
                 /\ procs'[q].pc \in {"start", "wipe"} => ~procs'[q].again /\ ~procs'[q].absent
                 /\ procs'[q].mem.coverage["resources"] = "verified" => ResourcesGone'
      <3>1. CASE q # p
        BY <1>5, <2>1, <3>1 DEF IInv, Removed, Cleared, LiveVolume
      <3>2. CASE q = p
        BY <1>2, <1>5, <2>1, <3>2
      <3> QED
        BY <3>1, <3>2
    <2>4. \A r \in Records' : Verified(r, "resources") => ResourcesGone
      BY DEF IInv, Removed, Records
    <2>5. \A patch \in late' : Verified(patch.evidence, "resources") => ResourcesGone
      BY DEF IInv, Removed
    <2> QED
      BY <2>1, <2>2, <2>3, <2>4, <2>5 DEF Removed, Verified
  <1>8. Ordered' /\ Staged'
    BY DEF IInv, Ordered, Staged, Proven, Clean, Proper, Snapshot, GuardFailed
  <1>9. Aimed'
    BY <1>2, <1>5 DEF IInv, Aimed, Callings
  <1>10. Untouched'
    BY <1>2, <1>5 DEF IInv, Untouched, Pristine
  <1>11. Sound => job.helper = p
    BY DEF IInv, Alone, Workings, Callings
  <1>12. Alone'
    BY <1>5, <1>11 DEF IInv, Alone, Sound
  <1>13. Earned'
    <2>1. Sound' = Sound
      BY DEF Sound
    <2>2. ASSUME Sound, job.pc = "cleanup", job.helper # "none"
          PROVE  FirstCleanup(procs[job.helper])'
      <3>1. FirstCleanup(procs[p]) /\ job.helper = p
        BY <1>11, <2>2 DEF IInv, Earned
      <3> QED
        BY <1>2, <1>5, <3>1 DEF FirstCleanup, Pristine, Proper, Callings
    <2>3. ASSUME Sound, job.pc = "receipt"
          PROVE  /\ context'.kind = "saved" /\ Proper(context'.state)
                 /\ job.helper # "none" => ReceiptRun(procs[job.helper])'
      <3>1. /\ context.kind = "saved" /\ Proper(context.state)
            /\ job.helper = p /\ ReceiptRun(procs[p])
        BY <1>11, <2>3, CleanupAssumption DEF IInv, Earned
      <3>2. context' = context
        BY <3>1
      <3> QED
        BY <1>2, <1>5, <3>1, <3>2 DEF ReceiptRun, Proper
    <2> QED
      BY <2>1, <2>2, <2>3 DEF IInv, Earned, Proper
  <1> QED
    BY <1>4, <1>6, <1>7, <1>8, <1>9, <1>10, <1>12, <1>13 DEF IInv

LEMMA RefusedInv ==
    ASSUME IInv, NEW p \in Procs, Refused(p), UNCHANGED <<job, staged, late>>
    PROVE  IInv'
  <1>1. /\ procs[p].pc = "start" /\ Ended(p, FALSE, Fresh)
        /\ UNCHANGED <<cluster, context, lock>> /\ Cleared
    BY SameCluster DEF Refused, IInv
  <1>2. /\ context \in [kind : {"absent", "reserved", "saved"}, state : State]
        /\ lock \in Procs \cup {"none"}
        /\ Verified(context, "resources") => ResourcesGone
    BY DEF IInv, Typed, Removed, Records
  <1> QED
    BY <1>1, <1>2, FreshFacts, EndStep

LEMMA ReceiptInv ==
    ASSUME IInv, NEW p \in Procs, Receipt(p), UNCHANGED <<job, staged, late>>
    PROVE  IInv'
  <1>1. /\ procs[p].pc = "start" /\ procs[p].cmd = "receipt" /\ context.kind = "saved"
        /\ Ended(p, TRUE, context.state) /\ UNCHANGED <<cluster, context, lock>> /\ Cleared
    BY SameCluster DEF Receipt, IInv
  <1>2. /\ context \in [kind : {"absent", "reserved", "saved"}, state : State]
        /\ lock \in Procs \cup {"none"} /\ context.state \in State
        /\ Verified(context, "resources") => ResourcesGone
    BY DEF IInv, Typed, Removed, Records
  <1>3. context.state.coverage["resources"] = "verified" => ResourcesGone
    BY <1>1, <1>2 DEF Verified
  <1>4. ~FirstCleanup(procs[p])
    BY <1>1 DEF FirstCleanup
  <1> QED
    BY <1>1, <1>2, <1>3, <1>4, EndStep

LEMMA BeginFailsInv ==
    ASSUME IInv, NEW p \in Procs, BeginFails(p), UNCHANGED <<job, staged, late>>
    PROVE  IInv'
  <1>1. /\ procs[p].pc = "begin" /\ Ended(p, FALSE, Fresh) /\ context' = Absent
        /\ lock' = "none" /\ UNCHANGED <<scoped, claims, volumes>>
        /\ namespace' \in {namespace, "left"} /\ (namespace = "gone" => namespace' = namespace)
    BY DEF BeginFails, Unnamed
  <1>2. ~ReceiptRun(procs[p]) /\ procs[p].pc \in Workings
    BY <1>1 DEF ReceiptRun, Workings
  <1>3. ~Verified(context', "resources") /\ Pristine(context'.state)
    BY <1>1, FreshFacts DEF Verified, Absent
  <1>4. Cleared
    BY <1>1 DEF IInv, Typed, Removed, Cleared, LiveVolume
  <1> QED
    BY <1>1, <1>2, <1>3, <1>4, FreshFacts, EndStep

LEMMA SaveInv ==
    ASSUME IInv, NEW p \in Procs, Save(p), UNCHANGED <<job, staged, late>>
    PROVE  IInv'
  <1>1. procs[p].pc = "save" /\ lock' = "none" /\ Cleared
    BY SameCluster DEF Save, IInv
  <1>2. ~ReceiptRun(procs[p]) /\ procs[p].pc \in Workings
    BY <1>1 DEF ReceiptRun, Workings
  <1>3. procs[p].mem \in State /\ procs[p].ok \in BOOLEAN
    BY DEF IInv, Typed, ProcRecs
  <1>4. FirstCleanup(procs[p]) /\ procs[p].ok => Proper(procs[p].mem)
    BY <1>1 DEF FirstCleanup
  <1>5. CASE context' = [kind |-> "saved", state |-> procs[p].mem]
    <2>1. PICK ok \in BOOLEAN : Ended(p, ok, Fresh) /\ (ok => procs[p].ok)
      <3>1. \/ \E fails \in BOOLEAN : Ended(p, procs[p].ok /\ ~fails, Fresh)
            \/ Ended(p, FALSE, Fresh)
        BY DEF Save
      <3> QED
        BY <1>3, <3>1
    <2>2. /\ context' \in [kind : {"absent", "reserved", "saved"}, state : State]
          /\ context'.kind = "saved" /\ context'.state = procs[p].mem
      BY <1>3, <1>5
    <2>3. Verified(context', "resources") => ResourcesGone
      BY <2>2 DEF Verified, IInv, Removed
    <2> QED
      BY <1>1, <1>2, <1>4, <2>1, <2>2, <2>3, FreshFacts, EndStep
  <1>6. CASE context' = context /\ Ended(p, FALSE, Fresh)
    <2>1. /\ context \in [kind : {"absent", "reserved", "saved"}, state : State]
          /\ Verified(context, "resources") => ResourcesGone
      BY DEF IInv, Typed, Removed, Records
    <2> QED
      BY <1>1, <1>2, <1>6, <2>1, FreshFacts, EndStep
  <1> QED
    BY <1>5, <1>6 DEF Save

(* A process that takes the lock for its command. *)
LEMMA LockStep ==
    ASSUME IInv, NEW p \in Procs, NEW g \in ProcRecs, procs' = [procs EXCEPT ![p] = g],
           UNCHANGED <<cluster, job, staged, late>>, lock = "none", lock' = p,
           procs[p].pc = "start", procs[p].cmd # "receipt",
           g.cmd = procs[p].cmd, g.again = procs[p].again, g.absent = procs[p].absent,
           \/ /\ g.pc = "begin" /\ procs[p].cmd = "begin" /\ g.mem = procs[p].mem
              /\ context = Absent /\ context' = Reserved
           \/ /\ g.pc = IF procs[p].cmd = "inventory" THEN "list" ELSE "wipe"
              /\ procs[p].cmd \in {"inventory", "cleanup"}
              /\ g.mem = context.state /\ context.kind = "saved" /\ context' = context
    PROVE  IInv'
  <1>1. Typed /\ Typed'
    BY FreshFacts DEF IInv, Typed, cluster
  <1>2. procs'[p] = g /\ \A q \in Procs \ {p} : procs'[q] = procs[q]
    BY <1>1 DEF Typed
  <1>3. /\ Failed(context'.state) \subseteq Failed(g.mem)
        /\ Verified(context', "resources") => ResourcesGone
        /\ g.mem.coverage["resources"] = "verified" => ResourcesGone
        /\ Pristine(context.state) => Pristine(context'.state)
        /\ Pristine(context.state) /\ Pristine(procs[p].mem) => Pristine(g.mem)
    <2>1. CASE g.pc = "begin"
      BY <2>1, FreshFacts DEF IInv, Removed, Verified, Reserved
    <2>2. CASE g.pc # "begin"
      BY <2>2 DEF IInv, Removed, Records, Verified
    <2> QED
      BY <2>1, <2>2
  <1>4. Locked'
    <2> SUFFICES ASSUME NEW q \in Procs
                 PROVE  /\ procs'[q].pc \in Workings =>
                             lock' = q /\ Failed(context'.state) \subseteq Failed(procs'[q].mem)
                        /\ procs'[q].pc = "begin" => context' = Reserved
      BY DEF Locked
    <2>1. CASE q = p
      BY <1>2, <1>3, <2>1
    <2>2. CASE q # p
      BY <1>2, <2>2, CleanupAssumption DEF IInv, Locked, Workings
    <2> QED
      BY <2>1, <2>2
  <1>5. Removed'
    <2>1. ResourcesGone' = ResourcesGone
      BY DEF ResourcesGone, LiveVolume, cluster
    <2>2. namespace' = "gone" => \A c \in Claims : claims'[c] # "live"
      BY DEF IInv, Removed, cluster
    <2>3. ASSUME NEW q \in Procs
          PROVE  /\ procs'[q].again => namespace' = "gone"
                 /\ procs'[q].absent =>
                      /\ namespace' = "gone"
                      /\ \A c \in Claims : LiveVolume(c)' => c \in procs'[q].mem.volumes
                 /\ procs'[q].pc \in {"start", "wipe"} => ~procs'[q].again /\ ~procs'[q].absent
                 /\ procs'[q].mem.coverage["resources"] = "verified" => ResourcesGone'
      <3>1. CASE q # p
        BY <1>2, <2>1, <3>1 DEF IInv, Removed, LiveVolume, cluster
      <3>2. CASE q = p
        BY <1>2, <1>3, <2>1, <3>2 DEF IInv, Removed
      <3> QED
        BY <3>1, <3>2
    <2>4. \A r \in Records' : Verified(r, "resources") => ResourcesGone
      BY <1>3 DEF IInv, Removed, Records
    <2>5. \A patch \in late' : Verified(patch.evidence, "resources") => ResourcesGone
      BY DEF IInv, Removed
    <2> QED
      BY <2>1, <2>2, <2>3, <2>4, <2>5 DEF Removed, Verified
  <1>6. Ordered' /\ Staged'
    BY DEF IInv, Ordered, Staged, Proven, Clean, Proper, Snapshot, GuardFailed
  <1>7. Aimed'
    BY <1>2 DEF IInv, Aimed, Callings
  <1>8. Untouched'
    BY <1>2, <1>3 DEF IInv, Untouched, Pristine
  <1>9. Sound => job.helper = p
    BY DEF IInv, Alone
  <1>10. Alone'
    BY <1>2, <1>9 DEF IInv, Alone, Sound
  <1>11. Earned'
    <2>1. Sound' = Sound
      BY DEF Sound
    <2>2. ASSUME Sound, job.pc = "cleanup", job.helper # "none"
          PROVE  FirstCleanup(procs[job.helper])'
      <3>1. FirstCleanup(procs[p]) /\ job.helper = p
        BY <1>9, <2>2 DEF IInv, Earned
      <3>2. procs[p].cmd = "cleanup" /\ Pristine(context.state)
        BY <3>1 DEF FirstCleanup
      <3> QED
        BY <1>2, <3>1, <3>2 DEF FirstCleanup, Pristine, Proper, Callings
    <2>3. ASSUME Sound, job.pc = "receipt" PROVE FALSE
      BY <1>9, <2>3, CleanupAssumption DEF IInv, Earned, ReceiptRun
    <2> QED
      BY <2>1, <2>2, <2>3 DEF IInv, Earned, Proper
  <1> QED
    BY <1>1, <1>4, <1>5, <1>6, <1>7, <1>8, <1>10, <1>11 DEF IInv

LEMMA LoadsInv ==
    ASSUME IInv, NEW p \in Procs, Reserves(p) \/ Loads(p), UNCHANGED <<job, staged, late>>
    PROVE  IInv'
  <1> DEFINE h == procs[p]
  <1>1. h \in ProcRecs /\ context.state \in State
    BY DEF IInv, Typed
  <1>2. CASE Reserves(p)
    <2> DEFINE g == [h EXCEPT !.pc = "begin"]
    <2>1. procs' = [procs EXCEPT ![p] = g]
      BY <1>2 DEF Reserves, Goes
    <2>2. /\ g \in ProcRecs /\ g.pc = "begin" /\ g.cmd = h.cmd /\ g.mem = h.mem
          /\ g.again = h.again /\ g.absent = h.absent
      BY <1>1 DEF ProcRecs, Workings
    <2> HIDE DEF g
    <2> QED
      BY <1>2, <2>1, <2>2, LockStep DEF Reserves
  <1>3. CASE Loads(p)
    <2> DEFINE g == [h EXCEPT !.mem = context.state,
                              !.pc = IF h.cmd = "inventory" THEN "list" ELSE "wipe"]
    <2>1. procs' = [procs EXCEPT ![p] = g]
      BY <1>1, <1>3 DEF Loads, IInv, Typed, ProcRecs
    <2>2. /\ g.pc = IF h.cmd = "inventory" THEN "list" ELSE "wipe"
          /\ g.cmd = h.cmd /\ g.mem = context.state
          /\ g.again = h.again /\ g.absent = h.absent
      BY <1>1 DEF ProcRecs
    <2>3. g \in ProcRecs
      BY <1>1 DEF ProcRecs, Workings, Callings
    <2> HIDE DEF g
    <2> QED
      BY <1>3, <2>1, <2>2, <2>3, LockStep DEF Loads
  <1> QED
    BY <1>2, <1>3

LEMMA CommandInv ==
    ASSUME IInv, NEW p \in Procs, Helper(p)
    PROVE  IInv'
  <1> USE DEF Helper
  <1>1. CASE Refused(p)
    BY <1>1, RefusedInv
  <1>2. CASE Reserves(p) \/ Loads(p)
    BY <1>2, LoadsInv
  <1>3. CASE Receipt(p)
    BY <1>3, ReceiptInv
  <1>4. CASE Begin(p)
    BY <1>4, BeginInv
  <1>5. CASE BeginFails(p)
    BY <1>5, BeginFailsInv
  <1>6. CASE Save(p)
    BY <1>6, SaveInv
  <1>7. CASE Wipe(p)
    BY <1>7, WipeInv
  <1>8. CASE ListClaims(p)
    BY <1>8, ListClaimsInv
  <1>9. CASE ListVolumes(p)
    BY <1>9, ListVolumesInv
  <1>10. CASE DeleteNamespace(p) \/ DeleteVolumes(p)
    BY <1>10, DeleteInv
  <1>11. CASE CheckNamespace(p)
    BY <1>11, CheckNamespaceInv
  <1>12. CASE Verify(p)
    BY <1>12, VerifyInv
  <1>13. CASE Deadline(p)
    BY <1>13, DeadlineInv
  <1> QED
    BY <1>1, <1>2, <1>3, <1>4, <1>5, <1>6, <1>7, <1>8, <1>9, <1>10, <1>11, <1>12, <1>13
       DEF Command

----------------------------------------------------------------------------
(* Steps of the cluster, and processes that start, are killed or reaped *)

LEMMA ClusterInv ==
    ASSUME IInv, Cleared, UNCHANGED <<context, lock, procs, job, staged, late>>
    PROVE  IInv'
  <1>1. Typed' /\ Locked' /\ Aimed'
    BY DEF IInv, Typed, Cleared, Locked, Aimed
  <1>2. Removed'
    <2>1. ResourcesGone => ResourcesGone'
      BY GoneStays
    <2>2. namespace' = "gone" => \A c \in Claims : claims'[c] # "live"
      BY DEF Cleared
    <2>3. ASSUME NEW q \in Procs
          PROVE  /\ procs'[q].again => namespace' = "gone"
                 /\ procs'[q].absent =>
                      /\ namespace' = "gone"
                      /\ \A c \in Claims : LiveVolume(c)' => c \in procs'[q].mem.volumes
                 /\ procs'[q].pc \in {"start", "wipe"} => ~procs'[q].again /\ ~procs'[q].absent
                 /\ procs'[q].mem.coverage["resources"] = "verified" => ResourcesGone'
      BY <2>1 DEF IInv, Removed, Cleared, LiveVolume
    <2>4. /\ \A r \in Records : Verified(r, "resources") => ResourcesGone
          /\ \A patch \in late : Verified(patch.evidence, "resources") => ResourcesGone
      BY DEF IInv, Removed
    <2>5. Records' = Records /\ late' = late
      BY DEF Records
    <2> QED
      BY <2>1, <2>2, <2>3, <2>4, <2>5 DEF Removed, Verified
  <1>3. Ordered' /\ Staged'
    BY DEF IInv, Ordered, Staged, Proven, Clean, Proper, Snapshot, GuardFailed
  <1>4. Untouched' /\ Alone'
    BY DEF IInv, Untouched, Pristine, Alone, Sound
  <1>5. Earned'
    BY DEF IInv, Earned, Sound, FirstCleanup, ReceiptRun, Pristine, Proper
  <1> QED
    BY <1>1, <1>2, <1>3, <1>4, <1>5 DEF IInv

LEMMA ClusterStepClears ==
    ASSUME IInv, ClusterStep \/ \E c \in Claims : ClaimCreated(c)
    PROVE  Cleared /\ UNCHANGED <<context, lock, procs>>
  <1> USE DEF IInv, Typed, Removed, Cleared, LiveVolume
  <1>1. ASSUME NEW c \in Claims, ClaimCreated(c) PROVE Cleared /\ UNCHANGED <<context, lock, procs>>
    BY <1>1 DEF ClaimCreated
  <1>2. ASSUME NEW c \in Claims, ClaimDeleted(c) PROVE Cleared /\ UNCHANGED <<context, lock, procs>>
    BY <1>2 DEF ClaimDeleted
  <1>3. ASSUME NEW c \in Claims, Reclaimed(c) PROVE Cleared /\ UNCHANGED <<context, lock, procs>>
    BY <1>3 DEF Reclaimed
  <1>4. ASSUME NEW c \in Claims, NEW k \in {"labelled", "unlabelled"}, Provisioned(c, k)
        PROVE  Cleared /\ UNCHANGED <<context, lock, procs>>
    BY <1>4 DEF Provisioned
  <1>5. CASE NamespaceCollected
    BY <1>5 DEF NamespaceCollected
  <1>6. CASE DeletedElsewhere
    BY <1>6 DEF DeletedElsewhere
  <1> QED
    BY <1>1, <1>2, <1>3, <1>4, <1>5, <1>6 DEF ClusterStep

\* a process that has not begun to work, or will not go on
Idle(g) ==
    /\ g \in ProcRecs /\ g.pc \in {"off", "start", "dying"} /\ g.mem = Fresh
    /\ ~g.again /\ ~g.absent

(* The part of the invariant about the processes, when some of them become idle *)
(* and the job and its patches bring no new claim.                              *)
LEMMA IdleStep ==
    ASSUME IInv, UNCHANGED <<cluster, context>>, procs' \in [Procs -> ProcRecs],
           \A q \in Procs : procs'[q] = procs[q] \/ Idle(procs'[q]),
           \A q \in Procs : procs'[q].pc \in Workings => lock' = lock,
           Verified(job'.evidence, "resources") => ResourcesGone,
           Verified(staged'.evidence, "resources") => ResourcesGone,
           \A patch \in late' : Verified(patch.evidence, "resources") => ResourcesGone
    PROVE  Locked' /\ Removed' /\ Aimed'
  <1>1. Locked'
    BY DEF IInv, Locked, Idle, Workings, Callings
  <1>2. Aimed'
    BY DEF IInv, Aimed, Idle, Callings
  <1>3. ResourcesGone' = ResourcesGone
    BY DEF ResourcesGone, LiveVolume, cluster
  <1>4. namespace' = "gone" => \A c \in Claims : claims'[c] # "live"
    BY DEF IInv, Removed, cluster
  <1>5. ASSUME NEW q \in Procs
        PROVE  /\ procs'[q].again => namespace' = "gone"
               /\ procs'[q].absent =>
                    /\ namespace' = "gone"
                    /\ \A c \in Claims : LiveVolume(c)' => c \in procs'[q].mem.volumes
               /\ procs'[q].pc \in {"start", "wipe"} => ~procs'[q].again /\ ~procs'[q].absent
               /\ procs'[q].mem.coverage["resources"] = "verified" => ResourcesGone'
    <2>1. CASE procs'[q] = procs[q]
      BY <1>3, <2>1 DEF IInv, Removed, LiveVolume, cluster
    <2>2. CASE Idle(procs'[q])
      BY <1>3, <2>2, FreshFacts DEF Idle
    <2> QED
      BY <2>1, <2>2
  <1>6. \A r \in Records' : Verified(r, "resources") => ResourcesGone
    BY DEF IInv, Removed, Records
  <1>7. Removed'
    BY <1>3, <1>4, <1>5, <1>6 DEF Removed, Verified
  <1> QED
    BY <1>1, <1>2, <1>7

LEMMA EvidenceHeld ==
    ASSUME IInv
    PROVE  /\ Verified(job.evidence, "resources") => ResourcesGone
           /\ Verified(staged.evidence, "resources") => ResourcesGone
           /\ \A patch \in late : Verified(patch.evidence, "resources") => ResourcesGone
  BY DEF IInv, Removed, Records

LEMMA IdleOff ==
    /\ Idle(Off) /\ Off.cmd = "none" /\ Off.pc = "off"
    /\ Idle([Off EXCEPT !.pc = "dying"]) /\ [Off EXCEPT !.pc = "dying"].pc = "dying"
    /\ [Off EXCEPT !.pc = "dying"].cmd = "none"
    /\ \A cmd \in Helpers : /\ Idle([Off EXCEPT !.cmd = cmd, !.pc = "start"])
                            /\ [Off EXCEPT !.cmd = cmd, !.pc = "start"].cmd = cmd
                            /\ [Off EXCEPT !.cmd = cmd, !.pc = "start"].pc = "start"
  BY FreshFacts DEF Idle, Off, Helpers, ProcRecs

LEMMA IdleInv ==
    ASSUME IInv, NEW p \in Procs, NEW g, Idle(g), procs' = [procs EXCEPT ![p] = g],
           UNCHANGED <<cluster, context, job, staged, late>>,
           lock' \in Procs \cup {"none"},
           \A q \in Procs \ {p} : procs[q].pc \in Workings => lock' = lock,
           g.cmd = "none" \/ job.pc = "absent",
           Sound => g.pc = "off"
    PROVE  IInv'
  <1>1. Typed /\ Typed'
    BY DEF IInv, Typed, Idle, cluster
  <1>2. procs'[p] = g /\ \A q \in Procs \ {p} : procs'[q] = procs[q]
    BY <1>1 DEF Typed
  <1>3. Locked' /\ Removed' /\ Aimed'
    <2>1. procs' \in [Procs -> ProcRecs]
      BY <1>1 DEF Typed
    <2>2. \A q \in Procs : procs'[q] = procs[q] \/ Idle(procs'[q])
      BY <1>2
    <2>3. \A q \in Procs : procs'[q].pc \in Workings => lock' = lock
      BY <1>2 DEF Idle, Workings, Callings
    <2> QED
      BY <2>1, <2>2, <2>3, EvidenceHeld, IdleStep
  <1>4. Ordered' /\ Staged'
    BY DEF IInv, Ordered, Staged, Proven, Clean, Proper, Snapshot, GuardFailed
  <1>5. Untouched'
    BY <1>2, FreshFacts DEF IInv, Untouched, Pristine, Idle, Early
  <1>6. Alone'
    BY <1>2 DEF IInv, Alone, Sound
  <1>7. Earned'
    <2>1. Sound' = Sound
      BY DEF Sound
    <2>2. ASSUME Sound, job.pc = "cleanup", job.helper # "none"
          PROVE  FirstCleanup(procs[job.helper])'
      <3>1. FirstCleanup(procs[job.helper]) /\ job.helper \in Procs
        BY <1>1, <2>2 DEF IInv, Earned, Typed, Jobs
      <3> QED
        BY <1>2, <2>2, <3>1 DEF FirstCleanup, Pristine, Proper, Callings
    <2>3. ASSUME Sound, job.pc = "receipt"
          PROVE  /\ context'.kind = "saved" /\ Proper(context'.state)
                 /\ job.helper # "none" => ReceiptRun(procs[job.helper])'
      <3>1. /\ context.kind = "saved" /\ Proper(context.state)
            /\ job.helper # "none" => ReceiptRun(procs[job.helper]) /\ job.helper \in Procs
        BY <1>1, <2>3 DEF IInv, Earned, Typed, Jobs
      <3> QED
        BY <1>2, <2>3, <3>1 DEF ReceiptRun, Proper
    <2> QED
      BY <2>1, <2>2, <2>3 DEF IInv, Earned, Proper
  <1> QED
    BY <1>1, <1>3, <1>4, <1>5, <1>6, <1>7 DEF IInv

LEMMA ReapInv ==
    ASSUME IInv, NEW p \in Procs, Reap(p)
    PROVE  IInv'
  <1>1. /\ procs' = [procs EXCEPT ![p] = Off] /\ lock' = IF lock = p THEN "none" ELSE lock
        /\ UNCHANGED <<cluster, context, job, staged, late>>
    BY DEF Reap, Reaped
  <1>2. /\ lock' \in Procs \cup {"none"}
        /\ \A q \in Procs \ {p} : procs[q].pc \in Workings => lock' = lock
    BY <1>1 DEF IInv, Typed, Locked
  <1> QED
    BY <1>1, <1>2, IdleOff, IdleInv

LEMMA ByHandInv ==
    ASSUME IInv, NEW p \in Procs,
           EndByHand(p) \/ \E cmd \in Helpers : RunByHand(p, cmd)
    PROVE  IInv'
  <1>1. /\ UNCHANGED <<cluster, context, lock, job, staged, late>> /\ job.pc = "absent"
        /\ lock' \in Procs \cup {"none"}
    BY DEF EndByHand, RunByHand, IInv, Typed
  <1>2. \E g : Idle(g) /\ procs' = [procs EXCEPT ![p] = g]
    BY IdleOff DEF EndByHand, RunByHand, Killed, Spawned
  <1>3. ~Sound
    BY <1>1 DEF Sound
  <1> QED
    BY <1>1, <1>2, <1>3, IdleInv

----------------------------------------------------------------------------
(* The guard's helpers *)

LEMMA RunProofInv ==
    ASSUME IInv, NEW p \in Procs, RunProof(p)
    PROVE  IInv'
  <1> DEFINE g == [Off EXCEPT !.cmd = job.pc, !.pc = "start"]
  <1>1. /\ job.pc \in Helpers /\ job.helper = "none" /\ procs' = [procs EXCEPT ![p] = g]
        /\ job' = [job EXCEPT !.helper = p, !.fired = FALSE]
        /\ UNCHANGED <<cluster, context, lock, staged, late>>
    BY DEF RunProof, Spawned
  <1>2. Idle(g) /\ g.cmd = job.pc /\ g.pc = "start"
    BY <1>1, IdleOff
  <1> HIDE DEF g
  <1>3. /\ job' \in Jobs /\ job'.helper = p /\ job'.pc = job.pc /\ job'.errors = job.errors
        /\ job'.command = job.command /\ job'.post = job.post /\ job'.exit = job.exit
        /\ job'.cancelled = job.cancelled /\ job'.tried = job.tried
        /\ job'.evidence = job.evidence /\ job'.stagingErrors = job.stagingErrors
        /\ job'.main = job.main
    BY <1>1 DEF IInv, Typed, Jobs
  <1>4. Typed /\ Typed'
    BY <1>1, <1>2, <1>3 DEF IInv, Typed, Idle, cluster
  <1>5. procs'[p] = g /\ \A q \in Procs \ {p} : procs'[q] = procs[q]
    BY <1>1, <1>4 DEF Typed
  <1>6. Locked' /\ Removed' /\ Aimed'
    <2>1. procs' \in [Procs -> ProcRecs]
      BY <1>4 DEF Typed
    <2>2. \A q \in Procs : procs'[q] = procs[q] \/ Idle(procs'[q])
      BY <1>2, <1>5
    <2> QED
      BY <1>1, <1>3, <2>1, <2>2, EvidenceHeld, IdleStep
  <1>7. Ordered' /\ Staged'
    BY <1>1, <1>3 DEF IInv, Ordered, Staged, Proven, Clean, Proper, Snapshot, GuardFailed,
       Helpers, Early, Late
  <1>8. Untouched'
    BY <1>1, <1>2, <1>3, <1>5, FreshFacts, CleanupAssumption
       DEF IInv, Untouched, Pristine, Idle, Early
  <1>9. Alone'
    BY <1>1, <1>3, <1>5, CleanupAssumption DEF IInv, Alone, Sound
  <1>10. Earned'
    <2>1. Sound' = Sound
      BY <1>3 DEF Sound
    <2>2. ASSUME Sound, job.pc = "cleanup" PROVE FirstCleanup(procs[job.helper])'
      <3>1. Pristine(context.state)
        BY <1>1, <2>2 DEF IInv, Untouched, Ordered, Sound
      <3> QED
        BY <1>1, <1>2, <1>3, <1>5, <2>2, <3>1 DEF FirstCleanup, Pristine, Callings
    <2>3. ASSUME Sound, job.pc = "receipt"
          PROVE  /\ context'.kind = "saved" /\ Proper(context'.state)
                 /\ ReceiptRun(procs[job.helper])'
      <3>1. context.kind = "saved" /\ Proper(context.state)
        BY <2>3 DEF IInv, Earned
      <3> QED
        BY <1>1, <1>2, <1>3, <1>5, <2>3, <3>1 DEF ReceiptRun, Proper
    <2> QED
      BY <1>3, <2>1, <2>2, <2>3 DEF IInv, Earned, Proper
  <1> QED
    BY <1>4, <1>6, <1>7, <1>8, <1>9, <1>10 DEF IInv

LEMMA HelperTimeoutInv ==
    ASSUME IInv, HelperTimeout
    PROVE  IInv'
  <1> DEFINE p == job.helper
             g == [Off EXCEPT !.pc = "dying"]
  <1>1. /\ p # "none" /\ (procs' = procs \/ procs' = [procs EXCEPT ![p] = g])
        /\ job' = [job EXCEPT !.fired = TRUE]
        /\ UNCHANGED <<cluster, context, lock, staged, late>>
    BY DEF HelperTimeout, Killed
  <1>2. Idle(g) /\ g.cmd = "none" /\ g.pc = "dying"
    BY IdleOff
  <1> HIDE DEF g
  <1>3. /\ job' \in Jobs /\ job'.helper = p /\ job'.pc = job.pc /\ job'.errors = job.errors
        /\ job'.command = job.command /\ job'.post = job.post /\ job'.exit = job.exit
        /\ job'.cancelled = job.cancelled /\ job'.tried = job.tried
        /\ job'.evidence = job.evidence /\ job'.stagingErrors = job.stagingErrors
        /\ job'.main = job.main
    BY <1>1 DEF IInv, Typed, Jobs
  <1>4. Typed /\ Typed' /\ p \in Procs
    BY <1>1, <1>2, <1>3 DEF IInv, Typed, Idle, cluster, Jobs
  <1>5. /\ procs'[p] \in {procs[p], g} /\ \A q \in Procs \ {p} : procs'[q] = procs[q]
    BY <1>1, <1>4 DEF Typed
  <1>6. Locked' /\ Removed' /\ Aimed'
    <2>1. procs' \in [Procs -> ProcRecs]
      BY <1>4 DEF Typed
    <2>2. \A q \in Procs : procs'[q] = procs[q] \/ Idle(procs'[q])
      BY <1>2, <1>5
    <2> QED
      BY <1>1, <1>3, <2>1, <2>2, EvidenceHeld, IdleStep
  <1>7. Ordered' /\ Staged'
    BY <1>1, <1>3 DEF IInv, Ordered, Staged, Proven, Clean, Proper, Snapshot, GuardFailed
  <1>8. Untouched'
    BY <1>1, <1>2, <1>3, <1>5, FreshFacts DEF IInv, Untouched, Pristine, Idle
  <1>9. Alone'
    BY <1>1, <1>3, <1>5 DEF IInv, Alone, Sound
  <1>10. Earned'
    <2>1. Sound' = Sound
      BY <1>3 DEF Sound
    <2>2. ASSUME Sound, job.pc = "cleanup" PROVE FirstCleanup(procs[job.helper])'
      <3>1. FirstCleanup(procs[p])
        BY <1>1, <2>2 DEF IInv, Earned
      <3> QED
        BY <1>1, <1>2, <1>3, <1>5, <3>1 DEF FirstCleanup, Pristine, Proper, Callings
    <2>3. ASSUME Sound, job.pc = "receipt"
          PROVE  /\ context'.kind = "saved" /\ Proper(context'.state)
                 /\ ReceiptRun(procs[job.helper])'
      <3>1. context.kind = "saved" /\ Proper(context.state) /\ ReceiptRun(procs[p])
        BY <1>1, <2>3 DEF IInv, Earned
      <3> QED
        BY <1>1, <1>2, <1>3, <1>5, <3>1 DEF ReceiptRun, Proper
    <2> QED
      BY <1>3, <2>1, <2>2, <2>3 DEF IInv, Earned, Proper
  <1> QED
    BY <1>4, <1>6, <1>7, <1>8, <1>9, <1>10 DEF IInv

LEMMA MainResult ==
    ASSUME job \in Jobs, job.pc \in {"begin", "inventory"}, NEW ok \in BOOLEAN,
           NEW kept \in BOOLEAN, MainGoesOn(ok, kept)
    PROVE  /\ job' \in Jobs /\ job'.helper = "none" /\ job'.exit = job.exit
           /\ job'.command = job.command /\ job'.cancelled = job.cancelled
           /\ job'.stagingErrors = job.stagingErrors
           /\ ~job'.errors => ~job.errors /\ ok /\ kept
           /\ job'.pc \in {"inventory", "completed", "mainFailed"}
           /\ job'.pc = "mainFailed" => job'.errors
           /\ job'.tried = job.tried /\ job'.post = job.post /\ job'.evidence = job.evidence
  <1> DEFINE m == ok /\ job.pc = "inventory"
             e == job.errors \/ ~ok \/ ~kept
             c == IF ~ok \/ (job.pc = "inventory" /\ ~kept) THEN "mainFailed"
                  ELSE IF job.pc = "begin" THEN "inventory" ELSE "completed"
  <1>1. job' = [job EXCEPT !.helper = "none", !.main = m, !.errors = e, !.pc = c]
    BY DEF MainGoesOn
  <1>2. /\ m \in BOOLEAN /\ e \in BOOLEAN /\ c \in {"inventory", "completed", "mainFailed"}
        /\ c = "mainFailed" => e
        /\ ~e => ~job.errors /\ ok /\ kept
    BY DEF Jobs
  <1>3. c \in Early
    BY <1>2 DEF Early
  <1> HIDE DEF m, e, c
  <1>4. /\ job'.helper = "none" /\ job'.main = m /\ job'.errors = e /\ job'.pc = c
        /\ job'.exit = job.exit /\ job'.command = job.command
        /\ job'.cancelled = job.cancelled /\ job'.stagingErrors = job.stagingErrors
        /\ job'.tried = job.tried /\ job'.post = job.post /\ job'.evidence = job.evidence
    BY <1>1 DEF Jobs
  <1>5. job' \in Jobs
    BY <1>1, <1>2, <1>3, ZenonT(60) DEF Jobs
  <1> QED
    BY <1>2, <1>4, <1>5

LEMMA CleanupResult ==
    ASSUME job \in Jobs, NEW ok \in BOOLEAN, NEW kept \in BOOLEAN, CleanupGoesOn(ok, kept)
    PROVE  /\ job' \in Jobs /\ job'.helper = "none" /\ job'.exit = job.exit
           /\ job'.command = job.command /\ job'.cancelled = job.cancelled
           /\ job'.stagingErrors = job.stagingErrors
           /\ ~job'.errors => ~job.errors /\ ok /\ kept
           /\ job'.pc \in {"cleanup", "receipt"} /\ (job'.pc = "cleanup" => job'.errors)
           /\ job'.tried # 0 /\ job'.post = job.post /\ job'.evidence = job.evidence
  <1>1. PICK timeLeft \in BOOLEAN :
          job' = [job EXCEPT !.helper = "none", !.tried = @ + 1,
             !.errors = @ \/ ~ok \/ ~kept,
             !.pc = IF ~ok /\ timeLeft /\ job.tried + 1 < CleanupAttempts
                    THEN "cleanup" ELSE "receipt"]
    BY DEF CleanupGoesOn
  <1> DEFINE e == job.errors \/ ~ok \/ ~kept
             n == job.tried + 1
             c == IF ~ok /\ timeLeft /\ n < CleanupAttempts THEN "cleanup" ELSE "receipt"
  <1>2. job' = [job EXCEPT !.helper = "none", !.tried = n, !.errors = e, !.pc = c]
    BY <1>1
  <1>3. /\ e \in BOOLEAN /\ c \in {"cleanup", "receipt"} /\ (c = "cleanup" => e)
        /\ ~e => ~job.errors /\ ok /\ kept
    BY DEF Jobs
  <1>4. n \in Nat /\ n # 0
    BY DEF Jobs
  <1> HIDE DEF e, n, c
  <1> QED
    BY <1>2, <1>3, <1>4 DEF Jobs

LEMMA ReceiptResult ==
    ASSUME job \in Jobs, NEW ok \in BOOLEAN, NEW kept \in BOOLEAN, NEW out \in State,
           ReceiptEnds(ok, kept, out)
    PROVE  /\ job' \in Jobs /\ job'.helper = "none" /\ job'.exit = job.exit
           /\ job'.command = job.command /\ job'.cancelled = job.cancelled
           /\ job'.stagingErrors = job.stagingErrors
           /\ ~job'.errors => ~job.errors /\ ok /\ kept
           /\ job'.pc = "final" /\ job'.post /\ job'.tried = job.tried
           /\ job'.evidence = IF ok THEN [kind |-> "saved", state |-> out] ELSE Absent
  <1> DEFINE e == job.errors \/ ~ok \/ ~kept
             v == IF ok THEN [kind |-> "saved", state |-> out] ELSE Absent
  <1>1. job' = [job EXCEPT !.helper = "none", !.post = TRUE, !.pc = "final",
                           !.errors = e, !.evidence = v]
    BY DEF ReceiptEnds
  <1>2. e \in BOOLEAN /\ (~e => ~job.errors /\ ok /\ kept)
    BY DEF Jobs
  <1>3. v \in Saved
    BY FreshFacts DEF Saved
  <1> HIDE DEF e, v
  <1> QED
    BY <1>1, <1>2, <1>3, ZenonT(60) DEF Jobs, Late, v

(* What the guard makes of a helper's end. *)
LEMMA ResultStep ==
    ASSUME IInv, job.helper # "none", NEW ok \in BOOLEAN, NEW kept \in BOOLEAN,
           NEW out \in State, HelperResult(ok, kept, out),
           UNCHANGED <<cluster, context, lock, staged, late>>,
           procs' \in [Procs -> ProcRecs],
           \A q \in Procs \ {job.helper} : procs'[q] = procs[q],
           procs'[job.helper] = procs[job.helper] \/ procs'[job.helper] = Off,
           ok => /\ procs[job.helper].pc = "exit" /\ procs[job.helper].ok
                 /\ out = procs[job.helper].mem /\ procs'[job.helper].pc = "off"
    PROVE  IInv'
  <1> DEFINE p == job.helper
  <1>1. Typed /\ p \in Procs /\ job.pc \in Helpers
    BY DEF IInv, Typed, Jobs, Ordered
  <1>2. Idle(Off) /\ Off.cmd = "none" /\ Off.pc = "off"
    BY IdleOff
  <1>3. /\ job' \in Jobs /\ job'.helper = "none" /\ job'.exit = job.exit
        /\ job'.command = job.command /\ job'.cancelled = job.cancelled
        /\ job'.stagingErrors = job.stagingErrors
        /\ ~job'.errors => ~job.errors /\ ok /\ kept
    <2>1. CASE job.pc \in {"begin", "inventory"}
      <3>1. MainGoesOn(ok, kept) /\ job \in Jobs
        BY <1>1, <2>1 DEF HelperResult, Typed
      <3> QED
        BY <2>1, <3>1, MainResult
    <2>2. CASE job.pc = "cleanup"
      BY <1>1, <2>2, CleanupResult DEF HelperResult, Typed
    <2>3. CASE job.pc = "receipt"
      <3>1. ReceiptEnds(ok, kept, out) /\ job \in Jobs
        BY <1>1, <2>3 DEF HelperResult, Typed
      <3> QED
        BY <3>1, ReceiptResult
    <2> QED
      BY <1>1, <2>1, <2>2, <2>3 DEF Helpers
  <1>4. job.pc \in {"begin", "inventory"} =>
          /\ job'.pc \in {"inventory", "completed", "mainFailed"}
          /\ job'.pc = "mainFailed" => job'.errors
          /\ job'.tried = job.tried /\ job'.post = job.post /\ job'.evidence = job.evidence
    BY <1>1, MainResult DEF HelperResult, Typed
  <1>5. job.pc = "cleanup" =>
          /\ job'.pc \in {"cleanup", "receipt"} /\ (job'.pc = "cleanup" => job'.errors)
          /\ job'.tried # 0 /\ job'.post = job.post /\ job'.evidence = job.evidence
    BY <1>1, CleanupResult DEF HelperResult, Typed
  <1>6. job.pc = "receipt" =>
          /\ job'.pc = "final" /\ job'.post /\ job'.tried = job.tried
          /\ job'.evidence = IF ok THEN [kind |-> "saved", state |-> out] ELSE Absent
    BY <1>1, ReceiptResult DEF HelperResult, Typed
  <1>7. Typed'
    BY <1>1, <1>3 DEF Typed, cluster
  <1>8. Locked' /\ Removed' /\ Aimed'
    <2>1. \A q \in Procs : procs'[q] = procs[q] \/ Idle(procs'[q])
      BY <1>2
    <2>2. Verified(job'.evidence, "resources") => ResourcesGone
      <3>1. CASE job.pc # "receipt"
        BY <1>1, <1>4, <1>5, <3>1, EvidenceHeld DEF Helpers
      <3>2. CASE job.pc = "receipt" /\ ok
        BY <1>1, <1>6, <3>2 DEF IInv, Removed, Verified
      <3>3. CASE job.pc = "receipt" /\ ~ok
        BY <1>6, <3>3 DEF Verified, Absent
      <3> QED
        BY <3>1, <3>2, <3>3
    <2> QED
      BY <2>1, <2>2, EvidenceHeld, IdleStep
  <1>9. job.tried \in Nat /\ job'.tried \in Nat
    BY <1>1, <1>3 DEF Typed, Jobs
  <1>10. Ordered'
    BY <1>1, <1>3, <1>4, <1>5, <1>6 DEF IInv, Ordered, Helpers, Early, Late
  <1>11. Staged'
    BY <1>1, <1>3, <1>4, <1>5, <1>6 DEF IInv, Staged, Ordered, Proven, Clean, Proper, Helpers, Late
  <1>12. Untouched'
    <2> SUFFICES ASSUME \/ job'.pc \in Early
                        \/ job'.pc = "cleanup" /\ job'.tried = 0
                 PROVE  /\ Pristine(context'.state)
                        /\ \A q \in Procs : procs'[q].cmd # "cleanup" /\ Pristine(procs'[q].mem)
      BY DEF Untouched, Pristine
    <2>1. job.pc # "cleanup" /\ job.pc # "receipt"
      BY <1>5, <1>6, <1>9 DEF Early
    <2>2. job.pc \in Early
      BY <1>1, <2>1 DEF Helpers, Early
    <2> QED
      BY <1>2, <2>2, FreshFacts DEF IInv, Untouched, Idle
  <1>13. Sound' => Sound /\ ok
    BY <1>1, <1>3 DEF Sound, Helpers
  <1>14. Alone'
    BY <1>1, <1>3, <1>13 DEF IInv, Alone
  <1>15. Earned'
    <2>1. ASSUME Sound', job'.pc = "receipt"
          PROVE  context'.kind = "saved" /\ Proper(context'.state)
      <3>1. job.pc = "cleanup" /\ FirstCleanup(procs[p])
        BY <1>1, <1>4, <1>6, <1>13, <2>1 DEF IInv, Earned, Helpers
      <3> QED
        BY <1>13, <2>1, <3>1 DEF FirstCleanup
    <2>2. ASSUME job'.post, ~job'.errors
          PROVE  job'.evidence.kind = "saved" /\ Proper(job'.evidence.state)
      <3>1. job.pc = "receipt"
        BY <1>1, <1>4, <1>5, <2>2 DEF IInv, Ordered, Late, Helpers
      <3>2. ReceiptRun(procs[p]) /\ ok
        BY <1>3, <2>2, <3>1 DEF IInv, Earned, Sound
      <3> QED
        BY <1>6, <3>1, <3>2 DEF ReceiptRun
    <2> QED
      BY <1>3, <2>1, <2>2 DEF Earned, Proper
  <1> QED
    BY <1>7, <1>8, <1>10, <1>11, <1>12, <1>14, <1>15 DEF IInv

LEMMA HelperEndsInv ==
    ASSUME IInv, HelperEnds
    PROVE  IInv'
  <1> DEFINE p == job.helper
             h == procs[p]
             ok == h.pc = "exit" /\ h.ok /\ ~job.fired
  <1>1. Typed /\ p # "none" /\ p \in Procs /\ job.fired \in BOOLEAN
    BY DEF IInv, Typed, Jobs, HelperEnds
  <1>2. h \in ProcRecs /\ h.mem \in State /\ h.ok \in BOOLEAN
    BY <1>1 DEF Typed, ProcRecs
  <1>3. /\ procs' = [procs EXCEPT ![p] = Off]
        /\ UNCHANGED <<cluster, context, lock, staged, late>>
    BY DEF HelperEnds
  <1>4. PICK kept \in BOOLEAN : HelperResult(ok, kept, h.mem)
    BY DEF HelperEnds
  <1>5. /\ procs' \in [Procs -> ProcRecs] /\ procs'[p] = Off
        /\ \A q \in Procs \ {p} : procs'[q] = procs[q]
    BY <1>1, <1>3, FreshFacts DEF Typed
  <1>6. ok \in BOOLEAN /\ (ok => h.pc = "exit" /\ h.ok) /\ procs'[p].pc = "off"
    BY <1>1, <1>2, <1>5, IdleOff
  <1> HIDE DEF ok
  <1> QED
    BY <1>1, <1>2, <1>3, <1>4, <1>5, <1>6, ResultStep

LEMMA HelperAbandonedInv ==
    ASSUME IInv, HelperAbandoned
    PROVE  IInv'
  <1>1. /\ job.helper # "none" /\ HelperResult(FALSE, TRUE, Fresh)
        /\ UNCHANGED <<cluster, context, lock, procs, staged, late>>
    BY DEF HelperAbandoned, proofVars, cluster
  <1>2. procs \in [Procs -> ProcRecs]
    BY DEF IInv, Typed
  <1> QED
    BY <1>1, <1>2, FreshFacts, ResultStep
----------------------------------------------------------------------------
(* Steps of the guard alone *)

(* A step of the guard that leaves proofctl, its evidence and the number of   *)
(* attempts alone keeps everything that is not about control or staging.      *)
LEMMA QuietStep ==
    ASSUME IInv, UNCHANGED <<cluster, context, lock, procs>>, job' \in Jobs,
           staged' \in [guard : Status, evidence : Saved],
           late' \subseteq [guard : Status, evidence : Saved], Ordered', Staged',
           job'.helper = job.helper, job'.evidence = job.evidence, job'.post = job.post,
           job'.tried = job.tried, ~job'.errors => ~job.errors,
           job.pc \notin {"absent", "dead"},
           job'.pc # job.pc => job.helper = "none" /\ job'.pc # "receipt",
           job'.pc \in Early \cup {"cleanup"} => job.pc \in Early,
           Verified(staged'.evidence, "resources") => ResourcesGone,
           \A patch \in late' : Verified(patch.evidence, "resources") => ResourcesGone
    PROVE  IInv'
  <1>1. Typed /\ Typed'
    BY DEF IInv, Typed, cluster
  <1>2. Locked' /\ Removed' /\ Aimed'
    <2>1. procs' \in [Procs -> ProcRecs]
      BY <1>1 DEF Typed
    <2> QED
      BY <2>1, EvidenceHeld, IdleStep
  <1>3. Untouched'
    BY DEF IInv, Untouched, Pristine
  <1>4. Sound' => Sound
    BY DEF Sound
  <1>5. Alone'
    BY <1>4 DEF IInv, Alone
  <1>6. Earned'
    <2>1. ASSUME Sound', job'.pc = "cleanup", job'.helper # "none"
          PROVE  FirstCleanup(procs[job.helper])'
      BY <1>4, <2>1 DEF IInv, Earned, FirstCleanup, Pristine, Proper
    <2>2. ASSUME Sound', job'.pc = "receipt"
          PROVE  /\ context'.kind = "saved" /\ Proper(context'.state)
                 /\ job'.helper # "none" => ReceiptRun(procs[job.helper])'
      BY <1>4, <2>2 DEF IInv, Earned, ReceiptRun, Proper
    <2> QED
      BY <2>1, <2>2 DEF IInv, Earned, Proper
  <1> QED
    BY <1>1, <1>2, <1>3, <1>5, <1>6 DEF IInv

(* Steps of main and of the command, which stage nothing. *)
LEMMA EarlyStep ==
    ASSUME IInv, UNCHANGED <<cluster, context, lock, procs, staged, late>>, job' \in Jobs,
           job.pc \in Early, job'.pc \in Early,
           job'.helper = job.helper, job'.evidence = job.evidence, job'.post = job.post,
           job'.tried = job.tried, job'.exit = job.exit,
           job'.stagingErrors = job.stagingErrors,
           ~job'.errors => ~job.errors,
           job'.pc # job.pc => job.helper = "none",
           job'.command = "running" => job'.pc = "command",
           job'.pc \in {"group", "postStarted"} =>
             job'.errors \/ job'.cancelled \/ job'.command \in {"ok", "failed", "signalled"},
           job'.pc = "main" => ~job'.errors, job'.pc = "mainFailed" => job'.errors
    PROVE  IInv'
  <1>1. Ordered'
    BY DEF IInv, Ordered, Early, Late
  <1>2. Staged'
    BY DEF IInv, Ordered, Staged, Proven, Clean, Proper, Early
  <1>3. /\ staged' \in [guard : Status, evidence : Saved]
        /\ late' \subseteq [guard : Status, evidence : Saved]
    BY DEF IInv, Typed
  <1>4. job.pc \notin {"absent", "dead"} /\ job'.pc # "receipt"
    BY DEF Early
  <1> QED
    BY <1>1, <1>2, <1>3, <1>4, EvidenceHeld, QuietStep

LEMMA MainStartsInv ==
    ASSUME IInv, MainStarts
    PROVE  IInv'
  <1>1. PICK valid \in BOOLEAN :
          job' = [job EXCEPT !.errors = ~valid, !.pc = IF valid THEN "announce" ELSE "group"]
    BY DEF MainStarts
  <1>2. /\ job.pc = "main" /\ ~job.errors /\ job.helper = "none" /\ job.command # "running"
        /\ job \in Jobs /\ UNCHANGED <<cluster, context, lock, procs, staged, late>>
    BY DEF MainStarts, proofVars, cluster, IInv, Typed, Ordered, Helpers
  <1> DEFINE e == ~valid
             c == IF valid THEN "announce" ELSE "group"
  <1>3. e \in BOOLEAN /\ c \in {"announce", "group"} /\ (c = "group" => e)
    OBVIOUS
  <1>4. job' = [job EXCEPT !.errors = e, !.pc = c]
    BY <1>1
  <1> HIDE DEF e, c
  <1>5. /\ job' \in Jobs /\ job'.errors = e /\ job'.pc = c
        /\ job'.helper = job.helper /\ job'.evidence = job.evidence /\ job'.post = job.post
        /\ job'.tried = job.tried /\ job'.exit = job.exit
        /\ job'.stagingErrors = job.stagingErrors /\ job'.command = job.command
    BY <1>2, <1>3, <1>4 DEF Jobs, Early
  <1> QED
    BY <1>2, <1>3, <1>5, EarlyStep DEF Early

LEMMA PostStartsInv ==
    ASSUME IInv, PostStarts
    PROVE  IInv'
  <1>1. PICK kept \in BOOLEAN :
          job' = [job EXCEPT !.errors = @ \/ ~kept, !.pc = "postStarted"]
    BY DEF PostStarts
  <1>2. /\ job.pc = "group" /\ job.helper = "none" /\ job.command # "running"
        /\ job.errors \/ job.cancelled \/ job.command \in {"ok", "failed", "signalled"}
        /\ job \in Jobs /\ UNCHANGED <<cluster, context, lock, procs, staged, late>>
    BY DEF PostStarts, proofVars, cluster, IInv, Typed, Ordered, Helpers
  <1> DEFINE e == job.errors \/ ~kept
  <1>3. e \in BOOLEAN /\ (job.errors => e)
    BY <1>2 DEF Jobs
  <1>4. job' = [job EXCEPT !.errors = e, !.pc = "postStarted"]
    BY <1>1, <1>2 DEF Jobs
  <1> HIDE DEF e
  <1>5. /\ job' \in Jobs /\ job'.errors = e /\ job'.pc = "postStarted"
        /\ job'.helper = job.helper /\ job'.evidence = job.evidence /\ job'.post = job.post
        /\ job'.tried = job.tried /\ job'.exit = job.exit /\ job'.cancelled = job.cancelled
        /\ job'.stagingErrors = job.stagingErrors /\ job'.command = job.command
    BY <1>2, <1>3, <1>4 DEF Jobs, Early
  <1> QED
    BY <1>2, <1>3, <1>5, EarlyStep DEF Early

LEMMA CommandStartsInv ==
    ASSUME IInv, CommandStarts
    PROVE  IInv'
  <1>1. /\ job.pc = "command" /\ job.helper = "none" /\ job.command = "none"
        /\ job \in Jobs /\ UNCHANGED <<cluster, context, lock, procs, staged, late>>
    BY DEF CommandStarts, proofVars, cluster, IInv, Typed, Ordered, Helpers
  <1>2. \/ job.cancelled /\ job' = [job EXCEPT !.pc = "group"]
        \/ job' = [job EXCEPT !.command = "running"]
        \/ job' = [job EXCEPT !.errors = TRUE, !.pc = "group"]
    BY <1>1 DEF CommandStarts, Jobs
  <1>3. /\ job' \in Jobs /\ (~job'.errors => ~job.errors)
        /\ \/ job'.pc = "command"
           \/ job'.pc = "group" /\ job'.command = "none" /\ (job'.errors \/ job'.cancelled)
        /\ job'.helper = job.helper /\ job'.evidence = job.evidence /\ job'.post = job.post
        /\ job'.tried = job.tried /\ job'.exit = job.exit
        /\ job'.stagingErrors = job.stagingErrors
    BY <1>1, <1>2 DEF Jobs, Early
  <1> QED
    BY <1>1, <1>3, EarlyStep DEF Early

LEMMA CommandEndsInv ==
    ASSUME IInv, KillTimeout \/ \E r \in {"ok", "failed", "signalled"} : CommandEnds(r)
    PROVE  IInv'
  <1>1. PICK r \in {"ok", "failed", "signalled"} :
          job' = [job EXCEPT !.command = r, !.killTimer = FALSE, !.pc = "group"]
    BY DEF CommandEnds, KillTimeout
  <1>2. /\ job.command = "running" /\ UNCHANGED <<cluster, context, lock, procs, staged, late>>
    BY DEF CommandEnds, KillTimeout, cleanupVars, cluster
  <1>3. job.pc = "command" /\ job.helper = "none" /\ job \in Jobs
    BY <1>2 DEF IInv, Typed, Ordered, Helpers
  <1>4. /\ job' \in Jobs /\ job'.command = r /\ job'.pc = "group" /\ job'.errors = job.errors
        /\ job'.helper = job.helper /\ job'.evidence = job.evidence /\ job'.post = job.post
        /\ job'.tried = job.tried /\ job'.exit = job.exit
        /\ job'.stagingErrors = job.stagingErrors
    BY <1>1, <1>3 DEF Jobs, Early
  <1> QED
    BY <1>2, <1>3, <1>4, EarlyStep DEF Early

LEMMA CancelInv ==
    ASSUME IInv, Cancel \/ JobTimeout
    PROVE  IInv'
  <1>1. /\ job.pc \in Early \ {"group", "postStarted"} /\ job \in Jobs
        /\ UNCHANGED <<cluster, context, lock, procs, staged, late>>
    BY DEF Cancel, JobTimeout, BeforePost, cleanupVars, cluster, IInv, Typed, Ordered, Early
  <1> DEFINE k == job.command = "running"
  <1>2. k \in BOOLEAN
    OBVIOUS
  <1>3. \/ job' = [job EXCEPT !.cancelled = TRUE, !.killTimer = k]
        \/ job' = [job EXCEPT !.timedOut = TRUE]
        \/ job' = [job EXCEPT !.cancelled = TRUE, !.killTimer = k, !.timedOut = TRUE]
    BY <1>1 DEF Cancel, JobTimeout, Cancelled, Jobs
  <1> HIDE DEF k
  <1>4. /\ job' \in Jobs /\ job'.command = job.command /\ job'.pc = job.pc
        /\ job'.errors = job.errors /\ job'.main = job.main
        /\ job'.helper = job.helper /\ job'.evidence = job.evidence /\ job'.post = job.post
        /\ job'.tried = job.tried /\ job'.exit = job.exit
        /\ job'.stagingErrors = job.stagingErrors
    BY <1>1, <1>2, <1>3, ZenonT(60) DEF Jobs
  <1>5. /\ job.command = "running" => job.pc = "command"
        /\ job.pc = "main" => ~job.errors
        /\ job.pc = "mainFailed" => job.errors
    BY DEF IInv, Ordered
  <1> QED
    BY <1>1, <1>4, <1>5, EarlyStep

LEMMA ExitsInv ==
    ASSUME IInv, Exits
    PROVE  IInv'
  <1> DEFINE x == ExitCode(job)
  <1>1. /\ job.pc = "exiting" /\ job \in Jobs /\ job.helper = "none"
        /\ job.command # "running" /\ job' = [job EXCEPT !.pc = "exited", !.exit = x]
        /\ UNCHANGED <<cluster, context, lock, procs, staged, late>>
        /\ job.errors \/ job.cancelled \/ job.command \in {"ok", "failed", "signalled"}
    BY DEF Exits, cleanupVars, cluster, IInv, Typed, Ordered, Helpers, Late
  <1>2. x \in {"command", "timeout", "signal", "guard", "ok"}
    BY DEF ExitCode
  <1>3. x = "ok" => ~GuardFailed(job) /\ job.command = "ok" /\ ~job.cancelled
    <2>1. x = "ok" => ~GuardFailed(job) /\ job.command \notin {"failed", "signalled"}
                      /\ ~job.cancelled
      BY DEF ExitCode
    <2>2. x = "ok" => ~job.errors
      BY <2>1 DEF GuardFailed
    <2> QED
      BY <1>1, <2>1, <2>2
  <1> HIDE DEF x
  <1>4. /\ job' \in Jobs /\ job'.pc = "exited" /\ job'.exit = x
        /\ job'.command = job.command /\ job'.errors = job.errors /\ job'.main = job.main
        /\ job'.helper = job.helper /\ job'.evidence = job.evidence /\ job'.post = job.post
        /\ job'.tried = job.tried /\ job'.cancelled = job.cancelled
        /\ job'.stagingErrors = job.stagingErrors
    BY <1>1, <1>2 DEF Jobs, Late
  <1>5. Ordered'
    BY <1>1, <1>4 DEF IInv, Ordered, Early, Late
  <1>6. Staged'
    BY <1>1, <1>3, <1>4 DEF IInv, Staged, Proven, Clean, Proper, Snapshot, GuardFailed
  <1>7. /\ staged' \in [guard : Status, evidence : Saved]
        /\ late' \subseteq [guard : Status, evidence : Saved]
    BY <1>1 DEF IInv, Typed
  <1> QED
    BY <1>1, <1>4, <1>5, <1>6, <1>7, EvidenceHeld, QuietStep DEF Early

----------------------------------------------------------------------------
(* Staging *)

LEMMA PatchFacts ==
    ASSUME IInv
    PROVE  /\ Patch(job) \in [guard : Status, evidence : Saved]
           /\ Proven(Patch(job)) /\ Patch(job).guard = Snapshot(job)
           /\ Verified(Patch(job).evidence, "resources") => ResourcesGone
  <1>1. job.main \in BOOLEAN /\ job.post \in BOOLEAN /\ job.evidence \in Saved
    BY DEF IInv, Typed, Jobs
  <1>2. (job.errors \/ job.stagingErrors) \in BOOLEAN
    OBVIOUS
  <1>3. Snapshot(job) \in Status
    BY <1>1, <1>2 DEF Snapshot, Status
  <1>4. Clean(Snapshot(job)) => job.post /\ ~job.errors
    BY DEF Clean, Snapshot
  <1>5. Patch(job).guard = Snapshot(job) /\ Patch(job).evidence = job.evidence
    BY DEF Patch
  <1>6. Patch(job) \in [guard : Status, evidence : Saved]
    BY <1>1, <1>3 DEF Patch
  <1>7. Proven(Patch(job))
    BY <1>4, <1>5 DEF Proven, IInv, Earned
  <1> QED
    BY <1>5, <1>6, <1>7, EvidenceHeld

LEMMA ApplyFacts ==
    ASSUME IInv, NEW patch \in [guard : Status, evidence : Saved], Proven(patch),
           Verified(patch.evidence, "resources") => ResourcesGone, Apply(patch)
    PROVE  /\ staged' \in [guard : Status, evidence : Saved]
           /\ Proven(staged)' /\ staged'.guard = patch.guard
           /\ Verified(staged'.evidence, "resources") => ResourcesGone
  <1>1. staged.evidence \in Saved /\ patch.guard \in Status /\ patch.evidence \in Saved
    BY DEF IInv, Typed
  <1>2. /\ staged'.guard = patch.guard
        /\ staged'.evidence = IF patch.evidence = Absent THEN staged.evidence ELSE patch.evidence
    BY DEF Apply
  <1>3. staged' \in [guard : Status, evidence : Saved]
    BY <1>1 DEF Apply
  <1>4. Proven(staged)'
    <2> SUFFICES ASSUME Clean(patch.guard)
                 PROVE  staged'.evidence.kind = "saved" /\ Proper(staged'.evidence.state)
      BY <1>2 DEF Proven, Clean, Proper
    <2>1. patch.evidence.kind = "saved" /\ Proper(patch.evidence.state)
      BY DEF Proven
    <2>2. patch.evidence # Absent
      BY <2>1 DEF Absent
    <2> QED
      BY <1>2, <2>1, <2>2
  <1> QED
    BY <1>2, <1>3, <1>4, EvidenceHeld

LEMMA LatePatchInv ==
    ASSUME IInv, NEW patch \in late, LatePatch(patch)
    PROVE  IInv'
  <1>1. /\ late' = late \ {patch} /\ Apply(patch)
        /\ UNCHANGED <<cluster, context, lock, procs, job>>
    BY DEF LatePatch, cleanupVars, cluster
  <1>2. /\ patch \in [guard : Status, evidence : Saved] /\ Proven(patch)
        /\ Verified(patch.evidence, "resources") => ResourcesGone
    BY EvidenceHeld DEF IInv, Typed, Staged
  <1>3. /\ staged' \in [guard : Status, evidence : Saved]
        /\ Proven(staged)' /\ staged'.guard = patch.guard
        /\ Verified(staged'.evidence, "resources") => ResourcesGone
    BY <1>1, <1>2, ApplyFacts
  <1>4. /\ late' \subseteq [guard : Status, evidence : Saved]
        /\ \A q \in late' : Proven(q) /\ (Verified(q.evidence, "resources") => ResourcesGone)
    BY <1>1, EvidenceHeld DEF IInv, Typed, Staged
  <1>5. job.stagingErrors \/ job.pc = "dead"
    BY DEF IInv, Staged
  <1>6. Typed /\ Typed'
    BY <1>1, <1>3, <1>4 DEF IInv, Typed, cluster
  <1>7. Locked' /\ Removed' /\ Aimed'
    <2>1. procs' \in [Procs -> ProcRecs]
      BY <1>6 DEF Typed
    <2> QED
      BY <1>1, <1>3, <1>4, <2>1, EvidenceHeld, IdleStep
  <1>8. Ordered' /\ Untouched' /\ Alone'
    BY <1>1 DEF IInv, Ordered, Untouched, Pristine, Alone, Sound
  <1>9. Earned'
    BY <1>1 DEF IInv, Earned, Sound, FirstCleanup, ReceiptRun, Pristine, Proper
  <1>10. Staged'
    <2>1. \A q \in late' : Proven(q)'
      BY <1>4 DEF Proven, Clean, Proper
    <2>2. /\ ~job.stagingErrors /\ job.pc # "dead" => late' = {}
          /\ job.pc \in {"exiting", "exited"} /\ ~job.stagingErrors =>
               staged'.guard = Snapshot(job)
          /\ job.exit = "ok" => ~GuardFailed(job) /\ job.command = "ok" /\ ~job.cancelled
      BY <1>5 DEF IInv, Staged
    <2> QED
      BY <1>1, <1>3, <2>1, <2>2 DEF Staged, Snapshot, GuardFailed
  <1> QED
    BY <1>6, <1>7, <1>8, <1>9, <1>10 DEF IInv

LEMMA StageInv ==
    ASSUME IInv, Stage
    PROVE  IInv'
  <1> DEFINE good == StageNext(job.pc)
             bad == CASE job.pc = "completed" -> "mainFailed"
                      [] job.pc = "final" -> "finalAgain"
                      [] OTHER -> StageNext(job.pc)
             e == job.errors \/ job.pc = "completed"
  <1>1. /\ job.pc \in Stages /\ job \in Jobs
        /\ UNCHANGED <<cluster, context, lock, procs>>
    BY DEF Stage, proofVars, cluster, IInv, Typed
  <1>2. /\ job.helper = "none" /\ job.command # "running" /\ job.exit = "none"
        /\ job.pc \notin Early => job.pc \in {"final", "finalAgain"}
        /\ job.pc \in Early => ~job.post /\ job.tried = 0
        /\ ~job.stagingErrors => late = {}
        /\ job.pc = "mainFailed" => job.errors
        /\ job.pc \in {"postStarted", "final", "finalAgain"} =>
             job.errors \/ job.cancelled \/ job.command \in {"ok", "failed", "signalled"}
    BY <1>1 DEF IInv, Ordered, Staged, Stages, Helpers, Early, Late
  <1>3. /\ good \in {"begin", "command", "group", "cleanup", "exiting"}
        /\ good = "group" => job.pc = "mainFailed"
        /\ good = "cleanup" => job.pc = "postStarted"
        /\ good = "exiting" <=> job.pc \in {"final", "finalAgain"}
    BY <1>1 DEF Stages, StageNext
  <1>4. /\ bad \in {"begin", "mainFailed", "group", "cleanup", "finalAgain", "exiting"}
        /\ bad = "mainFailed" => e
        /\ bad = "group" => job.pc = "mainFailed"
        /\ bad = "cleanup" => job.pc = "postStarted"
        /\ bad \in {"finalAgain", "exiting"} <=> job.pc \in {"final", "finalAgain"}
    BY <1>1 DEF Stages, StageNext
  <1>5. e \in BOOLEAN /\ (job.errors => e)
    OBVIOUS
  <1>6. \/ /\ Apply(Patch(job)) /\ late' = late /\ job' = [job EXCEPT !.pc = good]
        \/ /\ StageFails
           /\ job' = [job EXCEPT !.stagingErrors = TRUE, !.errors = e, !.pc = bad]
    BY <1>1 DEF Stage, Jobs
  <1> HIDE DEF good, bad, e
  <1>7. /\ staged' \in [guard : Status, evidence : Saved] /\ Proven(staged)'
        /\ Verified(staged'.evidence, "resources") => ResourcesGone
        /\ Apply(Patch(job)) => staged'.guard = Snapshot(job)
    <2>1. CASE Apply(Patch(job))
      BY <2>1, PatchFacts, ApplyFacts
    <2>2. CASE staged' = staged /\ ~Apply(Patch(job))
      BY <2>2, EvidenceHeld DEF IInv, Typed, Staged, Proven, Clean, Proper
    <2> QED
      BY <1>6, <2>1, <2>2 DEF StageFails
  <1>8. late' \subseteq late \cup {Patch(job)}
    BY <1>6 DEF StageFails
  <1>9. /\ late' \subseteq [guard : Status, evidence : Saved]
        /\ \A q \in late' : Proven(q) /\ (Verified(q.evidence, "resources") => ResourcesGone)
    BY <1>8, PatchFacts, EvidenceHeld DEF IInv, Typed, Staged
  <1>10. /\ job'.helper = job.helper /\ job'.evidence = job.evidence /\ job'.post = job.post
         /\ job'.tried = job.tried /\ job'.exit = job.exit /\ job'.command = job.command
         /\ job'.cancelled = job.cancelled /\ job'.main = job.main
    BY <1>1, <1>6 DEF Jobs
  <1>11. CASE job' = [job EXCEPT !.pc = good] /\ late' = late /\ Apply(Patch(job))
    <2>1. /\ job' \in Jobs /\ job'.pc = good /\ job'.errors = job.errors
          /\ job'.stagingErrors = job.stagingErrors
      BY <1>1, <1>3, <1>11 DEF Jobs, Early, Late
    <2>2. Ordered'
      BY <1>2, <1>3, <1>10, <2>1 DEF Ordered, Early, Late
    <2>3. Staged'
      <3>1. \A q \in late' : Proven(q)'
        BY <1>9 DEF Proven, Clean, Proper
      <3>2. ~job'.stagingErrors => late' = {} /\ staged'.guard = Snapshot(job)'
        BY <1>2, <1>7, <1>10, <1>11, <2>1 DEF Snapshot
      <3> QED
        BY <1>2, <1>7, <1>10, <3>1, <3>2 DEF Staged
    <2> QED
      BY <1>1, <1>2, <1>3, <1>7, <1>9, <1>10, <2>1, <2>2, <2>3, QuietStep DEF Early, Stages
  <1>12. CASE job' = [job EXCEPT !.stagingErrors = TRUE, !.errors = e, !.pc = bad]
    <2>1. job' \in Jobs /\ job'.pc = bad /\ job'.errors = e /\ job'.stagingErrors
      BY <1>1, <1>4, <1>5, <1>12, ZenonT(60) DEF Jobs, Early, Late
    <2>2. Ordered'
      BY <1>2, <1>4, <1>5, <1>10, <2>1 DEF Ordered, Early, Late
    <2>3. Staged'
      <3>1. \A q \in late' : Proven(q)'
        BY <1>9 DEF Proven, Clean, Proper
      <3> QED
        BY <1>2, <1>7, <1>10, <2>1, <3>1 DEF Staged
    <2> QED
      BY <1>1, <1>2, <1>4, <1>5, <1>7, <1>9, <1>10, <2>1, <2>2, <2>3, QuietStep
         DEF Early, Stages
  <1> QED
    BY <1>6, <1>11, <1>12

----------------------------------------------------------------------------
(* The container is killed *)

LEMMA GuardDiesInv ==
    ASSUME IInv, GuardDies
    PROVE  IInv'
  <1> DEFINE c == IF job.command = "running" THEN "signalled" ELSE job.command
             g == [Off EXCEPT !.pc = "dying"]
  <1>1. /\ job.pc \notin {"exited", "dead", "absent"} /\ job \in Jobs
        /\ job' = [job EXCEPT !.pc = "dead", !.helper = "none", !.command = c,
                              !.killTimer = FALSE]
        /\ UNCHANGED <<cluster, context, lock, staged>>
    BY DEF GuardDies, IInv, Typed
  <1>2. /\ late' \subseteq late \cup {Patch(job)}
        /\ procs' = [p \in Procs |-> IF procs[p].pc = "off" THEN Off ELSE g]
    BY DEF GuardDies
  <1>3. c \in {"none", "ok", "failed", "signalled"}
    BY <1>1 DEF Jobs
  <1>4. Idle(Off) /\ Idle(g) /\ Off.pc # "exit"
    BY IdleOff
  <1> HIDE DEF c, g
  <1>5. /\ job' \in Jobs /\ job'.pc = "dead" /\ job'.helper = "none" /\ job'.command = c
        /\ job'.errors = job.errors /\ job'.evidence = job.evidence /\ job'.post = job.post
        /\ job'.exit = job.exit
    BY <1>1, <1>3 DEF Jobs
  <1>6. /\ late' \subseteq [guard : Status, evidence : Saved]
        /\ \A q \in late' : Proven(q) /\ (Verified(q.evidence, "resources") => ResourcesGone)
    BY <1>2, PatchFacts, EvidenceHeld DEF IInv, Typed, Staged
  <1>7. /\ procs' \in [Procs -> ProcRecs]
        /\ \A q \in Procs : Idle(procs'[q])
    BY <1>2, <1>4 DEF Idle
  <1>8. Typed'
    BY <1>1, <1>5, <1>6, <1>7 DEF IInv, Typed, cluster
  <1>9. Locked' /\ Removed' /\ Aimed'
    BY <1>1, <1>5, <1>6, <1>7, EvidenceHeld, IdleStep
  <1>10. job.exit = "none"
    BY <1>1 DEF IInv, Ordered
  <1>11. Ordered'
    BY <1>3, <1>5, <1>10 DEF Ordered, Early, Late
  <1>12. Untouched' /\ Alone'
    BY <1>5 DEF Untouched, Early, Alone, Sound
  <1>13. Earned'
    BY <1>5 DEF IInv, Earned, Sound, Proper
  <1>14. Staged'
    <2>1. Proven(staged)' /\ \A q \in late' : Proven(q)'
      BY <1>1, <1>6 DEF IInv, Staged, Proven, Clean, Proper
    <2> QED
      BY <1>5, <1>10, <2>1 DEF Staged
  <1> QED
    BY <1>8, <1>9, <1>11, <1>12, <1>13, <1>14 DEF IInv

----------------------------------------------------------------------------
(* The invariant *)

LEMMA InitInv == Init => IInv
  <1> SUFFICES ASSUME Init PROVE IInv
    OBVIOUS
  <1> USE DEF Init, CleanupInit
  <1> DEFINE c == IF scoped THEN "main" ELSE "absent"
  <1>1. job = [NewStatus EXCEPT !.pc = c] /\ c \in {"main", "absent"} /\ late = {}
    OBVIOUS
  <1>2. Absent \in Saved /\ Absent.kind = "absent" /\ Absent.state = Fresh
    BY FreshFacts DEF Saved, Absent
  <1> HIDE DEF c
  <1>3. /\ job \in Jobs /\ job.pc \in {"main", "absent"} /\ job.helper = "none"
        /\ job.command = "none" /\ ~job.post /\ job.exit = "none" /\ job.tried = 0
        /\ ~job.errors /\ job.evidence = Absent /\ ~job.stagingErrors
    <2>1. NewStatus \in Jobs
      BY <1>2 DEF NewStatus, Jobs, Early
    <2>2. job \in Jobs
      BY <1>1, <2>1 DEF Jobs, Early
    <2> QED
      BY <1>1, <2>2 DEF NewStatus
  <1>4. /\ staged \in [guard : Status, evidence : Saved] /\ ~Clean(staged.guard)
        /\ staged.evidence = Absent
    BY <1>2 DEF Patch, Snapshot, NewStatus, Status, Clean
  <1>5. \A p \in Procs : Idle(procs[p]) /\ procs[p].pc = "off" /\ procs[p].cmd = "none"
    BY IdleOff
  <1>6. Typed
    <2>1. procs \in [Procs -> ProcRecs]
      BY IdleOff DEF Idle
    <2>2. context \in [kind : {"absent", "reserved", "saved"}, state : State]
      BY FreshFacts DEF Absent
    <2> QED
      BY <1>1, <1>3, <1>4, <2>1, <2>2 DEF Typed
  <1>7. Locked /\ Aimed /\ Alone
    BY <1>5 DEF Locked, Aimed, Alone, Workings, Callings
  <1>8. Removed
    BY <1>1, <1>2, <1>3, <1>4, <1>5, FreshFacts DEF Removed, Idle, Records, Verified
  <1>9. Ordered /\ Earned
    BY <1>3 DEF Ordered, Earned, Sound, Early, Late
  <1>10. Untouched
    BY <1>2, <1>5, FreshFacts DEF Untouched, Pristine, Idle
  <1>11. Staged
    BY <1>1, <1>3, <1>4 DEF Staged, Proven
  <1> QED
    BY <1>6, <1>7, <1>8, <1>9, <1>10, <1>11 DEF IInv

LEMMA StutterInv ==
    ASSUME IInv, UNCHANGED vars
    PROVE  IInv'
  <1>1. Cleared /\ UNCHANGED <<context, lock, procs, job, staged, late>>
    BY DEF vars, cleanupVars, Cleared, IInv, Typed, Removed, LiveVolume
  <1> QED
    BY <1>1, ClusterInv

LEMMA NextInv ==
    ASSUME IInv, [Next]_vars
    PROVE  IInv'
  <1>1. CASE Stage
    BY <1>1, StageInv
  <1>2. CASE HelperEnds
    BY <1>2, HelperEndsInv
  <1>3. CASE MainStarts
    BY <1>3, MainStartsInv
  <1>4. CASE CommandStarts
    BY <1>4, CommandStartsInv
  <1>5. CASE PostStarts
    BY <1>5, PostStartsInv
  <1>6. CASE Exits
    BY <1>6, ExitsInv
  <1>7. ASSUME NEW p \in Procs, RunProof(p) PROVE IInv'
    BY <1>7, RunProofInv
  <1>8. CASE HelperTimeout
    BY <1>8, HelperTimeoutInv
  <1>9. CASE Cancel \/ JobTimeout
    BY <1>9, CancelInv
  <1>10. CASE KillTimeout \/ \E r \in {"ok", "failed", "signalled"} : CommandEnds(r)
    BY <1>10, CommandEndsInv
  <1>11. CASE HelperAbandoned
    BY <1>11, HelperAbandonedInv
  <1>12. CASE GuardDies
    BY <1>12, GuardDiesInv
  <1>13. ASSUME NEW p \in Procs, Helper(p) PROVE IInv'
    BY <1>13, CommandInv
  <1>14. ASSUME NEW p \in Procs, Reap(p) PROVE IInv'
    BY <1>14, ReapInv
  <1>15. ASSUME NEW p \in Procs, EndByHand(p) \/ \E cmd \in Helpers : RunByHand(p, cmd)
         PROVE  IInv'
    BY <1>15, ByHandInv
  <1>16. ASSUME NEW c \in Claims, JobCreates(c) PROVE IInv'
    BY <1>16, ClusterStepClears, ClusterInv DEF JobCreates
  <1>17. CASE ClusterStep /\ UNCHANGED <<job, staged, late, byHand>>
    BY <1>17, ClusterStepClears, ClusterInv
  <1>18. ASSUME NEW patch \in late, LatePatch(patch) PROVE IInv'
    BY <1>18, LatePatchInv
  <1>19. CASE UNCHANGED vars
    BY <1>19, StutterInv
  <1> QED
    BY <1>1, <1>2, <1>3, <1>4, <1>5, <1>6, <1>7, <1>8, <1>9, <1>10, <1>11, <1>12, <1>13,
       <1>14, <1>15, <1>16, <1>17, <1>18, <1>19 DEF Next, GuardStep

LEMMA SpecInv == Spec => []IInv
  <1>1. IInv /\ [Next]_vars => IInv'
    BY NextInv
  <1> QED
    BY InitInv, <1>1, PTL DEF Spec

----------------------------------------------------------------------------
(* Theorems *)

(* What proofctl and the guard claim is true, in every state: resources are    *)
(* recorded as verified only when the namespace and all its volumes are gone,  *)
(* a clean guard.json stands beside the evidence of one verified cleanup, and  *)
(* exit code 0 is given only with a clean guard.json and a successful command. *)
THEOREM GuardIsTruthful == Spec => []GuardTellsTruth
  <1>1. IInv => GuardTellsTruth
    <2> SUFFICES ASSUME IInv PROVE GuardTellsTruth
      OBVIOUS
    <2>1. \A r \in Records : Verified(r, "resources") => ResourcesGone
      BY DEF IInv, Removed
    <2>2. Clean(staged.guard) =>
            /\ \A k \in Components : Verified(staged.evidence, k)
            /\ staged.evidence.state.complete /\ staged.evidence.state.attempts = 1
      BY DEF IInv, Staged, Proven, Proper, Verified
    <2>3. job.exit = "ok" => Clean(staged.guard) /\ job.command = "ok" /\ ~job.cancelled
      <3>1. job.exit = "ok" =>
              /\ job.main /\ job.post /\ ~(job.errors \/ job.stagingErrors)
              /\ job.command = "ok" /\ ~job.cancelled
        BY DEF IInv, Staged, GuardFailed
      <3>2. job.exit = "ok" => job.pc = "exited" /\ staged.guard = Snapshot(job)
        BY <3>1 DEF IInv, Staged, Ordered
      <3> DEFINE f == job.errors \/ job.stagingErrors
      <3>3. Snapshot(job) = [main |-> job.main, post |-> job.post, failed |-> f]
        BY DEF Snapshot
      <3>4. job.exit = "ok" => ~f
        BY <3>1
      <3> HIDE DEF f
      <3>5. job.exit = "ok" => Clean(Snapshot(job))
        BY <3>1, <3>3, <3>4 DEF Clean
      <3> QED
        BY <3>1, <3>2, <3>5
    <2> QED
      BY <2>1, <2>2, <2>3 DEF GuardTellsTruth
  <1> QED
    BY SpecInv, <1>1, PTL

(* A failure that proofctl has recorded is in the context file ever after:     *)
(* a process that saves holds the lock since it loaded the file, and a state   *)
(* file is removed only by the `begin' that reserved it.                       *)
THEOREM FailuresAreKept == Spec => FailuresStay
  <1>1. ASSUME IInv, [Next]_vars
        PROVE  [Failures(context) \subseteq Failures(context')]_vars
    <2>1. CASE context' = context
      BY <2>1 DEF Failures
    <2>2. CASE context = Reserved \/ context = Absent
      <3>1. \A k \in Components : context.state.coverage[k] # "failed"
        BY <2>2 DEF Reserved, Absent, Fresh
      <3> QED
        BY <3>1 DEF Failures
    <2>3. CASE \E p \in Procs : /\ procs[p].pc = "save"
                                /\ context' = [kind |-> "saved", state |-> procs[p].mem]
      BY <1>1, <2>3 DEF IInv, Locked, Workings, Failures, Failed
    <2>4. ASSUME NEW p \in Procs, Helper(p)
          PROVE  \/ context' = context \/ context = Reserved \/ context = Absent
                 \/ /\ procs[p].pc = "save"
                    /\ context' = [kind |-> "saved", state |-> procs[p].mem]
      <3>1. CASE BeginFails(p)
        BY <1>1, <3>1 DEF BeginFails, IInv, Locked
      <3>2. CASE Reserves(p)
        BY <3>2 DEF Reserves
      <3>3. CASE Save(p)
        BY <3>3 DEF Save
      <3> QED
        BY <2>4, <3>1, <3>2, <3>3 DEF Helper, Command, Refused, Loads, Receipt, Begin, Wipe,
           ListClaims, ListVolumes, DeleteNamespace, DeleteVolumes, CheckNamespace, Verify,
           Deadline
    <2>5. ASSUME \A p \in Procs : ~Helper(p) PROVE context' = context
      <3>1. ASSUME NEW p \in Procs,
                   \/ RunProof(p) \/ Reap(p) \/ EndByHand(p)
                   \/ \E cmd \in Helpers : RunByHand(p, cmd)
            PROVE  context' = context
        BY <3>1 DEF RunProof, Reap, Reaped, EndByHand, RunByHand
      <3>2. CASE Stage \/ MainStarts \/ CommandStarts \/ PostStarts \/ HelperAbandoned
        BY <3>2 DEF Stage, MainStarts, CommandStarts, PostStarts, HelperAbandoned, proofVars
      <3>3. CASE HelperEnds \/ HelperTimeout \/ GuardDies
        BY <3>3 DEF HelperEnds, HelperTimeout, GuardDies
      <3>4. CASE Exits \/ JobTimeout \/ KillTimeout \/ Cancel
                 \/ \E r \in {"ok", "failed", "signalled"} : CommandEnds(r)
        BY <3>4 DEF Exits, JobTimeout, KillTimeout, Cancel, CommandEnds, cleanupVars
      <3>5. CASE \E patch \in late : LatePatch(patch)
        BY <3>5 DEF LatePatch, cleanupVars
      <3>6. CASE ClusterStep \/ \E c \in Claims : JobCreates(c)
        BY <1>1, <3>6, ClusterStepClears DEF JobCreates
      <3>7. CASE UNCHANGED vars
        BY <3>7 DEF vars, cleanupVars
      <3> QED
        BY <1>1, <2>5, <3>1, <3>2, <3>3, <3>4, <3>5, <3>6, <3>7 DEF Next, GuardStep
    <2> QED
      BY <2>1, <2>2, <2>3, <2>4, <2>5
  <1> QED
    BY SpecInv, <1>1, PTL DEF Spec, FailuresStay
=============================================================================
