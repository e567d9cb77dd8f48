----------------------------- MODULE NodeProofs -----------------------------
(***************************************************************************)
(* Proofs about the gate and the collector of a runner pod, for every      *)
(* number of sandboxes, firewall commands, helpers, chunks and faults: the *)
(* handshake implements Isolation, a published result stands, and only a   *)
(* complete log and a clean workspace are called verified.                 *)
(***************************************************************************)
EXTENDS Node, SequenceTheorems, TLAPS

----------------------------------------------------------------------------
(* The inductive invariant *)

Armed == "armed" \in private
Early == {"none", "mkdir", "lockfile"}
Unarmed == Early \cup {"locked", "check", "watching"}
Working == {"locked", "check", "watching", "finish"} \cup Looping \cup Closing
Bound == {"probe", "collect", "poll", "reread", "release"}
Listed == {"helper", "bind"} \cup Bound

PassRecs == [pc : {"idle", "request", "list"} \cup Listed, waiting : BOOLEAN,
             gate : Nat, nonce : 0..MaxSandboxes, request : Nat,
             sandbox : 0..MaxSandboxes, helper : Helpers \cup {"none"}]

(* The flock of the private directory separates the collector from a reader   *)
(* that publishes a gap: before the collector has it there is no spool and    *)
(* nothing to publish, and while it works no reader holds it.                 *)
Excluded ==
    /\ collector \in Early => result = NoResult /\ "spool" \notin private
    /\ collector \in Unarmed => ~Armed
    /\ collector \in Working => result = NoResult /\ lockHolder = "collector"
    /\ readers \in [Readers -> [pc : {"off", "held", "busy"}, mode : {"ready", "result"}]]
    /\ \A r \in Readers : readers[r].pc = "held" => lockHolder = r

(* The workspace is looked at after the guard's exit, and stays clean. *)
Inspected ==
    /\ workspace \in [clean : BOOLEAN, present : BOOLEAN]
    /\ collector \in Closing => guard = "exited"
    /\ finding = "verified" => guard = "exited" /\ workspace.clean
    /\ result.workspace = "verified" => guard = "exited" /\ workspace.clean

(* A helper at work has the lock.  What its sandbox's firewall holds and what  *)
(* it still plans make up the policy, unless a dead helper's command has come  *)
(* in between: a complete firewall that no command strayed into is not touched.*)
Walled ==
    \A h \in Helpers :
      /\ helpers[h].pc # "off" => helpers[h].sandbox # 0
      /\ helpers[h].pc = "child" => helpers[h].plan # <<>>
      /\ helpers[h].pc = "apply" =>
           /\ flock = h
           /\ \/ helpers[h].sandbox \in strayed
              \/ Len(firewall[helpers[h].sandbox]) + Len(helpers[h].plan) = Commands

(* The pass waits for a helper of the sandbox it has listed, and the ledger   *)
(* binds the collector to a sandbox whose firewall is complete.               *)
Followed ==
    /\ pass.helper # "none" <=> pass.pc = "helper"
    /\ pass.pc = "helper" => /\ helpers[pass.helper].pc \in {"queued", "apply"}
                             /\ helpers[pass.helper].sandbox = pass.sandbox
    /\ pass.pc = "bind" => pass.sandbox # 0 /\ Firewalled(pass.sandbox)
    /\ pass.pc \in Bound => bound # 0 /\ bound = pass.sandbox
    /\ bound # 0 => Firewalled(bound)
    /\ bound = 0 => collector = "none"

(* A nonce is never ahead of the sandboxes: the one a pass releases was drawn *)
(* in the sandbox it listed afterwards, or in an earlier one.                 *)
Numbered ==
    /\ request.nonce <= sandbox /\ \A n \in late : n <= sandbox
    /\ pass.nonce <= sandbox /\ pass.sandbox <= sandbox
    /\ pass.pc \notin {"idle", "request"} => pass.nonce # 0
    /\ pass.pc \in Listed => pass.nonce <= pass.sandbox
    /\ init # "none" => sandbox # 0

Watched == Armed /\ bound = sandbox

(* So a released nonce is an old one, or its sandbox is bound and watched. *)
Opened ==
    /\ pass.pc \in {"reread", "release"} => Armed
    /\ marker.nonce <= sandbox /\ (marker.nonce = sandbox /\ sandbox # 0 => Watched)
    /\ \A m \in lateMarks : m.nonce <= sandbox /\ (m.nonce = sandbox => Watched)
    /\ init = "passed" => Watched

Observed == Excluded /\ Inspected
Gated == GateTypeOK /\ pass \in PassRecs /\ Walled /\ Followed /\ Numbered /\ Opened
IInv == Observed /\ Gated
----------------------------------------------------------------------------
(* The collector, its readers and the runtime *)

\* what every step of the observer's side keeps for the gate
Kept == (Armed => Armed') /\ (collector = "none" => collector' = "none")

LEMMA RuntimeInv ==
    ASSUME Observed,
           \/ GuardStarts \/ RuntimeStep \/ LogRotated \/ VolumeGone
           \/ \E k \in 0..MaxChunks : LogTruncated(k)
    PROVE  Observed' /\ Kept
  <1>1. /\ UNCHANGED <<private, result, collector, finding, lockHolder, readers>>
        /\ \/ guard = "none" /\ workspace' = workspace
           \/ guard' = guard /\ workspace' = workspace
           \/ guard = "running" /\ guard' = "exited" /\ workspace' = workspace
           \/ guard' = guard /\ workspace' = [workspace EXCEPT !.clean = TRUE]
           \/ guard' = guard /\ workspace' = [workspace EXCEPT !.present = FALSE]
    BY DEF GuardStarts, RuntimeStep, LogWritten, LogClosed, GuardWipes, GuardExits, LogRotated,
       VolumeGone, LogTruncated, ownVars
  <1>2. Excluded' /\ Kept
    BY <1>1 DEF Observed, Excluded, Kept, Armed
  <1>3. Inspected'
    BY <1>1 DEF Observed, Inspected
  <1> QED
    BY <1>2, <1>3 DEF Observed

LEMMA StartsInv ==
    ASSUME Observed, CollectorStarts
    PROVE  Observed' /\ (Armed => Armed')
  <1> USE DEF CollectorStarts, ownVars, hostVars, Armed, Early, Unarmed, Working, Looping, Closing
  <1>1. Excluded' /\ (Armed => Armed')
    BY DEF Observed, Excluded
  <1>2. Inspected'
    BY DEF Observed, Inspected
  <1> QED
    BY <1>1, <1>2 DEF Observed

LEMMA SetupInv ==
    ASSUME Observed, NEW holding \in BOOLEAN,
           \/ MakeLock \/ TakeLock \/ MakeSpool \/ InstallWatch(holding) \/ Arm(holding)
    PROVE  Observed' /\ Kept
  <1> USE DEF CollectorAt, ownVars, hostVars
  <1>1. Inspected'
    BY DEF Observed, Inspected, MakeLock, TakeLock, MakeSpool, InstallWatch, Arm, Closing
  <1>2. Kept
    BY DEF Kept, Armed, MakeLock, TakeLock, MakeSpool, InstallWatch, Arm
  <1>3. result' = result /\ readers' = readers
    BY DEF MakeLock, TakeLock, MakeSpool, InstallWatch, Arm
  <1>4. CASE MakeLock
    <2>1. /\ collector = "mkdir" /\ collector' = "lockfile" /\ lockHolder' = lockHolder
          /\ private' = private \cup {"lock"}
      BY <1>4 DEF MakeLock
    <2> QED
      BY <1>1, <1>2, <1>3, <2>1 DEF Observed, Excluded, Armed, Early, Unarmed, Working, Looping,
                                    Closing
  <1>5. CASE TakeLock
    <2>1. /\ collector = "lockfile" /\ private' = private
          /\ \/ collector' = "locked" /\ lockHolder = "none" /\ lockHolder' = "collector"
             \/ collector' = "dead" /\ lockHolder' = lockHolder
      BY <1>5 DEF TakeLock
    <2>2. lockHolder = "none" => \A q \in Readers : readers[q].pc # "held"
      BY DEF Observed, Excluded, Readers
    <2> QED
      BY <1>1, <1>2, <1>3, <2>1, <2>2
         DEF Observed, Excluded, Armed, Early, Unarmed, Working, Looping, Closing
  <1>6. CASE MakeSpool \/ InstallWatch(holding) \/ Arm(holding)
    <2>1. /\ collector \in {"locked", "check", "watching"} /\ lockHolder' = lockHolder
          /\ \/ collector' \in {"check", "watching"} /\ private' \subseteq private \cup {"spool"}
             \/ collector' \in {"finish", "drain"}
      BY <1>6 DEF MakeSpool, InstallWatch, Arm
    <2> QED
      BY <1>1, <1>2, <1>3, <2>1 DEF Observed, Excluded, Armed, Early, Unarmed, Working, Looping,
                                    Closing
  <1> QED
    BY <1>1, <1>2, <1>4, <1>5, <1>6 DEF Observed

\* a step of the collector at work
LEMMA WorkInv ==
    ASSUME Observed, collector \in {"check", "watching"} \cup Looping \cup Closing,
           collector' \in {"finish"} \cup Looping \cup Closing,
           UNCHANGED <<private, result, lockHolder, readers, guard, workspace>>,
           collector' \in Closing => guard = "exited",
           finding' = "verified" =>
             finding = "verified" \/ (guard = "exited" /\ workspace.clean)
    PROVE  Observed' /\ Kept
  <1>1. Excluded' /\ Kept
    BY DEF Observed, Excluded, Kept, Armed, Early, Unarmed, Working, Looping, Closing
  <1>2. Inspected'
    BY DEF Observed, Inspected
  <1> QED
    BY <1>1, <1>2 DEF Observed

LEMMA LoopInv ==
    ASSUME Observed,
           \/ ReadEvent \/ Drain \/ Copy \/ List \/ InspectWorkspace \/ Digest
           \/ CollectorTimeout \/ CollectorFails
    PROVE  Observed' /\ Kept
  <1> USE DEF CollectorAt, ownVars, hostVars
  <1>1. UNCHANGED <<private, result, lockHolder, readers, guard, workspace>>
    BY DEF ReadEvent, Drain, Copy, List, InspectWorkspace, Digest, CollectorTimeout,
       CollectorFails
  <1>2. /\ collector \in {"check", "watching"} \cup Looping \cup Closing
        /\ collector' \in {"finish"} \cup Looping \cup Closing
        /\ collector' \in Closing => collector \in Closing \/ guard = "exited"
    <2> USE DEF Looping, Closing
    <2>1. CASE ReadEvent \/ Drain
      BY <2>1 DEF ReadEvent, Drain, AfterDrain
    <2>2. CASE Copy
      BY <2>2 DEF Copy, AfterCopy
    <2>3. CASE List
      BY <2>3 DEF List
    <2>4. CASE InspectWorkspace \/ Digest
      BY <2>4 DEF InspectWorkspace, Digest
    <2>5. CASE CollectorTimeout \/ CollectorFails
      BY <2>5 DEF CollectorTimeout, CollectorFails
    <2> QED
      BY <2>1, <2>2, <2>3, <2>4, <2>5
  <1>3. collector' \in Closing => guard = "exited"
    BY <1>2 DEF Observed, Inspected
  <1>4. finding' = finding \/ (InspectWorkspace /\ collector \in Closing)
    BY DEF ReadEvent, Drain, Copy, List, InspectWorkspace, Digest, CollectorTimeout,
       CollectorFails, Closing
  <1>5. finding' = "verified" =>
          finding = "verified" \/ (guard = "exited" /\ workspace.clean)
    BY <1>4 DEF InspectWorkspace, Observed, Inspected
  <1> QED
    BY <1>1, <1>2, <1>3, <1>5, WorkInv

LEMMA GoneInv ==
    ASSUME Observed, Judge \/ FinishWithGap \/ CollectorKilled
    PROVE  Observed' /\ Kept
  <1>1. /\ collector \in Alive /\ collector' \in {"done", "dead"}
        /\ finding' = "unobservable"
        /\ lockHolder' = IF lockHolder = "collector" THEN "none" ELSE lockHolder
        /\ UNCHANGED <<private, readers, guard, workspace>>
        /\ result' = result \/ result'.workspace = finding
    BY DEF Judge, FinishWithGap, CollectorKilled, WriteResult, Gone, Alive, Closing
  <1>2. Excluded' /\ Kept
    BY <1>1 DEF Observed, Excluded, Kept, Armed, Early, Unarmed, Working, Looping, Closing,
       Alive, Readers
  <1>3. Inspected'
    BY <1>1 DEF Observed, Inspected, Closing
  <1> QED
    BY <1>2, <1>3 DEF Observed

LEMMA ReadInv ==
    ASSUME Observed, NEW r \in Readers,
           \/ \E mode \in {"ready", "result"} : ReadLock(r, mode)
           \/ ReadEnds(r) \/ ReaderLeftBehind
    PROVE  Observed' /\ Kept
  <1> USE DEF ownVars, hostVars
  <1>1. UNCHANGED <<private, collector, finding, guard, workspace>> /\ Kept
    BY DEF ReadLock, ReadEnds, ReaderLeftBehind, Kept, Armed
  <1>2. result' = result \/ (result = NoResult /\ result' = Gap)
    BY DEF ReadLock, ReadEnds, ReaderLeftBehind
  <1>3. Inspected'
    BY <1>1, <1>2 DEF Observed, Inspected, Gap
  <1>4. ASSUME NEW mode \in {"ready", "result"}, ReadLock(r, mode) PROVE Excluded'
    BY <1>4 DEF Observed, Excluded, ReadLock, Armed, Readers
  <1>5. CASE ReadEnds(r)
    <2>1. collector \in Early \cup Working => result' = result
      BY <1>5 DEF ReadEnds, Observed, Excluded, Readers
    <2>2. /\ readers' = [readers EXCEPT ![r] = NoReader]
          /\ lockHolder' = IF lockHolder = r THEN "none" ELSE lockHolder
      BY <1>5 DEF ReadEnds
    <2>3. NoReader.pc = "off" /\ NoReader \in [pc : {"off", "held", "busy"},
                                               mode : {"ready", "result"}]
      BY DEF NoReader
    <2> HIDE DEF NoReader
    <2> QED
      BY <1>1, <1>3, <2>1, <2>2, <2>3 DEF Observed, Excluded, Armed, Readers
  <1>6. CASE ReaderLeftBehind
    <2>1. /\ readers' = [readers EXCEPT !["orphan"] = readers["live"], !["live"] = NoReader]
          /\ lockHolder' = IF lockHolder = "live" THEN "orphan" ELSE lockHolder
          /\ result' = result
      BY <1>6 DEF ReaderLeftBehind
    <2>2. NoReader.pc = "off" /\ NoReader \in [pc : {"off", "held", "busy"},
                                               mode : {"ready", "result"}]
      BY DEF NoReader
    <2> HIDE DEF NoReader
    <2>3. /\ readers' \in [Readers -> [pc : {"off", "held", "busy"}, mode : {"ready", "result"}]]
          /\ readers'["orphan"] = readers["live"] /\ readers'["live"] = NoReader
      BY <2>1, <2>2 DEF Observed, Excluded, Readers
    <2>4. \A q \in Readers : readers'[q].pc = "held" => lockHolder' = q
      BY <2>1, <2>2, <2>3 DEF Observed, Excluded, Readers
    <2>5. lockHolder = "collector" => lockHolder' = "collector"
      BY <2>1
    <2> QED
      BY <1>1, <1>3, <2>1, <2>3, <2>4, <2>5 DEF Observed, Excluded, Armed
  <1> QED
    BY <1>1, <1>3, <1>4, <1>5, <1>6 DEF Observed

----------------------------------------------------------------------------
(* The gate *)

\* what the observer's side does meanwhile: at most, it arms or starts a bound collector
Calm == (Armed => Armed') /\ (bound = 0 => collector' = "none")

LEMMA NoPassFacts ==
    /\ NoPass \in PassRecs /\ NoPass.pc = "idle" /\ NoPass.helper = "none"
    /\ NoPass.nonce = 0 /\ NoPass.sandbox = 0
  BY GateAssumption DEF NoPass, PassRecs

LEMMA GateNumbers ==
    ASSUME Gated
    PROVE  /\ sandbox \in Nat /\ request.nonce \in Nat /\ marker.nonce \in Nat
           /\ late \subseteq Nat /\ pass.nonce \in Nat /\ pass.sandbox \in Nat
           /\ \A m \in lateMarks : m.nonce \in Nat
           /\ request.version \in Nat /\ marker.version \in Nat
  <1>1. 0..MaxSandboxes \subseteq Nat /\ Sandboxes \subseteq Nat
    BY GateAssumption DEF Sandboxes
  <1>2. pass.nonce \in Nat /\ pass.sandbox \in Nat
    BY <1>1 DEF Gated, PassRecs
  <1>3. /\ sandbox \in Nat /\ late \subseteq Nat
        /\ request.nonce \in Nat /\ request.version \in Nat
        /\ marker.nonce \in Nat /\ marker.version \in Nat
    BY <1>1 DEF Gated, GateTypeOK
  <1>4. \A m \in lateMarks : m.nonce \in Nat
    BY <1>1 DEF Gated, GateTypeOK
  <1> QED
    BY <1>2, <1>3, <1>4

LEMMA FaultCounts ==
    ASSUME Gated, Fault
    PROVE  faults' \in 0..MaxFaults
  BY GateAssumption DEF Gated, GateTypeOK, Fault

LEMMA CalmInv ==
    ASSUME Gated, Calm, UNCHANGED gateVars
    PROVE  Gated'
  <1> USE DEF gateVars
  <1>1. GateTypeOK' /\ pass' \in PassRecs /\ Walled'
    BY DEF Gated, GateTypeOK, Walled
  <1>2. Followed' /\ Numbered'
    BY DEF Gated, Followed, Calm, Numbered, Firewalled, Policy
  <1>3. Opened'
    BY DEF Gated, Opened, Watched, Calm
  <1> QED
    BY <1>1, <1>2, <1>3 DEF Gated

(* The kubelet, the init container and the late PATCHes of both ConfigMaps *)
LEMMA KubeletInv ==
    ASSUME Gated, Calm,
           \/ KubeletStep \/ WorkloadStarts \/ SandboxLost \/ InitRetries \/ InitDeadline
           \/ \E n \in late : LatePublish(n)
           \/ \E m \in lateMarks : LateRelease(m)
    PROVE  Gated'
  <1> USE GateAssumption
  <1>1. UNCHANGED <<firewall, strayed, helpers, flock, pass, bound>>
    BY DEF KubeletStep, NewSandbox, InitSends, InitPublishes, InitPasses, WorkloadStarts,
       SandboxLost, InitRetries, InitDeadline, LatePublish, LateRelease
  <1>2. pass' \in PassRecs /\ Walled' /\ Followed'
    BY <1>1 DEF Gated, Walled, Followed, Calm, Firewalled, Policy
  <1>3. pass \in PassRecs /\ GateTypeOK /\ Numbered /\ Opened
    BY DEF Gated
  <1>4. CASE NewSandbox
    <2>1. GateTypeOK'
      <3>1. sandbox' \in 0..MaxSandboxes /\ up' \in BOOLEAN /\ init' = "publishing"
        BY <1>3, <1>4 DEF GateTypeOK, NewSandbox
      <3>2. UNCHANGED <<late, request, marker, lateMarks, firewall, strayed, helpers, flock, bound,
                        started, faults>>
        BY <1>4 DEF NewSandbox
      <3> QED
        BY <1>3, <3>1, <3>2 DEF GateTypeOK
    <2>2. sandbox' = sandbox + 1 /\ init' = "publishing"
          /\ UNCHANGED <<request, late, pass, marker, lateMarks>>
      BY <1>4 DEF NewSandbox
    <2>3. Numbered'
      BY <1>3, <2>2, GateNumbers DEF Numbered
    <2>4. Opened'
      BY <1>3, <2>2, GateNumbers DEF Opened, Calm
    <2> QED
      BY <1>2, <2>1, <2>3, <2>4 DEF Gated
  <1>5. CASE InitSends \/ InitDeadline \/ InitPasses
    <2>1. GateTypeOK' /\ Numbered'
      <3>1. init # "none" /\ init' \in {"sent", "failed", "passed"}
        BY <1>5 DEF InitSends, InitDeadline, InitPasses, InitRunning
      <3>2. UNCHANGED <<sandbox, up, late, request, marker, lateMarks, firewall, strayed, helpers,
                        flock, pass, bound, started, faults>>
        BY <1>5 DEF InitSends, InitDeadline, InitPasses
      <3> QED
        BY <1>3, <3>1, <3>2 DEF GateTypeOK, Numbered
    <2>2. Opened'
      BY <1>3, <1>5 DEF Numbered, Opened, Watched, InitSends, InitDeadline, InitPasses, Calm
    <2> QED
      BY <1>2, <2>1, <2>2 DEF Gated
  <1>6. ASSUME NEW n \in Sandboxes, n <= sandbox, request' = Requested(n),
               init' \in {init, "waiting"}, late' \subseteq late, init' # "none" => sandbox # 0,
               UNCHANGED <<sandbox, up, marker, lateMarks, started, faults>>
        PROVE  Gated'
    <2>1. request' \in [nonce : 0..MaxSandboxes, version : Nat] /\ request'.nonce <= sandbox
      <3>1. CASE request' = request
        BY <1>3, <3>1 DEF GateTypeOK, Numbered
      <3>2. CASE request' = [nonce |-> n, version |-> request.version + 1]
        BY <1>6, <3>2, GateNumbers DEF Sandboxes
      <3> QED
        BY <1>6, <3>1, <3>2 DEF Requested
    <2>2. GateTypeOK' /\ Numbered'
      BY <1>1, <1>3, <1>6, <2>1 DEF GateTypeOK, Numbered
    <2>3. Opened'
      BY <1>1, <1>3, <1>6 DEF Opened, Watched, Calm
    <2> QED
      BY <1>2, <2>2, <2>3 DEF Gated
  <1>7. CASE InitPublishes
    <2>1. sandbox \in Sandboxes /\ sandbox <= sandbox /\ sandbox # 0
      BY <1>3, <1>7 DEF GateTypeOK, Numbered, InitPublishes, Sandboxes
    <2> QED
      BY <1>6, <1>7, <2>1 DEF InitPublishes
  <1>8. ASSUME NEW n \in late, LatePublish(n) PROVE Gated'
    <2>1. n \in Sandboxes /\ n <= sandbox /\ (init # "none" => sandbox # 0)
      BY <1>3, <1>8 DEF GateTypeOK, Numbered
    <2> QED
      BY <1>6, <1>8, <2>1 DEF LatePublish
  <1>9. CASE WorkloadStarts
    <2>1. sandbox \in Sandboxes
      BY <1>3, <1>9 DEF GateTypeOK, Numbered, WorkloadStarts, Sandboxes
    <2>2. GateTypeOK' /\ Numbered'
      BY <1>3, <1>9, <2>1 DEF GateTypeOK, Numbered, WorkloadStarts
    <2>3. Opened'
      BY <1>3, <1>9 DEF Opened, Watched, WorkloadStarts, Calm
    <2> QED
      BY <1>2, <2>2, <2>3 DEF Gated
  <1>10. CASE SandboxLost \/ InitRetries
    <2>1. init = "sent" => sandbox \in Sandboxes
      BY <1>3 DEF GateTypeOK, Numbered, Sandboxes
    <2>2. late' \subseteq Sandboxes /\ \A n \in late' : n <= sandbox
      BY <1>3, <1>10, <2>1 DEF GateTypeOK, Numbered, SandboxLost, InitRetries
    <2>3. GateTypeOK'
      <3>1. faults' \in 0..MaxFaults
        BY <1>10, FaultCounts DEF SandboxLost, InitRetries
      <3> QED
        BY <1>3, <1>10, <2>2, <3>1 DEF GateTypeOK, SandboxLost, InitRetries
    <2>4. Numbered'
      BY <1>3, <1>10, <2>2 DEF Numbered, SandboxLost, InitRetries
    <2>5. Opened'
      BY <1>3, <1>10 DEF Opened, Watched, SandboxLost, InitRetries, Calm
    <2> QED
      BY <1>2, <2>3, <2>4, <2>5 DEF Gated
  <1>11. ASSUME NEW m \in lateMarks, LateRelease(m) PROVE Gated'
    <2>1. /\ marker' \in [nonce : 0..MaxSandboxes, version : Nat]
          /\ marker'.nonce \in {marker.nonce, m.nonce}
      <3>1. m.nonce \in 0..MaxSandboxes /\ m.version \in Nat
        <4>1. lateMarks \subseteq [nonce : Sandboxes, version : Nat]
          BY <1>3 DEF GateTypeOK
        <4>2. m.nonce \in Sandboxes /\ m.version \in Nat
          BY <1>11, <4>1
        <4> QED
          BY <4>2 DEF Sandboxes
      <3>2. marker' \in {marker, [nonce |-> m.nonce, version |-> m.version + 1]}
        BY <1>11 DEF LateRelease, Released
      <3>3. marker \in [nonce : 0..MaxSandboxes, version : Nat]
        BY <1>3 DEF GateTypeOK
      <3> QED
        BY <3>1, <3>2, <3>3
    <2>2. GateTypeOK' /\ Numbered'
      BY <1>3, <1>11, <2>1 DEF GateTypeOK, Numbered, LateRelease
    <2>3. Opened'
      BY <1>3, <1>11, <2>1 DEF Opened, Watched, LateRelease, Calm
    <2> QED
      BY <1>2, <2>2, <2>3 DEF Gated
  <1> QED
    BY <1>4, <1>5, <1>7, <1>8, <1>9, <1>10, <1>11 DEF KubeletStep

(* A pass that ends, and everything else that only concerns the pass *)
LEMMA PassEndsInv ==
    ASSUME Gated, Calm, pass' = NoPass, faults' \in 0..MaxFaults, lateMarks' = lateMarks,
           UNCHANGED <<sandbox, up, init, late, request, marker, firewall, strayed, helpers,
                       flock, bound, started>>
    PROVE  Gated'
  <1>1. GateTypeOK' /\ pass' \in PassRecs /\ Walled'
    BY NoPassFacts DEF Gated, GateTypeOK, Walled
  <1>2. Followed'
    BY NoPassFacts DEF Gated, Followed, Calm, Bound, Firewalled, Policy
  <1>3. Numbered'
    BY NoPassFacts DEF Gated, GateTypeOK, Numbered, Listed, Bound
  <1>4. Opened'
    BY NoPassFacts DEF Gated, Opened, Watched, Calm
  <1> QED
    BY <1>1, <1>2, <1>3, <1>4 DEF Gated

LEMMA PassMovesInv ==
    ASSUME Gated, Calm, pass' \in PassRecs,
           UNCHANGED <<sandbox, up, init, late, request, marker, lateMarks, firewall, strayed,
                       helpers, flock, bound, started>>,
           faults' = faults \/ Fault,
           pass.pc \notin {"helper", "bind"}, pass'.pc \notin {"helper", "bind"},
           pass'.helper = "none", pass'.sandbox <= sandbox, pass'.nonce <= sandbox,
           pass'.pc \notin {"idle", "request"} => pass'.nonce # 0,
           pass'.pc \in Bound => /\ pass.pc \in Bound /\ pass'.sandbox = pass.sandbox
                                 /\ pass'.nonce = pass.nonce,
           pass'.pc \in {"reread", "release"} => Armed
    PROVE  Gated'
  <1>1. GateTypeOK' /\ pass' \in PassRecs /\ Walled'
    BY FaultCounts DEF Gated, GateTypeOK, Walled
  <1>2. Followed'
    BY DEF Gated, Followed, Calm, Firewalled, Policy
  <1>3. Numbered'
    BY DEF Gated, Numbered, Listed
  <1>4. Opened'
    BY DEF Gated, Opened, Watched, Calm
  <1> QED
    BY <1>1, <1>2, <1>3, <1>4 DEF Gated

LEMMA PassInv ==
    ASSUME Gated, Calm,
           \/ PassBegins \/ ReadRequest \/ CollectorAsked \/ PollingEnds \/ Reread
           \/ HelperAbandoned
    PROVE  Gated'
  <1> USE DEF PassMoves
  <1>1. pass \in PassRecs /\ GateTypeOK /\ Followed /\ Numbered /\ Opened
    BY DEF Gated
  <1>2. CASE PassBegins
    <2> DEFINE w == InitRunning
    <2>1. /\ w \in BOOLEAN
          /\ pass' = [NoPass EXCEPT !.pc = "request", !.waiting = w, !.gate = marker.version,
                                    !.nonce = marker.nonce]
      BY <1>2 DEF PassBegins, InitRunning
    <2> HIDE DEF w
    <2>2. marker.version \in Nat /\ marker.nonce \in 0..MaxSandboxes /\ marker.nonce <= sandbox
      BY <1>1 DEF GateTypeOK, Opened
    <2>3. /\ pass' \in PassRecs /\ pass'.pc = "request" /\ pass'.helper = "none"
          /\ pass'.sandbox = 0 /\ pass'.nonce = marker.nonce
      BY <2>1, <2>2, NoPassFacts DEF PassRecs
    <2>4. sandbox \in Nat
      BY <1>1 DEF GateTypeOK
    <2> QED
      BY <1>2, <2>2, <2>3, <2>4, PassMovesInv DEF PassBegins, Bound
  <1>3. CASE pass' = NoPass /\ UNCHANGED <<sandbox, up, init, late, request, marker, lateMarks,
                                           firewall, strayed, helpers, flock, bound, started>>
                 /\ faults' \in 0..MaxFaults
    BY <1>3, PassEndsInv
  <1>4. CASE ReadRequest
    <2>1. CASE pass' = NoPass
      BY <1>1, <1>3, <1>4, <2>1 DEF ReadRequest, GateTypeOK
    <2>2. CASE pass' # NoPass
      <3>1. /\ pass.pc = "request" /\ request.nonce # 0
            /\ pass' = [pass EXCEPT !.pc = "list", !.nonce = request.nonce,
                                    !.request = request.version]
        BY <1>4, <2>2 DEF ReadRequest
      <3>2. /\ pass' \in PassRecs /\ pass'.pc = "list" /\ pass'.helper = pass.helper
            /\ pass'.sandbox = pass.sandbox /\ pass'.nonce = request.nonce
        BY <1>1, <3>1 DEF GateTypeOK, PassRecs
      <3>3. pass.helper = "none" /\ pass.sandbox <= sandbox /\ request.nonce <= sandbox
        BY <1>1, <3>1 DEF Followed, Numbered
      <3> QED
        BY <1>4, <3>1, <3>2, <3>3, PassMovesInv DEF ReadRequest, Bound
    <2> QED
      BY <2>1, <2>2
  <1>5. CASE CollectorAsked
    <2>1. pass.pc = "collect" /\ pass' = [pass EXCEPT !.pc = "poll"]
      BY <1>5 DEF CollectorAsked
    <2>2. /\ pass' \in PassRecs /\ pass'.pc = "poll" /\ pass'.helper = pass.helper
          /\ pass'.sandbox = pass.sandbox /\ pass'.nonce = pass.nonce
      BY <1>1, <2>1 DEF PassRecs, Listed, Bound
    <2>3. /\ pass.helper = "none" /\ pass.sandbox <= sandbox /\ pass.nonce <= sandbox
          /\ pass.nonce # 0
      BY <1>1, <2>1 DEF Followed, Numbered
    <2> QED
      BY <1>5, <2>1, <2>2, <2>3, PassMovesInv DEF CollectorAsked, Bound
  <1>6. CASE PollingEnds
    BY <1>1, <1>3, <1>6 DEF PollingEnds, GateTypeOK
  <1>7. CASE HelperAbandoned
    <2>1. faults' \in 0..MaxFaults
      BY <1>7, FaultCounts DEF HelperAbandoned
    <2> QED
      BY <1>3, <1>7, <2>1 DEF HelperAbandoned
  <1>8. CASE Reread
    <2>1. CASE pass' = NoPass
      BY <1>1, <1>3, <1>8, <2>1 DEF Reread, GateTypeOK
    <2>2. CASE pass' # NoPass
      <3>1. pass.pc = "reread" /\ pass' = [pass EXCEPT !.pc = "release"]
        BY <1>8, <2>2 DEF Reread
      <3>2. /\ pass' \in PassRecs /\ pass'.pc = "release" /\ pass'.helper = pass.helper
            /\ pass'.sandbox = pass.sandbox /\ pass'.nonce = pass.nonce
        BY <1>1, <3>1 DEF PassRecs, Listed, Bound
      <3>3. /\ pass.helper = "none" /\ pass.sandbox <= sandbox /\ pass.nonce <= sandbox
            /\ pass.nonce # 0 /\ Armed
        BY <1>1, <3>1 DEF Followed, Numbered, Opened
      <3> QED
        BY <1>8, <3>1, <3>2, <3>3, PassMovesInv DEF Reread, Bound
    <2> QED
      BY <2>1, <2>2
  <1> QED
    BY <1>2, <1>4, <1>5, <1>6, <1>7, <1>8

LEMMA ProbedInv ==
    ASSUME Gated, Calm, NEW armed \in BOOLEAN, armed => Armed,
           (pass.pc \in {"probe", "poll"} /\ Probed(armed)) \/ ProbeGivenUp
    PROVE  Gated'
  <1>1. pass \in PassRecs /\ GateTypeOK /\ Followed /\ Numbered /\ Opened
    BY DEF Gated
  <1>2. \E c \in {"reread", "collect", "poll", "probe"} :
          pass' = [pass EXCEPT !.pc = c] /\ (c = "reread" => armed)
    <2>1. pass = [pass EXCEPT !.pc = pass.pc]
      BY <1>1 DEF PassRecs
    <2> QED
      BY <2>1 DEF Probed, ProbeGivenUp
  <1>3. PICK c \in {"reread", "collect", "poll", "probe"} :
          pass' = [pass EXCEPT !.pc = c] /\ (c = "reread" => armed)
    BY <1>2
  <1>4. /\ pass' \in PassRecs /\ pass'.pc = c /\ pass'.helper = pass.helper
        /\ pass'.sandbox = pass.sandbox /\ pass'.nonce = pass.nonce
    BY <1>1, <1>3 DEF PassRecs, Listed, Bound
  <1>5. /\ pass.helper = "none" /\ pass.sandbox <= sandbox /\ pass.nonce <= sandbox
        /\ pass.nonce # 0 /\ pass.pc \in {"probe", "poll"}
    BY <1>1 DEF Followed, Numbered, ProbeGivenUp
  <1> QED
    BY <1>3, <1>4, <1>5, PassMovesInv DEF Probed, ProbeGivenUp, PassMoves, Bound

(* The helper the pass waits for, the ledger and the release *)
LEMMA ListInv ==
    ASSUME Gated, Calm, ListSandbox
    PROVE  Gated'
  <1> USE DEF PassMoves
  <1>1. /\ pass \in PassRecs /\ GateTypeOK /\ Walled /\ Followed /\ Numbered /\ Opened
        /\ faults \in 0..MaxFaults
    BY DEF Gated, GateTypeOK
  <1>2. CASE pass' = NoPass /\ helpers' = helpers
    BY <1>1, <1>2, PassEndsInv DEF ListSandbox
  <1>3. CASE ~(pass' = NoPass /\ helpers' = helpers)
    <2> DEFINE new == [pc |-> "queued", sandbox |-> sandbox, plan |-> <<>>]
    <2>1. /\ pass.pc = "list"
          /\ UNCHANGED <<sandbox, up, init, late, request, lateMarks, firewall, strayed, flock,
                         started, faults, marker, bound>>
      BY DEF ListSandbox
    <2>2. PICK h \in Helpers :
            /\ helpers[h].pc = "off" /\ helpers' = [helpers EXCEPT ![h] = new]
            /\ pass' = [pass EXCEPT !.pc = "helper", !.sandbox = sandbox, !.helper = h]
      BY <1>3 DEF ListSandbox
    <2>3. sandbox # 0 /\ pass.nonce <= sandbox /\ pass.nonce # 0
      BY <1>1, <2>1, GateNumbers DEF Numbered
    <2>4. new \in [pc : {"off", "queued", "apply", "child"}, sandbox : 0..MaxSandboxes,
                   plan : Seq(1..Commands)] /\ new.pc = "queued" /\ new.sandbox = sandbox
      BY <1>1 DEF GateTypeOK
    <2> HIDE DEF new
    <2>5. /\ pass' \in PassRecs /\ pass'.pc = "helper" /\ pass'.sandbox = sandbox
          /\ pass'.helper = h /\ pass'.nonce = pass.nonce
      BY <1>1, <2>2 DEF PassRecs, GateTypeOK, Listed
    <2>6. /\ helpers'[h] = new /\ \A g \in Helpers \ {h} : helpers'[g] = helpers[g]
          /\ helpers' \in [Helpers -> [pc : {"off", "queued", "apply", "child"},
                                       sandbox : 0..MaxSandboxes, plan : Seq(1..Commands)]]
      BY <1>1, <2>2, <2>4 DEF GateTypeOK
    <2>7. GateTypeOK'
      BY <1>1, <2>1, <2>6 DEF GateTypeOK
    <2>8. Walled'
      BY <1>1, <2>1, <2>3, <2>4, <2>6 DEF Walled
    <2>9. Followed'
      BY <1>1, <2>1, <2>2, <2>4, <2>5, <2>6, GateAssumption DEF Followed, Calm, Bound, Firewalled,
                                                                Policy
    <2>10. Numbered'
      BY <1>1, <2>1, <2>3, <2>5, GateNumbers DEF Numbered
    <2>11. Opened'
      BY <1>1, <2>1, <2>5 DEF Opened, Watched, Calm
    <2> QED
      BY <2>5, <2>7, <2>8, <2>9, <2>10, <2>11 DEF Gated
  <1> QED
    BY <1>2, <1>3

LEMMA BindInv ==
    ASSUME Gated, Calm, Armed => bound # 0, BindCollector
    PROVE  Gated'
  <1> USE DEF PassMoves
  <1>1. /\ pass \in PassRecs /\ GateTypeOK /\ Walled /\ Followed /\ Numbered /\ Opened
        /\ faults \in 0..MaxFaults
    BY DEF Gated, GateTypeOK
  <1>2. CASE bound' = bound /\ pass' = NoPass
    BY <1>1, <1>2, PassEndsInv DEF BindCollector
  <1>3. CASE ~(bound' = bound /\ pass' = NoPass)
    <2>1. /\ pass.pc = "bind" /\ bound \in {0, pass.sandbox} /\ bound' = pass.sandbox
          /\ pass' = [pass EXCEPT !.pc = "probe"]
          /\ UNCHANGED <<sandbox, up, init, late, request, lateMarks, firewall, strayed, flock,
                         started, faults, marker, helpers>>
      BY <1>3 DEF BindCollector
    <2>2. /\ pass' \in PassRecs /\ pass'.pc = "probe" /\ pass'.sandbox = pass.sandbox
          /\ pass'.helper = pass.helper /\ pass'.nonce = pass.nonce
      BY <1>1, <2>1 DEF PassRecs, Listed, Bound
    <2>3. pass.sandbox # 0 /\ Firewalled(pass.sandbox) /\ pass.sandbox \in 0..MaxSandboxes
      BY <1>1, <2>1 DEF Followed, PassRecs
    <2>4. GateTypeOK' /\ Walled'
      BY <1>1, <2>1, <2>3 DEF GateTypeOK, Walled
    <2>5. Followed'
      BY <1>1, <2>1, <2>2, <2>3 DEF Followed, Calm, Bound, Firewalled, Policy
    <2>6. Numbered'
      BY <1>1, <2>1, <2>2 DEF Numbered, Listed, Bound
    <2>7. Opened'
      BY <1>1, <2>1, <2>2 DEF Opened, Watched, Calm
    <2> QED
      BY <2>2, <2>4, <2>5, <2>6, <2>7 DEF Gated
  <1> QED
    BY <1>2, <1>3

\* at the release the nonce is an old one, or its sandbox is watched
LEMMA ReleaseIsSafe ==
    ASSUME Gated, pass.pc = "release"
    PROVE  /\ pass.nonce \in Sandboxes /\ pass.nonce <= sandbox
           /\ pass.nonce = sandbox => Watched
  <1>1. /\ pass.nonce <= pass.sandbox /\ pass.sandbox <= sandbox /\ pass.nonce # 0
        /\ bound = pass.sandbox /\ Armed
    BY DEF Gated, Followed, Numbered, Opened, Listed, Bound
  <1>2. pass.nonce \in 0..MaxSandboxes
    BY DEF Gated, PassRecs
  <1> QED
    BY <1>1, <1>2, GateNumbers, GateAssumption DEF Watched, Sandboxes

LEMMA ReleaseInv ==
    ASSUME Gated, Calm, Release \/ CoordinatorDies
    PROVE  Gated'
  <1>1. GateTypeOK /\ Walled /\ Followed /\ Numbered /\ Opened
    BY DEF Gated
  <1>2. /\ pass' = NoPass
        /\ UNCHANGED <<sandbox, up, init, late, request, firewall, strayed, helpers, flock, bound,
                       started>>
    BY DEF Release, CoordinatorDies, PassMoves
  <1>3. /\ marker' \in [nonce : 0..MaxSandboxes, version : Nat]
        /\ marker'.nonce <= sandbox /\ (marker'.nonce = sandbox /\ sandbox # 0 => Watched)
    <2>1. CASE marker' = marker
      BY <1>1, <2>1 DEF GateTypeOK, Opened
    <2>2. CASE marker' # marker
      <3>1. /\ pass.pc = "release"
            /\ marker' = [nonce |-> pass.nonce, version |-> pass.gate + 1]
        BY <2>2 DEF Release, CoordinatorDies, Released
      <3>2. pass.gate \in Nat
        BY DEF Gated, PassRecs
      <3>3. pass.nonce \in 0..MaxSandboxes
        BY DEF Gated, PassRecs
      <3> QED
        BY <3>1, <3>2, <3>3, ReleaseIsSafe
    <2> QED
      BY <2>1, <2>2
  <1>4. /\ lateMarks' \subseteq [nonce : Sandboxes, version : Nat]
        /\ \A m \in lateMarks' : m.nonce <= sandbox /\ (m.nonce = sandbox => Watched)
    <2>1. CASE lateMarks' = lateMarks
      BY <1>1, <2>1 DEF GateTypeOK, Opened
    <2>2. CASE lateMarks' # lateMarks
      <3>1. /\ pass.pc = "release"
            /\ lateMarks' = lateMarks \cup {[nonce |-> pass.nonce, version |-> pass.gate]}
        BY <2>2 DEF Release, CoordinatorDies, PassMoves
      <3>2. pass.gate \in Nat
        BY DEF Gated, PassRecs
      <3> QED
        BY <1>1, <3>1, <3>2, ReleaseIsSafe DEF GateTypeOK, Opened
    <2> QED
      BY <2>1, <2>2
  <1>5. faults' \in 0..MaxFaults
    BY <1>1, FaultCounts DEF Release, CoordinatorDies, PassMoves, GateTypeOK
  <1>6. GateTypeOK' /\ pass' \in PassRecs /\ Walled'
    BY <1>1, <1>2, <1>3, <1>4, <1>5, NoPassFacts DEF GateTypeOK, Walled
  <1>7. Followed'
    BY <1>1, <1>2, NoPassFacts DEF Followed, Calm, Bound, Firewalled, Policy
  <1>8. Numbered'
    BY <1>1, <1>2, NoPassFacts, GateNumbers DEF Numbered, Listed, Bound
  <1>9. Opened'
    BY <1>1, <1>2, <1>3, <1>4, NoPassFacts DEF Opened, Watched, Calm
  <1> QED
    BY <1>6, <1>7, <1>8, <1>9 DEF Gated

(* The helpers *)
HelperRecs == [pc : {"off", "queued", "apply", "child"}, sandbox : 0..MaxSandboxes,
               plan : Seq(1..Commands)]

LEMMA PolicyFacts ==
    /\ Policy \in Seq(1..Commands) /\ Len(Policy) = Commands
    /\ \A table \in Seq(1..Commands) : Exact(table) =>
         /\ Len(table) <= Commands /\ Plan(table) \in Seq(1..Commands)
         /\ Len(table) + Len(Plan(table)) = Commands
  <1>1. Policy \in Seq(1..Commands) /\ Len(Policy) = Commands
    BY GateAssumption DEF Policy
  <1>2. ASSUME NEW table \in Seq(1..Commands), Exact(table)
        PROVE  /\ Len(table) <= Commands /\ Plan(table) \in Seq(1..Commands)
               /\ Len(table) + Len(Plan(table)) = Commands
    <2>1. Len(table) <= Commands /\ Len(table) \in Nat
      BY <1>1, <1>2 DEF Exact, IsPrefix
    <2> DEFINE n == Len(table)
    <2> HIDE DEF n
    <2>2. Plan(table) = SubSeq(Policy, n + 1, Commands) /\ n \in Nat /\ n <= Commands
      BY <2>1 DEF Plan, n
    <2>3. /\ SubSeq(Policy, n + 1, Commands) \in Seq(1..Commands)
          /\ Len(SubSeq(Policy, n + 1, Commands)) = Commands - n
      <3>1. \A i \in (n + 1)..Commands : Policy[i] \in 1..Commands
        BY <2>2, GateAssumption DEF Policy
      <3>2. n + 1 \in Int /\ Commands \in Int
        BY <2>2, GateAssumption
      <3> QED
        BY <2>2, <3>1, <3>2, SubSeqProperties, GateAssumption
    <2> QED
      BY <2>1, <2>2, <2>3, GateAssumption DEF n
  <1> QED
    BY <1>1, <1>2

\* a finished firewall stays: a command that lands in it has strayed
LEMMA GrowKeeps ==
    ASSUME GateTypeOK, NEW s \in Sandboxes, NEW c \in 1..Commands,
           firewall' = [firewall EXCEPT ![s] = Append(firewall[s], c)],
           strayed' \in {strayed, strayed \cup {s}},
           firewall[s] = Policy => s \in strayed'
    PROVE  /\ firewall' \in [Sandboxes -> Seq(1..Commands)]
           /\ Len(firewall'[s]) = Len(firewall[s]) + 1 /\ Len(firewall[s]) \in Nat
           /\ \A t \in Sandboxes \ {s} : firewall'[t] = firewall[t]
           /\ \A t \in Sandboxes : Firewalled(t) => Firewalled(t)'
           /\ \A t \in Sandboxes \ {s} : Firewalled(t)' => Firewalled(t)
  <1>1. firewall \in [Sandboxes -> Seq(1..Commands)] /\ firewall[s] \in Seq(1..Commands)
    BY DEF GateTypeOK
  <1>2. /\ Append(firewall[s], c) \in Seq(1..Commands)
        /\ Len(Append(firewall[s], c)) = Len(firewall[s]) + 1 /\ Len(firewall[s]) \in Nat
    BY <1>1, AppendProperties, LenProperties
  <1>3. /\ firewall' \in [Sandboxes -> Seq(1..Commands)]
        /\ firewall'[s] = Append(firewall[s], c)
        /\ \A t \in Sandboxes \ {s} : firewall'[t] = firewall[t]
    BY <1>1, <1>2
  <1>4. Policy' = Policy
    BY DEF Policy
  <1>5. ASSUME NEW t \in Sandboxes, t # s
        PROVE  Firewalled(t)' <=> Firewalled(t)
    BY <1>3, <1>4, <1>5 DEF Firewalled, Policy, IsPrefix
  <1>6. ASSUME Firewalled(s) PROVE Firewalled(s)'
    <2>1. IsPrefix(Policy, firewall[s]) /\ s \in strayed'
      BY <1>6, PolicyFacts DEF Firewalled, IsPrefix
    <2>2. IsPrefix(Policy, Append(firewall[s], c))
      BY <1>1, <1>2, <2>1, PolicyFacts DEF IsPrefix
    <2> QED
      BY <1>3, <2>1, <2>2 DEF Firewalled, Policy, IsPrefix
  <1> QED
    BY <1>2, <1>3, <1>5, <1>6

\* a command on top of the whole policy is out of turn
LEMMA LongIsInexact ==
    ASSUME NEW c \in 1..Commands
    PROVE  ~Exact(Append(Policy, c))
  <1> DEFINE t == Append(Policy, c)
  <1>1. t \in Seq(1..Commands) /\ Len(t) = Commands + 1
    BY PolicyFacts, AppendProperties
  <1> HIDE DEF t
  <1>2. ~Exact(t)
    BY <1>1, PolicyFacts, GateAssumption
  <1> QED
    BY <1>2 DEF t

LEMMA EndsInv ==
    ASSUME Gated, Calm, NEW h \in Helpers, NEW ok \in BOOLEAN,
           NEW left \in {NoHelper} \cup Child(h), Ends(h, left, ok),
           helpers[h].pc # "off", ok => left = NoHelper /\ Firewalled(helpers[h].sandbox),
           faults' \in 0..MaxFaults,
           UNCHANGED <<sandbox, up, init, late, request, marker, lateMarks, firewall, strayed,
                       bound, started>>
    PROVE  Gated'
  <1>1. pass \in PassRecs /\ GateTypeOK /\ Walled /\ Followed /\ Numbered /\ Opened
    BY DEF Gated
  <1>2. /\ left \in HelperRecs /\ left.pc \in {"off", "child"}
        /\ left.pc = "child" => left.sandbox = helpers[h].sandbox /\ left.plan # <<>>
    <2>1. NoHelper \in HelperRecs /\ NoHelper.pc = "off"
      BY GateAssumption DEF NoHelper, HelperRecs
    <2>2. ASSUME left \in Child(h)
          PROVE  /\ left \in HelperRecs /\ left.pc = "child"
                 /\ left.sandbox = helpers[h].sandbox /\ left.plan # <<>>
      <3>1. helpers[h] \in HelperRecs
        BY <1>1 DEF GateTypeOK, HelperRecs
      <3>2. /\ helpers[h].plan # <<>> /\ helpers[h].plan \in Seq(1..Commands)
            /\ left = [helpers[h] EXCEPT !.pc = "child", !.plan = <<Head(helpers[h].plan)>>]
        BY <2>2, <3>1 DEF Child, HelperRecs
      <3>3. Head(helpers[h].plan) \in 1..Commands
        BY <3>2, HeadTailProperties
      <3>4. <<Head(helpers[h].plan)>> \in Seq(1..Commands) /\ <<Head(helpers[h].plan)>> # <<>>
        BY <3>3
      <3> QED
        BY <3>1, <3>2, <3>4 DEF HelperRecs
    <2> QED
      BY <2>1, <2>2
  <1>3. /\ helpers' = [helpers EXCEPT ![h] = left] /\ helpers \in [Helpers -> HelperRecs]
        /\ flock' = IF flock = h THEN "none" ELSE flock
    BY <1>1 DEF Ends, GateTypeOK, HelperRecs
  <1>4. /\ helpers'[h] = left /\ \A g \in Helpers \ {h} : helpers'[g] = helpers[g]
        /\ helpers' \in [Helpers -> HelperRecs]
    BY <1>2, <1>3
  <1>5. GateTypeOK'
    BY <1>1, <1>3, <1>4 DEF GateTypeOK, HelperRecs
  <1>6. Walled'
    BY <1>1, <1>2, <1>3, <1>4 DEF Walled
  <1>7. CASE pass.helper # h
    <2>1. pass' = pass
      BY <1>7 DEF Ends
    <2>2. Followed'
      BY <1>1, <1>4, <1>7, <2>1 DEF Followed, Calm, PassRecs, Firewalled, Policy
    <2>3. Numbered' /\ Opened'
      BY <1>1, <2>1 DEF Numbered, Opened, Watched, Calm
    <2> QED
      BY <1>1, <1>5, <1>6, <2>1, <2>2, <2>3 DEF Gated
  <1>8. CASE pass.helper = h /\ ~ok
    <2>1. pass' = NoPass
      BY <1>8 DEF Ends
    <2>2. Followed'
      BY <1>1, <2>1, NoPassFacts DEF Followed, Calm, Bound, Firewalled, Policy
    <2>3. Numbered' /\ Opened'
      BY <1>1, <2>1, NoPassFacts, GateNumbers DEF Numbered, Opened, Watched, Calm, Listed, Bound
    <2> QED
      BY <1>5, <1>6, <2>1, <2>2, <2>3, NoPassFacts DEF Gated
  <1>9. CASE pass.helper = h /\ ok
    <2>1. pass' = [pass EXCEPT !.pc = "bind", !.helper = "none"]
      BY <1>9 DEF Ends
    <2>2. /\ pass' \in PassRecs /\ pass'.pc = "bind" /\ pass'.helper = "none"
          /\ pass'.sandbox = pass.sandbox /\ pass'.nonce = pass.nonce
      BY <1>1, <2>1 DEF PassRecs, Listed
    <2>3. /\ pass.pc = "helper" /\ helpers[h].sandbox = pass.sandbox /\ pass.sandbox # 0
          /\ Firewalled(pass.sandbox)
      BY <1>1, <1>9, GateAssumption DEF Followed, Walled
    <2>4. Followed'
      BY <1>1, <2>2, <2>3 DEF Followed, Calm, Bound, Firewalled, Policy
    <2>5. Numbered' /\ Opened'
      BY <1>1, <2>2, <2>3 DEF Numbered, Opened, Watched, Calm, Listed
    <2> QED
      BY <1>5, <1>6, <2>2, <2>4, <2>5 DEF Gated
  <1> QED
    BY <1>7, <1>8, <1>9

LEMMA PlansInv ==
    ASSUME Gated, Calm, NEW h \in Helpers, HelperPlans(h)
    PROVE  Gated'
  <1> DEFINE s == helpers[h].sandbox
             todo == Plan(firewall[s])
  <1>1. /\ pass \in PassRecs /\ GateTypeOK /\ Walled /\ Followed /\ Numbered /\ Opened
        /\ faults \in 0..MaxFaults /\ helpers \in [Helpers -> HelperRecs]
    BY DEF Gated, GateTypeOK, HelperRecs
  <1>2. /\ helpers[h].pc = "queued" /\ flock = "none"
        /\ UNCHANGED <<sandbox, up, init, late, request, marker, lateMarks, firewall, strayed,
                       bound, started, faults>>
    BY DEF HelperPlans
  <1>3. CASE Exit(h, FALSE)
    BY <1>1, <1>2, <1>3, EndsInv DEF Exit
  <1>4. CASE ~Exit(h, FALSE)
    <2>1. /\ Exact(firewall[s]) /\ flock' = h /\ pass' = pass
          /\ helpers' = [helpers EXCEPT ![h].pc = "apply", ![h].plan = todo]
      BY <1>4 DEF HelperPlans
    <2>2. s \in Sandboxes /\ firewall[s] \in Seq(1..Commands)
      <3>1. s \in 0..MaxSandboxes /\ s # 0
        BY <1>1, <1>2 DEF Walled, HelperRecs
      <3>2. s \in Sandboxes
        BY <3>1, GateAssumption DEF Sandboxes
      <3> QED
        BY <1>1, <3>2 DEF GateTypeOK
    <2>3. todo \in Seq(1..Commands) /\ Len(firewall[s]) + Len(todo) = Commands
      BY <2>1, <2>2, PolicyFacts
    <2> HIDE DEF todo
    <2>4. /\ helpers' \in [Helpers -> HelperRecs]
          /\ helpers'[h].pc = "apply" /\ helpers'[h].sandbox = s /\ helpers'[h].plan = todo
          /\ \A g \in Helpers \ {h} : helpers'[g] = helpers[g]
      BY <1>1, <2>1, <2>3 DEF HelperRecs
    <2>5. GateTypeOK'
      BY <1>1, <1>2, <2>1, <2>4 DEF GateTypeOK, HelperRecs
    <2>6. Walled'
      BY <1>1, <1>2, <2>1, <2>2, <2>3, <2>4, GateAssumption DEF Walled, Sandboxes
    <2>7. Followed'
      BY <1>1, <1>2, <2>1, <2>4 DEF Followed, Calm, Firewalled, Policy, PassRecs
    <2>8. Numbered' /\ Opened'
      BY <1>1, <1>2, <2>1 DEF Numbered, Opened, Watched, Calm
    <2> QED
      BY <1>1, <2>1, <2>5, <2>6, <2>7, <2>8 DEF Gated
  <1> QED
    BY <1>3, <1>4

\* a helper that still has a command to apply works on an incomplete firewall, or
\* on one that a dead helper's command has strayed into
LEMMA ApplyIsOpen ==
    ASSUME Gated, NEW h \in Helpers, helpers[h].pc = "apply", helpers[h].plan # <<>>
    PROVE  /\ helpers[h].sandbox \in Sandboxes
           /\ firewall[helpers[h].sandbox] \in Seq(1..Commands)
           /\ helpers[h].plan \in Seq(1..Commands)
           /\ firewall[helpers[h].sandbox] = Policy => helpers[h].sandbox \in strayed
  <1>1. GateTypeOK /\ Walled
    BY DEF Gated
  <1>2. /\ helpers[h].sandbox \in 0..MaxSandboxes /\ helpers[h].sandbox # 0
        /\ helpers[h].plan \in Seq(1..Commands)
    BY <1>1 DEF GateTypeOK, Walled
  <1>3. helpers[h].sandbox \in Sandboxes
    BY <1>2, GateAssumption DEF Sandboxes
  <1>4. firewall[helpers[h].sandbox] \in Seq(1..Commands)
    BY <1>1, <1>3 DEF GateTypeOK
  <1>5. Len(helpers[h].plan) \in Nat \ {0} /\ Len(firewall[helpers[h].sandbox]) \in Nat
    BY <1>2, <1>4, EmptySeq, LenProperties
  <1>6. ASSUME helpers[h].sandbox \notin strayed
        PROVE  Len(firewall[helpers[h].sandbox]) # Commands
    <2> DEFINE m == Len(firewall[helpers[h].sandbox])
               n == Len(helpers[h].plan)
    <2>1. m + n = Commands /\ n \in Nat \ {0} /\ m \in Nat
      BY <1>1, <1>5, <1>6 DEF Walled
    <2> HIDE DEF m, n
    <2>2. m # Commands
      BY <2>1
    <2> QED
      BY <2>2 DEF m
  <1> QED
    BY <1>2, <1>3, <1>4, <1>6, PolicyFacts

\* what a command does, of a helper at work or of a dead one
LEMMA GrowsOnce ==
    ASSUME Gated, NEW h \in Helpers, HelperApplies(h) \/ ChildApplies(h)
    PROVE  LET s == helpers[h].sandbox
               plan == helpers[h].plan
           IN /\ s \in Sandboxes /\ s # 0
              /\ Head(plan) \in 1..Commands /\ Tail(plan) \in Seq(1..Commands)
              /\ Len(Tail(plan)) = Len(plan) - 1 /\ Len(plan) \in Nat
              /\ firewall' = [firewall EXCEPT ![s] = Append(firewall[s], Head(plan))]
              /\ strayed' \in {strayed, strayed \cup {s}}
              /\ firewall[s] = Policy => s \in strayed'
              /\ UNCHANGED <<sandbox, up, init, late, request, marker, lateMarks, flock, pass,
                             bound, started, faults>>
  <1> DEFINE s == helpers[h].sandbox
             plan == helpers[h].plan
  <1>1. GateTypeOK /\ Walled /\ helpers \in [Helpers -> HelperRecs]
    BY DEF Gated, GateTypeOK, HelperRecs
  <1>2. /\ s \in Sandboxes /\ s # 0 /\ plan \in Seq(1..Commands) /\ plan # <<>>
        /\ Head(plan) \in 1..Commands /\ Tail(plan) \in Seq(1..Commands)
        /\ Len(Tail(plan)) = Len(plan) - 1 /\ Len(plan) \in Nat
    <2>1. s \in 0..MaxSandboxes /\ s # 0 /\ plan \in Seq(1..Commands) /\ plan # <<>>
      BY <1>1 DEF HelperApplies, ChildApplies, Walled, HelperRecs
    <2>2. s \in Sandboxes
      BY <2>1, GateAssumption DEF Sandboxes
    <2> HIDE DEF plan
    <2>3. /\ Head(plan) \in 1..Commands /\ Tail(plan) \in Seq(1..Commands)
          /\ Len(Tail(plan)) = Len(plan) - 1 /\ Len(plan) \in Nat
      BY <2>1, HeadTailProperties, LenProperties
    <2> QED
      BY <2>1, <2>2, <2>3
  <1>3. /\ firewall' = [firewall EXCEPT ![s] = Append(firewall[s], Head(plan))]
        /\ strayed' \in {strayed, strayed \cup {s}} /\ (firewall[s] = Policy => s \in strayed')
        /\ UNCHANGED <<sandbox, up, init, late, request, marker, lateMarks, flock, pass, bound,
                       started, faults>>
    <2>1. CASE HelperApplies(h)
      BY <1>1, <2>1, ApplyIsOpen DEF HelperApplies, GateTypeOK
    <2>2. CASE ChildApplies(h)
      BY <1>1, <1>2, <2>2, LongIsInexact DEF ChildApplies, GateTypeOK
    <2> QED
      BY <2>1, <2>2
  <1> QED
    BY <1>2, <1>3

LEMMA AppliesInv ==
    ASSUME Gated, Calm, NEW h \in Helpers, HelperApplies(h) \/ ChildApplies(h)
    PROVE  Gated'
  <1> DEFINE s == helpers[h].sandbox
             plan == helpers[h].plan
             table == firewall[s]
  <1>1. /\ pass \in PassRecs /\ GateTypeOK /\ Walled /\ Followed /\ Numbered /\ Opened
        /\ helpers \in [Helpers -> HelperRecs]
    BY DEF Gated, GateTypeOK, HelperRecs
  <1>2. /\ s \in Sandboxes /\ s # 0
        /\ Head(plan) \in 1..Commands /\ Tail(plan) \in Seq(1..Commands)
        /\ Len(Tail(plan)) = Len(plan) - 1 /\ Len(plan) \in Nat
    BY GrowsOnce
  <1>3. /\ firewall' = [firewall EXCEPT ![s] = Append(table, Head(plan))]
        /\ strayed' \in {strayed, strayed \cup {s}} /\ (table = Policy => s \in strayed')
        /\ UNCHANGED <<sandbox, up, init, late, request, marker, lateMarks, flock, pass, bound,
                       started, faults>>
    BY GrowsOnce
  <1>4. /\ firewall' \in [Sandboxes -> Seq(1..Commands)]
        /\ Len(firewall'[s]) = Len(table) + 1 /\ Len(table) \in Nat
        /\ \A t \in Sandboxes \ {s} : firewall'[t] = firewall[t]
        /\ \A t \in Sandboxes : Firewalled(t) => Firewalled(t)'
    BY <1>1, <1>2, <1>3, GrowKeeps
  <1>5. /\ helpers' \in [Helpers -> HelperRecs] /\ helpers'[h] \in HelperRecs
        /\ \A g \in Helpers \ {h} : helpers'[g] = helpers[g]
        /\ \/ /\ helpers[h].pc = "apply" /\ helpers'[h].pc = "apply"
              /\ helpers'[h].sandbox = s /\ helpers'[h].plan = Tail(plan)
           \/ helpers[h].pc = "child" /\ helpers'[h].pc = "off"
    <2>1. NoHelper \in HelperRecs /\ NoHelper.pc = "off"
      BY GateAssumption DEF NoHelper, HelperRecs
    <2> HIDE DEF NoHelper
    <2>2. CASE HelperApplies(h)
      <3>1. helpers[h].pc = "apply" /\ helpers' = [helpers EXCEPT ![h].plan = Tail(plan)]
        BY <1>1, <2>2 DEF HelperApplies
      <3> QED
        BY <1>1, <1>2, <3>1 DEF HelperRecs
    <2>3. CASE ChildApplies(h)
      BY <1>1, <2>1, <2>3 DEF ChildApplies
    <2> QED
      BY <2>2, <2>3
  <1>6. GateTypeOK'
    BY <1>1, <1>2, <1>3, <1>4, <1>5 DEF GateTypeOK, HelperRecs
  <1>7. Walled'
    <2>1. ASSUME NEW g \in Helpers, helpers'[g].pc = "apply", helpers'[g].sandbox \notin strayed'
          PROVE  Len(firewall'[helpers'[g].sandbox]) + Len(helpers'[g].plan) = Commands
      <3>1. helpers[g].pc = "apply" /\ helpers'[g].sandbox = helpers[g].sandbox /\ flock = g
            /\ helpers[g].sandbox \notin strayed
        BY <1>1, <1>3, <1>5, <2>1 DEF Walled
      <3>2. /\ Len(firewall[helpers[g].sandbox]) + Len(helpers[g].plan) = Commands
            /\ helpers[g].sandbox \in Sandboxes
        <4>1. helpers[g].sandbox \in 0..MaxSandboxes /\ helpers[g].sandbox # 0
          BY <1>1, <3>1 DEF Walled, HelperRecs
        <4>2. helpers[g].sandbox \in Sandboxes
          BY <4>1, GateAssumption DEF Sandboxes
        <4> QED
          BY <1>1, <3>1, <4>2 DEF Walled
      <3>3. CASE g = h
        <4>1. helpers'[h].plan = Tail(plan) /\ helpers'[h].sandbox = s
          BY <1>5, <2>1, <3>3
        <4> DEFINE m == Len(table)
                   n == Len(plan)
        <4>2. /\ m \in Nat /\ n \in Nat /\ m + n = Commands
              /\ Len(firewall'[s]) = m + 1 /\ Len(Tail(plan)) = n - 1
          BY <1>2, <1>4, <3>2, <3>3
        <4> HIDE DEF m, n
        <4>3. (m + 1) + (n - 1) = Commands
          BY <4>2
        <4> QED
          BY <3>3, <4>1, <4>2, <4>3
      <3>4. CASE g # h
        <4>1. helpers[h].pc = "child"
          BY <1>1, <1>5, <3>1, <3>4 DEF Walled
        <4>2. helpers[g].sandbox # s
          BY <2>1, <3>1, <4>1, GateAssumption DEF HelperApplies, ChildApplies
        <4> QED
          BY <1>4, <1>5, <3>1, <3>2, <3>4, <4>2
      <3> QED
        BY <3>3, <3>4
    <2>2. \A g \in Helpers :
            /\ helpers'[g].pc # "off" => helpers'[g].sandbox # 0
            /\ helpers'[g].pc = "child" => helpers'[g].plan # <<>>
            /\ helpers'[g].pc = "apply" => flock' = g
      BY <1>1, <1>2, <1>3, <1>5 DEF Walled
    <2> QED
      BY <2>1, <2>2 DEF Walled
  <1>8. Followed'
    <2>1. pass.sandbox # 0 => pass.sandbox \in Sandboxes
      BY <1>1, GateAssumption DEF PassRecs, Sandboxes
    <2>2. bound # 0 => bound \in Sandboxes
      BY <1>1, GateAssumption DEF GateTypeOK, Sandboxes
    <2>3. /\ pass.pc = "bind" => Firewalled(pass.sandbox)'
          /\ bound # 0 => Firewalled(bound)'
      BY <1>1, <1>3, <1>4, <2>1, <2>2 DEF Followed
    <2>4. ASSUME pass.pc = "helper"
          PROVE  /\ helpers'[pass.helper].pc \in {"queued", "apply"}
                 /\ helpers'[pass.helper].sandbox = pass.sandbox
      <3>1. /\ pass.helper \in Helpers /\ helpers[pass.helper].pc \in {"queued", "apply"}
            /\ helpers[pass.helper].sandbox = pass.sandbox
        BY <1>1, <2>4 DEF Followed, PassRecs
      <3> QED
        BY <1>5, <3>1
    <2> QED
      BY <1>1, <1>3, <2>3, <2>4 DEF Followed, Calm
  <1>9. Numbered' /\ Opened'
    BY <1>1, <1>3 DEF Numbered, Opened, Watched, Calm
  <1> QED
    BY <1>1, <1>3, <1>6, <1>7, <1>8, <1>9 DEF Gated

LEMMA HelperInv ==
    ASSUME Gated, Calm, NEW h \in Helpers, HelperStep(h) \/ HelperKilled(h)
    PROVE  Gated'
  <1>1. CASE HelperPlans(h)
    BY <1>1, PlansInv
  <1>2. CASE HelperApplies(h) \/ ChildApplies(h)
    BY <1>2, AppliesInv
  <1>3. CASE HelperVerifies(h)
    <2> DEFINE ok == firewall[helpers[h].sandbox] = Policy /\ Pinned(helpers[h].sandbox)
    <2>1. /\ helpers[h].pc = "apply" /\ Ends(h, NoHelper, ok)
          /\ UNCHANGED <<sandbox, up, init, late, request, marker, lateMarks, firewall, strayed,
                         bound, started, faults>>
      BY <1>3 DEF HelperVerifies, Exit
    <2>2. ok \in BOOLEAN /\ (ok => Firewalled(helpers[h].sandbox))
      BY DEF Firewalled
    <2>3. faults \in 0..MaxFaults
      BY DEF Gated, GateTypeOK
    <2> HIDE DEF ok
    <2> QED
      BY <2>1, <2>2, <2>3, EndsInv
  <1>4. CASE HelperKilled(h)
    <2>1. faults' \in 0..MaxFaults
      BY <1>4, FaultCounts DEF HelperKilled
    <2> QED
      BY <1>4, <2>1, EndsInv DEF HelperKilled
  <1> QED
    BY <1>1, <1>2, <1>3, <1>4 DEF HelperStep

----------------------------------------------------------------------------
(* The invariant *)

LEMMA InitInv == Init => IInv
  <1> SUFFICES ASSUME Init PROVE IInv
    OBVIOUS
  <1> USE DEF Init, GateInit, ObserverInit
  <1>1. Excluded
    <2>1. NoReader.pc = "off" /\ NoReader \in [pc : {"off", "held", "busy"},
                                               mode : {"ready", "result"}]
      BY DEF NoReader
    <2> HIDE DEF NoReader
    <2> QED
      BY <2>1 DEF Excluded, Armed, Working, Looping, Closing
  <1>2. Inspected
    BY DEF Inspected, Closing, NoResult
  <1>3. GateTypeOK
    <2>1. NoHelper \in [pc : {"off", "queued", "apply", "child"}, sandbox : 0..MaxSandboxes,
                        plan : Seq(1..Commands)]
      BY GateAssumption DEF NoHelper
    <2> HIDE DEF NoHelper
    <2>2. /\ helpers \in [Helpers -> [pc : {"off", "queued", "apply", "child"},
                                      sandbox : 0..MaxSandboxes, plan : Seq(1..Commands)]]
          /\ firewall \in [Sandboxes -> Seq(1..Commands)]
      BY <2>1
    <2>3. 0 \in 0..MaxSandboxes /\ 0 \in 0..MaxFaults
      BY GateAssumption
    <2>4. /\ request \in [nonce : 0..MaxSandboxes, version : Nat]
          /\ marker \in [nonce : 0..MaxSandboxes, version : Nat]
      BY <2>3
    <2>5. /\ sandbox = 0 /\ up = FALSE /\ init = "none" /\ late = {} /\ lateMarks = {}
          /\ strayed = {} /\ flock = "none" /\ bound = 0 /\ started = {} /\ faults = 0
      OBVIOUS
    <2> HIDE DEF Init, GateInit, ObserverInit
    <2> QED
      BY <2>2, <2>3, <2>4, <2>5 DEF GateTypeOK
  <1>4. Walled
    BY DEF Walled, NoHelper
  <1>5. pass \in PassRecs /\ Followed
    BY NoPassFacts DEF Followed, Bound
  <1>6. Numbered /\ Opened
    BY NoPassFacts DEF Numbered, Opened, Listed, Bound
  <1> QED
    BY <1>1, <1>2, <1>3, <1>4, <1>5, <1>6 DEF IInv, Observed, Gated

LEMMA KeptIsCalm ==
    ASSUME IInv, Kept
    PROVE  Calm
  BY DEF IInv, Gated, Followed, Kept, Calm

LEMMA UnobservedStep ==
    ASSUME IInv, UNCHANGED observerVars
    PROVE  Observed' /\ Calm
  <1>1. Kept
    BY DEF observerVars, Kept, Armed
  <1>2. Observed'
    BY DEF observerVars, IInv, Observed, Excluded, Inspected, Armed
  <1> QED
    BY <1>1, <1>2, KeptIsCalm

LEMMA GateSideInv ==
    ASSUME IInv, UNCHANGED observerVars,
           \/ PassStep \/ KubeletStep \/ GateFaults \/ PollingEnds \/ CoordinatorDies
           \/ \E h \in Helpers : HelperStep(h)
           \/ pass.pc \in {"probe", "poll"} /\ Probed(FALSE)
    PROVE  IInv'
  <1>1. Observed' /\ Calm /\ Gated
    BY UnobservedStep DEF IInv
  <1>2. Armed => bound # 0
    BY DEF IInv, Observed, Excluded, Unarmed, Early, Gated, Followed
  <1>3. CASE PassStep \/ PollingEnds
    BY <1>1, <1>2, <1>3, PassInv, ListInv, BindInv, ReleaseInv DEF PassStep, IInv
  <1>4. CASE KubeletStep
    BY <1>1, <1>4, KubeletInv DEF IInv
  <1>5. CASE GateFaults
    BY <1>1, <1>5, KubeletInv, PassInv, HelperInv DEF GateFaults, IInv
  <1>6. CASE CoordinatorDies
    BY <1>1, <1>6, ReleaseInv DEF IInv
  <1>7. ASSUME NEW h \in Helpers, HelperStep(h) PROVE IInv'
    BY <1>1, <1>7, HelperInv DEF IInv
  <1>8. CASE pass.pc \in {"probe", "poll"} /\ Probed(FALSE)
    BY <1>1, <1>8, ProbedInv DEF IInv
  <1> QED
    BY <1>3, <1>4, <1>5, <1>6, <1>7, <1>8

LEMMA ObserverSideInv ==
    ASSUME IInv, UNCHANGED gateVars,
           \/ CollectorStep(Holding) \/ CollectorTimeout \/ RuntimeStep \/ ObserverFaults
           \/ \E mode \in {"ready", "result"} : ReadLock("live", mode)
           \/ ReadEnds("live") \/ ReadEnds("orphan")
    PROVE  IInv'
  <1>1. Observed /\ Gated
    BY DEF IInv
  <1>2. Observed' /\ Kept
    <2>1. CASE CollectorStep(Holding) \/ CollectorTimeout
      <3>1. Holding \in BOOLEAN
        BY DEF Holding
      <3> HIDE DEF Holding
      <3> QED
        BY <1>1, <2>1, <3>1, SetupInv, LoopInv, GoneInv DEF CollectorStep
    <2>2. CASE RuntimeStep
      BY <1>1, <2>2, RuntimeInv
    <2>3. CASE ObserverFaults
      BY <1>1, <2>3, RuntimeInv, LoopInv, GoneInv DEF ObserverFaults
    <2>4. CASE \/ \E mode \in {"ready", "result"} : ReadLock("live", mode)
               \/ ReadEnds("live") \/ ReadEnds("orphan")
      BY <1>1, <2>4, ReadInv DEF Readers
    <2> QED
      BY <2>1, <2>2, <2>3, <2>4
  <1> QED
    BY <1>1, <1>2, KeptIsCalm, CalmInv DEF IInv

LEMMA JointInv ==
    ASSUME IInv, ProbeEnds \/ AskCollector \/ StartWorkload \/ Crash \/ ProbeAbandoned
    PROVE  IInv'
  <1>1. Observed /\ Gated
    BY DEF IInv
  <1>2. CASE ProbeEnds
    <2> DEFINE armed == IsReady("live")
    <2>1. armed \in BOOLEAN /\ (armed => Armed)
      BY DEF IsReady, Armed
    <2>2. pass.pc \in {"probe", "poll"} /\ Probed(armed) /\ ReadEnds("live")
      BY <1>2 DEF ProbeEnds
    <2> HIDE DEF armed
    <2>3. Observed' /\ Calm
      BY <1>1, <2>2, ReadInv, KeptIsCalm DEF Readers
    <2> QED
      BY <1>1, <2>1, <2>2, <2>3, ProbedInv DEF IInv
  <1>3. CASE AskCollector
    <2>1. bound # 0
      BY <1>1, <1>3 DEF AskCollector, CollectorAsked, Gated, Followed, Bound
    <2>2. Observed' /\ Calm
      BY <1>1, <1>3, <2>1, StartsInv DEF AskCollector, Calm
    <2> QED
      BY <1>1, <1>3, <2>2, PassInv DEF AskCollector, IInv
  <1>4. CASE StartWorkload
    BY <1>1, <1>4, RuntimeInv, KeptIsCalm, KubeletInv DEF StartWorkload, IInv
  <1>5. CASE Crash
    <2>1. CASE UNCHANGED observerVars
      BY <1>5, <2>1, GateSideInv DEF Crash
    <2>2. CASE ReaderLeftBehind
      BY <1>1, <1>5, <2>2, ReadInv, KeptIsCalm, ReleaseInv DEF Crash, IInv, Readers
    <2> QED
      BY <1>5, <2>1, <2>2 DEF Crash
  <1>6. CASE ProbeAbandoned
    BY <1>1, <1>6, ReadInv, KeptIsCalm, ProbedInv DEF ProbeAbandoned, IInv, Readers
  <1> QED
    BY <1>2, <1>3, <1>4, <1>5, <1>6

LEMMA NextInv ==
    ASSUME IInv, [Next]_vars
    PROVE  IInv'
  <1>1. CASE Pass \/ Kubelet \/ StopPolling \/ (\E h \in Helpers : Helper(h))
             \/ (GateFaults /\ UNCHANGED observerVars)
    BY <1>1, GateSideInv DEF Pass, Kubelet, StopPolling, Helper
  <1>2. CASE Collecting \/ Timeout \/ Runtime \/ ResultBegins \/ ResultEnds \/ OrphanEnds
             \/ (ObserverFaults /\ UNCHANGED gateVars)
    BY <1>2, ObserverSideInv DEF Collecting, Timeout, Runtime, ResultBegins, ResultEnds,
       OrphanEnds
  <1>3. CASE ProbeBegins
    BY <1>3, GateSideInv, ObserverSideInv DEF ProbeBegins
  <1>4. CASE ProbeEnds \/ AskCollector \/ StartWorkload \/ Crash \/ ProbeAbandoned
    BY <1>4, JointInv
  <1>5. CASE UNCHANGED vars
    BY <1>5, UnobservedStep, CalmInv DEF vars, IInv
  <1> QED
    BY <1>1, <1>2, <1>3, <1>4, <1>5 DEF Next, Probe

LEMMA SpecInv == Spec => []IInv
  <1>1. IInv /\ [Next]_vars => IInv'
    BY NextInv
  <1> QED
    BY InitInv, <1>1, PTL DEF Spec

----------------------------------------------------------------------------
(* What a workload starts under *)

IsolatedSet == {s \in Sandboxes : Firewalled(s)}
AttestedSet == IF Armed THEN {bound} ELSE {}

\* neither a firewall nor the workload nor the attestation changes
Quiet == UNCHANGED <<firewall, strayed, started>> /\ AttestedSet' = AttestedSet

LEMMA QuietStep ==
    ASSUME Quiet
    PROVE  UNCHANGED Promise!vars
  BY DEF Quiet, AttestedSet, Armed, Firewalled, Policy, Sandboxes, Promise!vars

LEMMA GateIsQuiet ==
    ASSUME IInv, UNCHANGED observerVars,
           \/ PassStep \/ KubeletStep \/ GateFaults \/ PollingEnds \/ CoordinatorDies
           \/ \E h \in Helpers : HelperPlans(h) \/ HelperVerifies(h)
           \/ Probed(FALSE)
    PROVE  Quiet
  <1>1. UNCHANGED <<firewall, strayed, started>>
    BY DEF PassStep, KubeletStep, GateFaults, PollingEnds, CoordinatorDies, HelperPlans,
       HelperVerifies, Exit, Ends, Probed, PassMoves, PassBegins, ReadRequest, ListSandbox,
          BindCollector,
       Reread, Release, NewSandbox, InitSends, InitPublishes, InitPasses, SandboxLost,
       InitRetries, InitDeadline, HelperAbandoned, LatePublish, LateRelease, HelperKilled
  <1>2. bound' = bound \/ BindCollector
    BY DEF PassStep, KubeletStep, GateFaults, PollingEnds, CoordinatorDies, HelperPlans,
       HelperVerifies, Exit, Ends, Probed, PassMoves, PassBegins, ReadRequest, ListSandbox,
       Reread, Release, NewSandbox, InitSends, InitPublishes, InitPasses, SandboxLost,
       InitRetries, InitDeadline, HelperAbandoned, LatePublish, LateRelease, HelperKilled
  <1>3. Armed => bound # 0
    BY DEF IInv, Observed, Excluded, Unarmed, Early, Gated, Followed
  <1>4. Armed => bound' = bound
    BY <1>2, <1>3 DEF BindCollector
  <1>5. Armed' = Armed
    BY DEF observerVars, Armed
  <1> QED
    BY <1>1, <1>4, <1>5 DEF Quiet, AttestedSet

\* the observer's side attests only by Arm
LEMMA ObserverIsQuiet ==
    ASSUME IInv, UNCHANGED <<firewall, strayed, started, bound>>,
           \/ MakeLock \/ TakeLock \/ MakeSpool \/ InstallWatch(Holding)
           \/ ReadEvent \/ Drain \/ Copy \/ List \/ InspectWorkspace \/ Digest \/ Judge
           \/ FinishWithGap \/ CollectorTimeout \/ RuntimeStep \/ ObserverFaults \/ CollectorStarts
           \/ ReaderLeftBehind
           \/ \E r \in Readers : \/ \E mode \in {"ready", "result"} : ReadLock(r, mode)
                                 \/ ReadEnds(r)
    PROVE  Quiet
  <1>1. \/ private' \in {private, private \cup {"lock"}, private \cup {"spool"}}
        \/ collector = "none" /\ private' = {"dir"}
    BY DEF MakeLock, TakeLock, MakeSpool, InstallWatch, ReadEvent, Drain, Copy, List,
       InspectWorkspace, Digest, Judge, FinishWithGap, WriteResult, Gone, CollectorTimeout,
          RuntimeStep,
       LogWritten, LogClosed, GuardWipes, GuardExits, ObserverFaults, LogRotated, VolumeGone,
       CollectorFails, CollectorKilled, LogTruncated, CollectorStarts, ReaderLeftBehind,
       ReadLock, ReadEnds
  <1>2. collector = "none" => ~Armed
    BY DEF IInv, Observed, Excluded, Unarmed, Early
  <1>3. Armed' <=> Armed
    BY <1>1, <1>2 DEF Armed
  <1> QED
    BY <1>3 DEF Quiet, AttestedSet

\* a command of the policy: the firewall becomes complete, or stays as it was
LEMMA ApplyStep ==
    ASSUME IInv, NEW h \in Helpers, HelperApplies(h) \/ ChildApplies(h), UNCHANGED observerVars
    PROVE  [Promise!Next]_(Promise!vars)
  <1> DEFINE s == helpers[h].sandbox
             c == Head(helpers[h].plan)
  <1>1. /\ s \in Sandboxes /\ c \in 1..Commands
        /\ firewall' = [firewall EXCEPT ![s] = Append(firewall[s], c)]
        /\ strayed' \in {strayed, strayed \cup {s}} /\ (firewall[s] = Policy => s \in strayed')
        /\ bound' = bound /\ started' = started
    BY GrowsOnce DEF IInv
  <1> HIDE DEF s, c
  <1>2. /\ \A t \in Sandboxes : Firewalled(t) => Firewalled(t)'
        /\ \A t \in Sandboxes \ {s} : Firewalled(t)' => Firewalled(t)
    BY <1>1, GrowKeeps DEF IInv, Gated
  <1>3. IsolatedSet' \in {IsolatedSet, IsolatedSet \cup {s}}
    BY <1>1, <1>2 DEF IsolatedSet, Sandboxes
  <1>4. AttestedSet' = AttestedSet /\ started' = started
    BY <1>1 DEF AttestedSet, Armed, observerVars
  <1> QED
    BY <1>1, <1>3, <1>4
       DEF IsolatedSet, AttestedSet, Armed, Promise!Next, Promise!Isolate, Promise!vars

\* armed.json: the one sandbox of the ledger's request is attested
LEMMA ArmStep ==
    ASSUME IInv, Arm(Holding), UNCHANGED gateVars
    PROVE  [Promise!Next]_(Promise!vars)
  <1>1. /\ collector = "watching" /\ private' \in {private, private \cup {"armed"}}
        /\ UNCHANGED <<firewall, strayed, started, bound>>
    BY DEF Arm, CollectorAt, gateVars
  <1>2. ~Armed /\ bound # 0 /\ Firewalled(bound) /\ bound \in 0..MaxSandboxes
    BY <1>1 DEF IInv, Observed, Excluded, Unarmed, Gated, Followed, GateTypeOK
  <1>3. bound \in Sandboxes
    BY <1>2, GateAssumption DEF Sandboxes
  <1>4. IsolatedSet' = IsolatedSet /\ bound \in IsolatedSet
    BY <1>1, <1>2, <1>3 DEF IsolatedSet, Sandboxes, Firewalled, Policy
  <1>5. AttestedSet = {} /\ AttestedSet' \in {{}, {bound}}
    BY <1>1, <1>2 DEF AttestedSet, Armed
  <1> QED
    BY <1>1, <1>3, <1>4, <1>5
       DEF IsolatedSet, AttestedSet, Armed, Promise!Next, Promise!Attest, Promise!vars

\* the init container passed: its sandbox is bound, complete and attested
LEMMA StartStep ==
    ASSUME IInv, StartWorkload
    PROVE  Promise!Next
  <1>1. /\ init = "passed" /\ started = {} /\ started' = {sandbox}
        /\ UNCHANGED <<firewall, strayed, bound, private>>
    BY DEF StartWorkload, WorkloadStarts, GuardStarts
  <1>2. Armed /\ bound = sandbox /\ sandbox # 0 /\ sandbox \in 0..MaxSandboxes
    BY <1>1 DEF IInv, Gated, Opened, Watched, Numbered, GateTypeOK
  <1>3. sandbox \in Sandboxes /\ Firewalled(sandbox)
    BY <1>2, GateAssumption DEF Sandboxes, IInv, Gated, Followed
  <1>4. IsolatedSet' = IsolatedSet /\ sandbox \in IsolatedSet
    BY <1>1, <1>3 DEF IsolatedSet, Sandboxes, Firewalled, Policy
  <1>5. AttestedSet' = AttestedSet /\ sandbox \in AttestedSet
    BY <1>1, <1>2 DEF AttestedSet, Armed
  <1> QED
    BY <1>1, <1>3, <1>4, <1>5
       DEF IsolatedSet, AttestedSet, Armed, Promise!Next, Promise!Start

LEMMA PromiseStep ==
    ASSUME IInv, [Next]_vars
    PROVE  [Promise!Next]_(Promise!vars)
  <1>1. CASE Pass \/ Kubelet \/ StopPolling \/ (GateFaults /\ UNCHANGED observerVars)
    BY <1>1, GateIsQuiet, QuietStep DEF Pass, Kubelet, StopPolling
  <1>2. ASSUME NEW h \in Helpers, Helper(h)
        PROVE  [Promise!Next]_(Promise!vars)
    <2>1. CASE HelperApplies(h) \/ ChildApplies(h)
      BY <1>2, <2>1, ApplyStep DEF Helper
    <2>2. CASE HelperPlans(h) \/ HelperVerifies(h)
      BY <1>2, <2>2, GateIsQuiet, QuietStep DEF Helper
    <2> QED
      BY <1>2, <2>1, <2>2 DEF Helper, HelperStep
  <1>3. CASE Collecting
    <2>1. UNCHANGED gateVars /\ UNCHANGED <<firewall, strayed, started, bound>>
      BY <1>3 DEF Collecting, gateVars
    <2>2. CASE Arm(Holding)
      BY <2>1, <2>2, ArmStep
    <2>3. CASE ~Arm(Holding)
      BY <1>3, <2>1, <2>3, ObserverIsQuiet, QuietStep DEF Collecting, CollectorStep
    <2> QED
      BY <2>2, <2>3
  <1>4. CASE Timeout \/ Runtime \/ ResultBegins \/ ResultEnds \/ OrphanEnds
             \/ (ObserverFaults /\ UNCHANGED gateVars)
    <2>1. UNCHANGED <<firewall, strayed, started, bound>>
      BY <1>4 DEF Timeout, Runtime, ResultBegins, ResultEnds, OrphanEnds, gateVars
    <2> QED
      BY <1>4, <2>1, ObserverIsQuiet, QuietStep
         DEF Timeout, Runtime, ResultBegins, ResultEnds, OrphanEnds, Readers
  <1>5. CASE ProbeBegins
    <2>1. CASE ReadLock("live", "ready") /\ UNCHANGED gateVars
      BY <2>1, ObserverIsQuiet, QuietStep DEF Readers, gateVars
    <2>2. CASE Probed(FALSE) /\ UNCHANGED observerVars
      BY <2>2, GateIsQuiet, QuietStep
    <2> QED
      BY <1>5, <2>1, <2>2 DEF ProbeBegins
  <1>6. CASE ProbeEnds \/ AskCollector
    <2>1. UNCHANGED <<firewall, strayed, started, bound>>
      BY <1>6 DEF ProbeEnds, AskCollector, Probed, CollectorAsked, PassMoves
    <2> QED
      BY <1>6, <2>1, ObserverIsQuiet, QuietStep DEF ProbeEnds, AskCollector, Readers
  <1>7. CASE StartWorkload
    BY <1>7, StartStep
  <1>8. CASE Crash
    <2>1. UNCHANGED <<firewall, strayed, started, bound>>
      BY <1>8 DEF Crash, CoordinatorDies
    <2> QED
      BY <1>8, <2>1, GateIsQuiet, ObserverIsQuiet, QuietStep DEF Crash
  <1>9. CASE ProbeAbandoned
    <2>1. UNCHANGED <<firewall, strayed, started, bound>>
      BY <1>9 DEF ProbeAbandoned, ProbeGivenUp
    <2> QED
      BY <1>9, <2>1, ObserverIsQuiet, QuietStep DEF ProbeAbandoned
  <1>10. CASE UNCHANGED vars
    <2>1. Quiet
      BY <1>10 DEF Quiet, AttestedSet, Armed, vars, gateVars, observerVars
    <2> QED
      BY <2>1, QuietStep
  <1> QED
    BY <1>1, <1>2, <1>3, <1>4, <1>5, <1>6, <1>7, <1>8, <1>9, <1>10 DEF Next, Probe

\* The nonce handshake, netgate's append-only plan and the collector's armed.json
\* implement Isolation: ensureGateWith releases a sandbox's own nonce only with its
\* firewall complete and its log watched, whichever coordinator, helper, sandbox or
\* PATCH is lost, late or left over from an earlier sandbox.
THEOREM WorkloadsStartIsolated == Spec => StartsIsolated
  <1>1. Init => Promise!Init
    <2> SUFFICES ASSUME Init PROVE Promise!Init
      OBVIOUS
    <2>1. /\ firewall = [s \in Sandboxes |-> <<>>] /\ strayed = {}
          /\ private = {} /\ started = {}
      BY DEF Init, GateInit, ObserverInit
    <2>2. Policy # <<>>
      BY PolicyFacts, EmptySeq, GateAssumption
    <2> QED
      BY <2>1, <2>2 DEF Promise!Init, Firewalled
  <1>2. IInv /\ [Next]_vars => [Promise!Next]_(Promise!vars)
    BY PromiseStep
  <1> QED
    BY <1>1, <1>2, SpecInv, PTL DEF Spec, StartsIsolated, Promise!Spec

\* Collect writes result.json at its end, holding the flock since before the spool
\* existed; Read writes a gap only holding the flock and finding no result.  So the
\* two never replace each other's verdict.
THEOREM VerdictStands == Spec => ResultStands
  <1>1. IInv /\ [Next]_vars => [result = NoResult]_result
    <2> SUFFICES ASSUME IInv, [Next]_vars, result' # result
                 PROVE  result = NoResult
      OBVIOUS
    <2>1. Judge \/ FinishWithGap \/ ReadEnds("live") \/ ReadEnds("orphan")
      <3> USE DEF observerVars, ownVars, hostVars
      <3>1. ~UNCHANGED observerVars
        OBVIOUS
      <3>2. \/ CollectorStep(Holding) \/ CollectorTimeout \/ RuntimeStep \/ ObserverFaults
            \/ GuardStarts \/ CollectorStarts \/ ReaderLeftBehind
            \/ \E mode \in {"ready", "result"} : ReadLock("live", mode)
            \/ ReadEnds("live") \/ ReadEnds("orphan")
        BY <3>1 DEF Next, Pass, Probe, ProbeBegins, ProbeEnds, AskCollector, Kubelet,
           StartWorkload, Collecting, Timeout, Runtime, ResultBegins, ResultEnds, OrphanEnds,
           Crash, ProbeAbandoned, StopPolling, Helper, vars
      <3> QED
        BY <3>2 DEF CollectorStep, CollectorAt, MakeLock, TakeLock, MakeSpool, InstallWatch, Arm,
           ReadEvent, Drain, Copy, List, InspectWorkspace, Digest, CollectorTimeout, RuntimeStep,
           LogWritten, LogClosed, GuardWipes, GuardExits, ObserverFaults, LogRotated,
           VolumeGone, CollectorFails, CollectorKilled, LogTruncated, GuardStarts,
           CollectorStarts, ReaderLeftBehind, ReadLock
    <2>2. CASE Judge \/ FinishWithGap
      BY <2>2 DEF Judge, FinishWithGap, IInv, Observed, Excluded, Working, Closing
    <2>3. CASE ReadEnds("live") \/ ReadEnds("orphan")
      BY <2>3 DEF ReadEnds
    <2> QED
      BY <2>1, <2>2, <2>3
  <1> QED
    BY <1>1, SpecInv, PTL DEF Spec, ResultStands

----------------------------------------------------------------------------
(* The log and its copy: a second invariant, inductive given the first *)

Events == {"create", "modify", "close", "moved", "overflow"}
Holds(q, event) == \E i \in 1..Len(q) : q[i] = event
Upto(n) == [i \in 1..n |-> i]
Watching == Looping \cup Closing

LogRecs == [gen : 0..2, data : [1..2 -> Seq(Nat)], open : BOOLEAN]

LogTyped ==
    /\ log \in LogRecs
    /\ queue \in Seq(Events) /\ written \in Nat /\ spool \in Seq(Nat) /\ raw \in 0..2
    /\ watch \in [created : BOOLEAN, closed : BOOLEAN, problem : BOOLEAN]

(* The guard, its log file and what the watch has to tell begin together. *)
Begun ==
    /\ guard = "none" => log.gen = 0
    /\ log.gen = 0 => queue = <<>> /\ watch = NoWatch /\ ~log.open
    /\ raw <= log.gen

(* The watch misses nothing while the collector loops: the writer's close was *)
(* the last thing that happened to the log, a rotation is known or still      *)
(* queued, and once the digests agreed the log has not changed.               *)
Told ==
    /\ watch.closed \/ Holds(queue, "close") => ~log.open
    /\ log.gen = 2 => watch.problem \/ Holds(queue, "moved") \/ Holds(queue, "overflow")
    /\ collector \in Closing => watch.closed \/ watch.problem
    /\ collector = "drain3" => raw # 0 /\ (watch.problem \/ log.data[raw] = spool)

(* Without a cut ahead of the copy, log and spool hold what was written so    *)
(* far, or the spool has a chunk that the log has lost and never gets back.   *)
Copied ==
    \/ /\ log.data[1] = Upto(written) /\ spool = Upto(Len(spool))
       /\ Len(spool) <= written
    \/ \E j \in 1..Len(spool) :
         spool[j] \in 1..written /\ ~Holds(log.data[1], spool[j])

Judged ==
    result.logs = "verified" =>
      /\ guard = "exited" /\ ~log.open /\ log.gen = 1
      /\ ~cut => spool = Upto(written)

LInv ==
    /\ LogTyped /\ Begun /\ Judged
    /\ collector \in Watching => Told
    /\ log.gen # 2 /\ ~cut => Copied

\* what is queued stays queued, and the event is queued or the loss of some is
LEMMA NotifiedFacts ==
    ASSUME queue \in Seq(Events), NEW event \in Events
    PROVE  /\ Notified(event) \in Seq(Events)
           /\ \A x : Holds(queue, x) => Holds(Notified(event), x)
           /\ \A x : Holds(Notified(event), x) =>
                Holds(queue, x) \/ x = event \/ x = "overflow"
           /\ collector \in Watching =>
                Holds(Notified(event), event) \/ Holds(Notified(event), "overflow")
  <1>1. CASE Notified(event) = queue
    <2>1. collector \in Watching =>
            queue # <<>> /\ (Last(queue) = event \/ Last(queue) = "overflow")
      <3>1. Append(queue, event) # queue /\ Append(queue, "overflow") # queue
        OBVIOUS
      <3> QED
        BY <1>1, <3>1 DEF Notified, Watching
    <2>2. queue # <<>> => Len(queue) \in 1..Len(queue) /\ Last(queue) = queue[Len(queue)]
      BY DEF Last
    <2> QED
      BY <1>1, <2>1, <2>2 DEF Holds
  <1>2. ASSUME NEW e \in {event, "overflow"}, Notified(event) = Append(queue, e)
        PROVE  /\ Notified(event) \in Seq(Events)
               /\ \A x : Holds(queue, x) => Holds(Notified(event), x)
               /\ \A x : Holds(Notified(event), x) => Holds(queue, x) \/ x = e
               /\ Holds(Notified(event), e)
    <2>1. e \in Events
      BY DEF Events
    <2>2. /\ Append(queue, e) \in Seq(Events) /\ Len(Append(queue, e)) = Len(queue) + 1
          /\ \A i \in 1..Len(queue) : Append(queue, e)[i] = queue[i]
          /\ Append(queue, e)[Len(queue) + 1] = e /\ Len(queue) \in Nat
      BY <2>1
    <2> DEFINE q == Append(queue, e)
               n == Len(queue)
    <2> HIDE DEF q
    <2>3. \A i \in 1..Len(q) : i \in 1..n \/ i = n + 1
      BY <2>2 DEF q
    <2>4. 1..n \subseteq 1..Len(q) /\ n + 1 \in 1..Len(q)
      BY <2>2 DEF q
    <2> HIDE DEF n
    <2> QED
      BY <1>2, <2>2, <2>3, <2>4 DEF Holds, q, n
  <1>3. \/ Notified(event) = queue
        \/ \E e \in {event, "overflow"} : Notified(event) = Append(queue, e)
    BY DEF Notified
  <1> QED
    BY <1>1, <1>2, <1>3

LEMMA QueueFacts ==
    ASSUME queue \in Seq(Events), queue # <<>>
    PROVE  /\ Head(queue) \in Events /\ Tail(queue) \in Seq(Events)
           /\ \A x : Holds(queue, x) => x = Head(queue) \/ Holds(Tail(queue), x)
           /\ \A x : Holds(Tail(queue), x) => Holds(queue, x)
           /\ Holds(queue, Head(queue))
  <1> DEFINE n == Len(queue)
             t == Tail(queue)
  <1>1. /\ n \in Nat \ {0} /\ Head(queue) = queue[1] /\ Head(queue) \in Events
        /\ t \in Seq(Events) /\ Len(t) = n - 1
        /\ \A i \in 1..Len(t) : t[i] = queue[i + 1]
    OBVIOUS
  <1> HIDE DEF t, n
  <1>2. ASSUME NEW x, NEW i \in 1..n, queue[i] = x
        PROVE  x = Head(queue) \/ Holds(t, x)
    <2>1. CASE i = 1
      BY <1>1, <1>2, <2>1
    <2>2. CASE i # 1
      <3>1. i - 1 \in 1..Len(t) /\ (i - 1) + 1 = i
        BY <1>1, <2>2
      <3> QED
        BY <1>1, <1>2, <3>1 DEF Holds
    <2> QED
      BY <2>1, <2>2
  <1>3. ASSUME NEW x, NEW i \in 1..Len(t), t[i] = x
        PROVE  Holds(queue, x)
    <2>1. i + 1 \in 1..n
      BY <1>1
    <2> QED
      BY <1>1, <1>3, <2>1 DEF Holds, n
  <1>4. 1 \in 1..n
    BY <1>1
  <1> QED
    BY <1>1, <1>2, <1>3, <1>4 DEF Holds, t, n

Watches == [created : BOOLEAN, closed : BOOLEAN, problem : BOOLEAN]

\* a close and a problem are not forgotten, a rotation and a loss are problems
LEMMA EventFacts ==
    ASSUME NEW w \in Watches, NEW event \in Events
    PROVE  /\ Event(w, event) \in Watches
           /\ w.problem => Event(w, event).problem
           /\ w.closed => Event(w, event).closed
           /\ Event(w, event).closed => w.closed \/ event = "close"
           /\ event \in {"moved", "overflow"} => Event(w, event).problem
  <1>1. Event(w, event) \in {w, [w EXCEPT !.created = TRUE], [w EXCEPT !.problem = TRUE]}
        \/ (event = "close" /\ Event(w, event) = [w EXCEPT !.closed = TRUE])
    BY Zenon DEF Event
  <1>2. event \in {"moved", "overflow"} => Event(w, event) = [w EXCEPT !.problem = TRUE]
    BY DEF Event
  <1>3. /\ w.problem => Event(w, event).problem
        /\ w.closed => Event(w, event).closed
        /\ Event(w, event).closed => w.closed \/ event = "close"
        /\ event \in {"moved", "overflow"} => Event(w, event).problem
    BY <1>1, <1>2 DEF Watches
  <1>4. Event(w, event) \in Watches
    BY <1>1, ZenonT(30) DEF Watches
  <1> QED
    BY <1>3, <1>4

\* steps that neither touch the log nor read about it
LEMMA RestInv ==
    ASSUME LInv, UNCHANGED <<log, queue, written, cut, watch, raw, spool>>,
           guard' = guard \/ (guard # "none" /\ guard' = "exited"),
           result' = result \/ result'.logs # "verified",
           collector' \in Watching => collector \in Watching \/ log.gen = 0,
           collector' \in Closing => collector \in Closing \/ watch.closed \/ watch.problem,
           collector' = "drain3" => collector = "drain3"
    PROVE  LInv'
  <1>1. LogTyped' /\ Begun' /\ Judged'
    BY DEF LInv, LogTyped, Begun, Judged, Upto
  <1>2. collector' \in Watching => Told'
    <2> SUFFICES ASSUME collector' \in Watching PROVE Told'
      OBVIOUS
    <2>1. collector = "drain3" => collector \in Watching
      BY DEF Watching, Closing
    <2>2. ~Holds(<<>>, "close")
      BY DEF Holds
    <2>3. log.gen = 0 => watch.closed = FALSE /\ ~Holds(queue, "close")
      BY <2>2 DEF LInv, Begun, NoWatch
    <2> QED
      BY <2>1, <2>3 DEF LInv, Told, Holds, Watching
  <1>3. log'.gen # 2 /\ ~cut' => Copied'
    BY DEF LInv, Copied, Upto, Holds
  <1> QED
    BY <1>1, <1>2, <1>3 DEF LInv

\* the fields of the log, one by one
LEMMA LogFields ==
    ASSUME LInv
    PROVE  /\ log.gen \in 0..2 /\ log.open \in BOOLEAN
           /\ log.data \in [1..2 -> Seq(Nat)] /\ log.data[1] \in Seq(Nat)
           /\ watch.closed \in BOOLEAN /\ watch.problem \in BOOLEAN
           /\ ~Holds(<<>>, "close")
  BY DEF LInv, LogTyped, LogRecs, Holds

LEMMA StartLogInv ==
    ASSUME LInv, GuardStarts
    PROVE  LInv'
  <1>1. /\ log.gen = 0 /\ queue = <<>> /\ watch = NoWatch /\ ~log.open /\ raw = 0
    BY DEF LInv, LogTyped, Begun, GuardStarts
  <1>2. /\ log' = [log EXCEPT !.gen = 1, !.open = TRUE] /\ queue' = Notified("create")
        /\ guard' = "running"
        /\ UNCHANGED <<result, collector, watch, raw, spool, written, cut>>
    BY DEF GuardStarts, ownVars
  <1>3. "create" \in Events /\ queue \in Seq(Events)
    BY DEF Events, LInv, LogTyped
  <1>4. queue' \in Seq(Events) /\ (Holds(queue', "close") => Holds(queue, "close"))
    BY <1>2, <1>3, NotifiedFacts
  <1>5. /\ log'.gen = 1 /\ log'.data = log.data /\ log'.open = TRUE
        /\ log' \in LogRecs
    <2> DEFINE seqs == [1..2 -> Seq(Nat)]
    <2>1. log \in [gen : 0..2, data : seqs, open : BOOLEAN]
      BY DEF LInv, LogTyped, LogRecs
    <2>2. 1 \in 0..2
      OBVIOUS
    <2> HIDE DEF seqs
    <2>3. log'.gen = 1 /\ log'.data = log.data /\ log'.open = TRUE
      BY <1>2, <2>1
    <2>4. log' \in [gen : 0..2, data : seqs, open : BOOLEAN]
      BY <1>2, <2>1, <2>2
    <2> QED
      BY <2>3, <2>4 DEF LogRecs, seqs
  <1>6. LogTyped' /\ Begun' /\ Judged'
    <2>1. LogTyped'
      BY <1>2, <1>4, <1>5 DEF LInv, LogTyped
    <2>2. Begun' /\ Judged'
      BY <1>1, <1>2, <1>5 DEF LInv, Begun, Judged
    <2> QED
      BY <2>1, <2>2
  <1>7. collector' \in Watching => Told'
    <2> SUFFICES ASSUME collector \in Watching PROVE Told'
      BY <1>2
    <2>1. watch.closed = FALSE /\ watch.problem = FALSE /\ ~Holds(queue, "close")
      BY <1>1, LogFields DEF NoWatch
    <2>2. collector \notin Closing /\ collector # "drain3"
      BY <2>1 DEF LInv, Told, Closing
    <2> QED
      BY <1>2, <1>4, <1>5, <2>1, <2>2 DEF Told
  <1>8. log'.gen # 2 /\ ~cut' => Copied'
    BY <1>1, <1>2, <1>5 DEF LInv, Copied
  <1> QED
    BY <1>6, <1>7, <1>8 DEF LInv

LEMMA ReadEventInv ==
    ASSUME LInv, ReadEvent
    PROVE  LInv'
  <1>1. /\ collector \in Watching /\ queue # <<>>
        /\ watch' = Event(watch, Head(queue)) /\ queue' = Tail(queue)
        /\ UNCHANGED <<result, collector, raw, spool, guard, log, written, cut>>
    BY DEF ReadEvent, AfterDrain, Watching, Looping, Closing
  <1>2. queue \in Seq(Events) /\ watch \in Watches
    BY DEF LInv, LogTyped, Watches
  <1>3. /\ Head(queue) \in Events /\ queue' \in Seq(Events)
        /\ \A x : Holds(queue, x) => x = Head(queue) \/ Holds(queue', x)
        /\ \A x : Holds(queue', x) => Holds(queue, x)
        /\ Holds(queue, Head(queue))
    BY <1>1, <1>2, QueueFacts
  <1>4. /\ watch' \in Watches
        /\ watch.problem => watch'.problem
        /\ watch.closed => watch'.closed
        /\ watch'.closed => watch.closed \/ Head(queue) = "close"
        /\ Head(queue) \in {"moved", "overflow"} => watch'.problem
    BY <1>1, <1>2, <1>3, EventFacts
  <1>5. LogTyped'
    BY <1>1, <1>3, <1>4 DEF LInv, LogTyped, Watches
  <1>6. Begun' /\ Judged'
    BY <1>1 DEF LInv, Begun, Judged
  <1>7. Told'
    BY <1>1, <1>3, <1>4 DEF LInv, Told
  <1>8. log'.gen # 2 /\ ~cut' => Copied'
    BY <1>1 DEF LInv, Copied
  <1> QED
    BY <1>5, <1>6, <1>7, <1>8 DEF LInv

\* the watch with or without a problem noticed
LEMMA ProblemFacts ==
    ASSUME NEW w \in Watches
    PROVE  /\ [w EXCEPT !.problem = TRUE] \in Watches
           /\ [w EXCEPT !.problem = TRUE].problem
           /\ [w EXCEPT !.problem = TRUE].closed = w.closed
  BY DEF Watches

LEMMA DigestInv ==
    ASSUME LInv, Digest
    PROVE  LInv'
  <1>1. /\ collector = "digest" /\ collector' \in {"finish", "drain3"}
        /\ collector' = "drain3" => raw # 0
        /\ watch' = IF raw # 0 /\ (log.data[raw] # spool \/ Size(raw) > MaxLogs)
                    THEN [watch EXCEPT !.problem = TRUE] ELSE watch
        /\ UNCHANGED <<result, raw, spool, guard, log, queue, written, cut>>
    BY DEF Digest, CollectorAt, hostVars
  <1>2. watch \in Watches
    BY DEF LInv, LogTyped, Watches
  <1>3. /\ watch' \in Watches /\ watch'.closed = watch.closed
        /\ watch.problem => watch'.problem
        /\ raw # 0 => watch'.problem \/ log.data[raw] = spool
        /\ raw = 0 => watch' = watch
    BY <1>1, <1>2, ProblemFacts
  <1>4. LogTyped'
    BY <1>1, <1>3 DEF LInv, LogTyped, Watches
  <1>5. Begun' /\ Judged'
    BY <1>1, <1>3 DEF LInv, LogTyped, Begun, Judged
  <1>6. Told /\ collector \in Closing
    BY <1>1 DEF LInv, Watching, Closing
  <1>7. collector' = "drain3" => Told'
    BY <1>1, <1>3, <1>6 DEF Told
  <1>8. log'.gen # 2 /\ ~cut' => Copied'
    BY <1>1 DEF LInv, Copied
  <1> QED
    BY <1>1, <1>4, <1>5, <1>7, <1>8 DEF LInv, Watching, Looping, Closing

\* the verdict: closed and unrotated, source and copy equal, so the copy is complete
LEMMA EndInv ==
    ASSUME IInv, LInv, Judge \/ FinishWithGap \/ CollectorKilled
    PROVE  LInv'
  <1>1. /\ collector' \in {"done", "dead"} /\ watch' = NoWatch /\ raw' = 0 /\ queue' = <<>>
        /\ UNCHANGED <<spool, guard, log, written, cut>>
    BY DEF Judge, FinishWithGap, CollectorKilled, WriteResult, Gone
  <1>2. LogTyped' /\ Begun'
    <2>1. NoWatch \in Watches
      BY DEF NoWatch, Watches
    <2>2. LogTyped'
      BY <1>1, <2>1 DEF LInv, LogTyped, Watches
    <2> QED
      BY <1>1, <2>2, LogFields DEF LInv, Begun
  <1>3. log'.gen # 2 /\ ~cut' => Copied'
    BY <1>1 DEF LInv, Copied
  <1>4. result' = result \/ result'.logs = "unobservable"
        \/ (collector = "drain3" /\ queue = <<>> /\ ~watch.problem)
    BY DEF Judge, FinishWithGap, CollectorKilled, WriteResult
  <1>5. ASSUME collector = "drain3", queue = <<>>, ~watch.problem
        PROVE  /\ guard = "exited" /\ ~log.open /\ log.gen = 1
               /\ ~cut => spool = Upto(written)
    <2>1. Told /\ collector \in Closing
      BY <1>5 DEF LInv, Watching, Closing
    <2>2. guard = "exited"
      BY <2>1 DEF IInv, Observed, Inspected
    <2>3. ~log.open /\ log.gen # 2 /\ raw # 0 /\ log.data[raw] = spool
      BY <1>5, <2>1 DEF Told, Holds
    <2>4. log.gen = 1 /\ raw = 1
      BY <2>3, LogFields DEF LInv, LogTyped, Begun
    <2>5. ASSUME ~cut PROVE spool = Upto(written)
      <3>1. Copied
        BY <2>4, <2>5 DEF LInv
      <3>2. ~\E j \in 1..Len(spool) : ~Holds(log.data[1], spool[j])
        BY <2>3, <2>4 DEF Holds
      <3> QED
        BY <2>3, <2>4, <3>1, <3>2 DEF Copied
    <2> QED
      BY <2>2, <2>3, <2>4, <2>5
  <1>6. Judged'
    BY <1>1, <1>4, <1>5 DEF LInv, Judged
  <1> QED
    BY <1>1, <1>2, <1>3, <1>6 DEF LInv, Watching, Looping, Closing

\* the writer has the log open: nobody was told of a close, nothing is judged yet
LEMMA OpenInv ==
    ASSUME LInv, log.open, NEW event \in {"modify", "moved"}, queue' = Notified(event),
           UNCHANGED <<result, collector, watch, raw, spool>>,
           log'.gen = 2 => log.gen = 2 \/ event = "moved"
    PROVE  queue' \in Seq(Events) /\ Judged' /\ (collector' \in Watching => Told')
  <1>1. event \in Events /\ queue \in Seq(Events)
    BY DEF Events, LInv, LogTyped
  <1>2. /\ queue' \in Seq(Events)
        /\ \A x : Holds(queue, x) => Holds(queue', x)
        /\ Holds(queue', "close") => Holds(queue, "close")
        /\ collector \in Watching => Holds(queue', event) \/ Holds(queue', "overflow")
    BY <1>1, NotifiedFacts
  <1>3. Judged'
    BY DEF LInv, Judged
  <1>4. ASSUME collector \in Watching PROVE Told'
    <2>1. ~watch.closed /\ ~Holds(queue, "close")
      BY <1>4 DEF LInv, Told
    <2>2. collector \in Closing => watch.problem
      BY <1>4, <2>1 DEF LInv, Told
    <2>3. collector = "drain3" => raw # 0 /\ watch.problem
      BY <1>4, <2>2 DEF LInv, Told, Closing
    <2>4. log'.gen = 2 =>
            watch.problem \/ Holds(queue', "moved") \/ Holds(queue', "overflow")
      BY <1>2, <1>4 DEF LInv, Told
    <2> QED
      BY <1>2, <2>1, <2>2, <2>3, <2>4 DEF Told
  <1> QED
    BY <1>2, <1>3, <1>4

\* the current file's contents replaced
LEMMA EditFacts ==
    ASSUME LInv, log.open, NEW s \in Seq(Nat), log' = [log EXCEPT !.data[log.gen] = s]
    PROVE  /\ log' \in LogRecs /\ log.gen \in 1..2
           /\ log'.gen = log.gen /\ log'.open = log.open
           /\ log.gen = 1 => log'.data[1] = s
  <1> DEFINE seqs == [1..2 -> Seq(Nat)]
             d == [log.data EXCEPT ![log.gen] = s]
  <1>1. log \in [gen : 0..2, data : seqs, open : BOOLEAN]
    BY DEF LInv, LogTyped, LogRecs
  <1>2. log.gen \in 1..2
    BY LogFields DEF LInv, Begun
  <1>3. d \in seqs /\ (log.gen = 1 => d[1] = s)
    BY <1>2, LogFields
  <1>4. log' = [log EXCEPT !.data = d]
    OBVIOUS
  <1> HIDE DEF seqs, d
  <1>5. log'.gen = log.gen /\ log'.data = d /\ log'.open = log.open
    BY <1>1, <1>4
  <1>6. log' \in [gen : 0..2, data : seqs, open : BOOLEAN]
    BY <1>1, <1>3, <1>4
  <1> QED
    BY <1>2, <1>3, <1>5, <1>6 DEF LogRecs, seqs

LEMMA WrittenInv ==
    ASSUME LInv, LogWritten
    PROVE  LInv'
  <1> DEFINE s == Append(log.data[log.gen], written + 1)
  <1>1. /\ log.open /\ written' = written + 1 /\ queue' = Notified("modify")
        /\ log' = [log EXCEPT !.data[log.gen] = s]
        /\ UNCHANGED <<result, collector, watch, raw, spool, guard, cut>>
    BY DEF LogWritten, ownVars
  <1>2. written \in Nat /\ spool \in Seq(Nat)
    BY DEF LInv, LogTyped
  <1>3. log.gen \in 1..2 /\ s \in Seq(Nat)
    <2>1. log.gen \in 1..2
      BY <1>1, LogFields DEF LInv, Begun
    <2>2. log.data[log.gen] \in Seq(Nat) /\ written + 1 \in Nat
      BY <1>2, <2>1, LogFields
    <2> QED
      BY <2>1, <2>2
  <1> HIDE DEF s
  <1>4. /\ log' \in LogRecs /\ log'.gen = log.gen /\ log'.open = log.open
        /\ log.gen = 1 => log'.data[1] = s
    BY <1>1, <1>3, EditFacts
  <1>5. queue' \in Seq(Events) /\ Judged' /\ (collector' \in Watching => Told')
    BY <1>1, <1>4, OpenInv
  <1>6. LogTyped'
    BY <1>1, <1>2, <1>4, <1>5 DEF LInv, LogTyped
  <1>7. Begun'
    BY <1>1, <1>3, <1>4 DEF LInv, Begun
  <1>8. ASSUME log.gen # 2, ~cut PROVE Copied'
    <2> DEFINE n == written
               old == log.data[1]
    <2>1. log.gen = 1 /\ s = Append(old, n + 1) /\ old \in Seq(Nat) /\ n \in Nat
      BY <1>2, <1>3, <1>8, LogFields DEF s
    <2>2. log'.data[1] = s /\ written' = n + 1 /\ spool' = spool
      BY <1>1, <1>4, <2>1
    <2>3. CASE old = Upto(n) /\ spool = Upto(Len(spool)) /\ Len(spool) <= n
      <3>1. Upto(n) \in Seq(Nat) /\ Len(Upto(n)) = n
        BY <2>1 DEF Upto
      <3>2. Append(Upto(n), n + 1) = Upto(n + 1)
        BY <2>1, <3>1, SMTT(20) DEF Upto
      <3>3. Len(spool) <= n + 1
        BY <1>2, <2>1, <2>3
      <3> QED
        BY <2>1, <2>2, <2>3, <3>2, <3>3 DEF Copied
    <2>4. ASSUME NEW j \in 1..Len(spool), spool[j] \in 1..n, ~Holds(old, spool[j])
          PROVE  Copied'
      <3>1. spool[j] \in 1..(n + 1) /\ spool[j] # n + 1
        BY <2>1, <2>4
      <3>2. ASSUME NEW i \in 1..Len(s) PROVE s[i] = n + 1 \/ Holds(old, s[i])
        <4> DEFINE m == Len(old)
        <4>1. /\ m \in Nat /\ Len(s) = m + 1 /\ s[m + 1] = n + 1
              /\ \A l \in 1..m : s[l] = old[l]
          BY <2>1
        <4>2. i \in 1..m \/ i = m + 1
          <5> HIDE DEF m
          <5> QED
            BY <4>1
        <4> QED
          BY <4>1, <4>2 DEF Holds
      <3>3. ~Holds(s, spool[j])
        BY <2>4, <3>1, <3>2 DEF Holds
      <3> QED
        BY <2>2, <3>1, <3>3 DEF Copied
    <2>5. Copied
      BY <1>8 DEF LInv
    <2> QED
      BY <2>3, <2>4, <2>5 DEF Copied
  <1> QED
    BY <1>1, <1>4, <1>5, <1>6, <1>7, <1>8 DEF LInv

LEMMA TruncatedInv ==
    ASSUME LInv, NEW k \in 0..MaxChunks, LogTruncated(k)
    PROVE  LInv'
  <1> DEFINE s == SubSeq(log.data[log.gen], 1, k)
  <1>1. /\ log.open /\ k < Len(log.data[log.gen]) /\ queue' = Notified("modify")
        /\ log' = [log EXCEPT !.data[log.gen] = s]
        /\ cut' = (cut \/ k >= Len(spool))
        /\ UNCHANGED <<result, collector, watch, raw, spool, guard, written>>
    BY DEF LogTruncated, ownVars
  <1>2. written \in Nat /\ spool \in Seq(Nat) /\ k \in Nat
    BY ObserverAssumption DEF LInv, LogTyped
  <1>3. log.gen \in 1..2 /\ log.data[log.gen] \in Seq(Nat)
    BY <1>1, LogFields DEF LInv, Begun
  <1>4. /\ s \in Seq(Nat) /\ Len(s) = k
        /\ \A i \in 1..k : s[i] = log.data[log.gen][i] /\ i \in 1..Len(log.data[log.gen])
    <2> DEFINE t == log.data[log.gen]
    <2>1. t \in Seq(Nat) /\ k < Len(t)
      BY <1>1, <1>3
    <2> HIDE DEF t
    <2>2. /\ SubSeq(t, 1, k) \in Seq(Nat) /\ Len(SubSeq(t, 1, k)) = k
          /\ \A i \in 1..k : SubSeq(t, 1, k)[i] = t[i] /\ i \in 1..Len(t)
      BY <1>2, <2>1
    <2> QED
      BY <2>2 DEF s, t
  <1> HIDE DEF s
  <1>5. /\ log' \in LogRecs /\ log'.gen = log.gen /\ log'.open = log.open
        /\ log.gen = 1 => log'.data[1] = s
    BY <1>1, <1>4, EditFacts
  <1>6. queue' \in Seq(Events) /\ Judged' /\ (collector' \in Watching => Told')
    BY <1>1, <1>5, OpenInv
  <1>7. LogTyped'
    BY <1>1, <1>2, <1>5, <1>6 DEF LInv, LogTyped
  <1>8. Begun'
    BY <1>1, <1>3, <1>5 DEF LInv, Begun
  <1>9. ASSUME log.gen # 2, ~cut' PROVE Copied'
    <2>1. log.gen = 1 /\ ~cut /\ k < Len(spool) /\ log'.data[1] = s
      <3>1. ~(k >= Len(spool)) /\ ~cut
        BY <1>1, <1>9
      <3>2. log.gen = 1 /\ k < Len(spool)
        BY <1>2, <1>3, <1>9, <3>1
      <3> QED
        BY <1>5, <3>1, <3>2
    <2>2. CASE log.data[1] = Upto(written) /\ spool = Upto(Len(spool)) /\ Len(spool) <= written
      <3>1. k + 1 \in 1..Len(spool) /\ k + 1 \in 1..written
        BY <1>2, <2>1, <2>2
      <3>2. spool[k + 1] = k + 1
        BY <2>2, <3>1 DEF Upto
      <3>3. \A i \in 1..k : s[i] = i
        <4>1. \A i \in 1..k : i \in 1..written
          BY <1>2, <2>1, <2>2
        <4>2. \A i \in 1..written : Upto(written)[i] = i
          BY DEF Upto
        <4>3. \A i \in 1..k : s[i] = log.data[1][i]
          BY <1>4, <2>1
        <4> QED
          BY <2>2, <4>1, <4>2, <4>3
      <3>4. ~Holds(s, k + 1)
        BY <1>2, <1>4, <3>3 DEF Holds
      <3> QED
        BY <1>1, <2>1, <3>1, <3>2, <3>4 DEF Copied
    <2>3. ASSUME NEW j \in 1..Len(spool), spool[j] \in 1..written,
                 ~Holds(log.data[1], spool[j])
          PROVE  Copied'
      <3>1. ~Holds(s, spool[j])
        BY <1>4, <2>1, <2>3 DEF Holds
      <3> QED
        BY <1>1, <2>1, <2>3, <3>1 DEF Copied
    <2>4. Copied
      BY <2>1 DEF LInv
    <2> QED
      BY <2>2, <2>3, <2>4 DEF Copied
  <1> QED
    BY <1>1, <1>5, <1>6, <1>7, <1>8, <1>9 DEF LInv

LEMMA RotatedInv ==
    ASSUME LInv, LogRotated
    PROVE  LInv'
  <1> DEFINE seqs == [1..2 -> Seq(Nat)]
  <1>1. /\ log.open /\ queue' = Notified("moved") /\ log' = [log EXCEPT !.gen = 2]
        /\ UNCHANGED <<result, collector, watch, raw, spool, guard, written, cut>>
    BY DEF LogRotated, ownVars
  <1>2. log \in [gen : 0..2, data : seqs, open : BOOLEAN] /\ 2 \in 0..2
    BY DEF LInv, LogTyped, LogRecs
  <1> HIDE DEF seqs
  <1>3. log'.gen = 2 /\ log' \in [gen : 0..2, data : seqs, open : BOOLEAN]
    BY <1>1, <1>2
  <1>4. queue' \in Seq(Events) /\ Judged' /\ (collector' \in Watching => Told')
    BY <1>1, OpenInv
  <1>5. LogTyped'
    BY <1>1, <1>3, <1>4 DEF LInv, LogTyped, LogRecs, seqs
  <1>6. Begun'
    BY <1>1, <1>3 DEF LInv, LogTyped, Begun
  <1> QED
    BY <1>3, <1>4, <1>5, <1>6 DEF LInv

LEMMA ClosedInv ==
    ASSUME LInv, LogClosed
    PROVE  LInv'
  <1> DEFINE seqs == [1..2 -> Seq(Nat)]
  <1>1. /\ log.open /\ queue' = Notified("close") /\ log' = [log EXCEPT !.open = FALSE]
        /\ UNCHANGED <<result, collector, watch, raw, spool, guard, written, cut>>
    BY DEF LogClosed, ownVars
  <1>2. log \in [gen : 0..2, data : seqs, open : BOOLEAN]
    BY DEF LInv, LogTyped, LogRecs
  <1> HIDE DEF seqs
  <1>3. /\ log'.gen = log.gen /\ log'.data = log.data /\ log'.open = FALSE
        /\ log' \in [gen : 0..2, data : seqs, open : BOOLEAN]
    BY <1>1, <1>2
  <1>4. "close" \in Events /\ queue \in Seq(Events)
    BY DEF Events, LInv, LogTyped
  <1>5. queue' \in Seq(Events) /\ \A x : Holds(queue, x) => Holds(queue', x)
    BY <1>1, <1>4, NotifiedFacts
  <1>6. LogTyped'
    BY <1>1, <1>3, <1>5 DEF LInv, LogTyped, LogRecs, seqs
  <1>7. Begun' /\ Judged'
    BY <1>1, <1>3 DEF LInv, Begun, Judged
  <1>8. collector' \in Watching => Told'
    BY <1>1, <1>3, <1>5 DEF LInv, Told
  <1>9. log'.gen # 2 /\ ~cut' => Copied'
    BY <1>1, <1>3 DEF LInv, Copied
  <1> QED
    BY <1>6, <1>7, <1>8, <1>9 DEF LInv

\* the copy c of t, extended by what t has beyond it up to n
Extended(c, t, n) == c \o SubSeq(t, Len(c) + 1, n)

LEMMA ExtendFacts ==
    ASSUME NEW t \in Seq(Nat), NEW c \in Seq(Nat), NEW n \in Nat, n <= Len(t),
           NEW d, d = Extended(c, t, n)
    PROVE  /\ d \in Seq(Nat) /\ Len(d) = IF Len(c) < n THEN n ELSE Len(c)
           /\ \A i \in 1..Len(c) : d[i] = c[i] /\ i \in 1..Len(d)
           /\ \A i \in 1..Len(d) : i \in 1..Len(c) \/ (d[i] = t[i] /\ i \in 1..n)
  <1> DEFINE m == Len(c)
             l == Len(t)
             u == SubSeq(t, m + 1, n)
  <1>0. d = c \o u
    BY DEF Extended
  <1>1. m \in Nat /\ l \in Nat
    OBVIOUS
  <1>2. CASE m < n
    <2>1. /\ u \in Seq(Nat) /\ Len(u) = n - m
          /\ \A i \in 1..(n - m) : u[i] = t[m + i]
      BY <1>1, <1>2
    <2> HIDE DEF u
    <2>2. /\ d \in Seq(Nat) /\ Len(d) = m + Len(u)
          /\ \A i \in 1..m : d[i] = c[i]
          /\ \A i \in 1..Len(u) : d[m + i] = u[i]
      BY <1>0, <2>1 DEF u
    <2> HIDE DEF m, l
    <2>3. Len(d) = n
      BY <1>1, <2>1, <2>2
    <2>4. ASSUME NEW i \in 1..n PROVE i \in 1..m \/ d[i] = t[i]
      <3>1. CASE i > m
        <4>1. i - m \in 1..(n - m) /\ m + (i - m) = i
          BY <1>1, <1>2, <3>1
        <4> QED
          BY <2>1, <2>2, <4>1
      <3> QED
        BY <1>1, <3>1
    <2>5. \A i \in 1..m : i \in 1..n
      BY <1>1, <1>2
    <2> QED
      BY <1>2, <2>2, <2>3, <2>4, <2>5 DEF m
  <1>3. CASE ~(m < n)
    <2>1. u = <<>>
      BY <1>1, <1>3
    <2>2. d = c
      <3>1. c \o <<>> = c
        OBVIOUS
      <3> QED
        BY <1>0, <2>1, <3>1
    <2> QED
      BY <1>3, <2>2
  <1> QED
    BY <1>2, <1>3

\* pump copies what is new, or notices that the file is smaller than its copy
LEMMA CopyInv ==
    ASSUME IInv, LInv, Copy
    PROVE  LInv'
  <1> DEFINE file == IF raw = 0 THEN log.gen ELSE raw
             t == log.data[file]
             shrunk == Len(t) < Len(spool)
             n == IF Len(t) < MaxLogs THEN Len(t) ELSE MaxLogs
             d == Extended(spool, t, n)
  <1>1. /\ collector \in {"copy", "copy1", "copy2"} /\ collector' \in {"list", "inspect", "digest"}
        /\ collector' \in Closing => collector \in Closing
        /\ raw' = file
        /\ UNCHANGED <<result, guard, log, queue, written, cut>>
    BY DEF Copy, AfterCopy, hostVars, Closing
  <1>2. /\ file = 0 => watch' = watch /\ spool' = spool
        /\ file # 0 => /\ watch' \in {watch, [watch EXCEPT !.problem = TRUE]}
                       /\ spool' = IF shrunk THEN spool ELSE d
    BY DEF Copy, Size, Extended
  <1>3. file \in 0..2 /\ file <= log.gen
    BY LogFields DEF LInv, LogTyped, Begun
  <1>4. watch \in Watches /\ spool \in Seq(Nat) /\ written \in Nat
    BY DEF LInv, LogTyped, Watches
  <1>5. watch' \in Watches /\ watch'.closed = watch.closed /\ (watch.problem => watch'.problem)
    BY <1>2, <1>4, ProblemFacts
  <1>6. file # 0 => t \in Seq(Nat) /\ n \in Nat /\ n <= Len(t)
    <2> SUFFICES ASSUME file # 0 PROVE t \in Seq(Nat) /\ n \in Nat /\ n <= Len(t)
      OBVIOUS
    <2>1. file \in 1..2
      BY <1>3
    <2> HIDE DEF file
    <2>2. t \in Seq(Nat)
      BY <2>1, LogFields
    <2> HIDE DEF t
    <2> QED
      BY <2>2, ObserverAssumption
  <1> HIDE DEF file, t, n, d
  <1>7. file # 0 =>
          /\ d \in Seq(Nat) /\ Len(d) = IF Len(spool) < n THEN n ELSE Len(spool)
          /\ \A i \in 1..Len(spool) : d[i] = spool[i] /\ i \in 1..Len(d)
          /\ \A i \in 1..Len(d) : i \in 1..Len(spool) \/ (d[i] = t[i] /\ i \in 1..n)
    <2> SUFFICES ASSUME file # 0
                 PROVE  /\ d \in Seq(Nat) /\ Len(d) = IF Len(spool) < n THEN n ELSE Len(spool)
                        /\ \A i \in 1..Len(spool) : d[i] = spool[i] /\ i \in 1..Len(d)
                        /\ \A i \in 1..Len(d) :
                             i \in 1..Len(spool) \/ (d[i] = t[i] /\ i \in 1..n)
      OBVIOUS
    <2>1. t \in Seq(Nat) /\ n \in Nat /\ n <= Len(t) /\ spool \in Seq(Nat)
      BY <1>4, <1>6
    <2> QED
      BY <2>1, ExtendFacts DEF d
  <1>8. LogTyped'
    BY <1>1, <1>2, <1>3, <1>4, <1>5, <1>7 DEF LInv, LogTyped, Watches
  <1>9. Begun'
    <2>1. log.gen = 0 => file = 0
      BY <1>3
    <2> QED
      BY <1>1, <1>2, <1>3, <2>1 DEF LInv, Begun
  <1>10. Judged'
    <2>1. collector \in Working
      BY <1>1 DEF Working, Looping, Closing
    <2>2. result'.logs # "verified"
      BY <1>1, <2>1 DEF IInv, Observed, Excluded, NoResult
    <2> QED
      BY <2>2 DEF Judged
  <1>11. Told'
    <2>1. collector \in Watching /\ collector' # "drain3"
      BY <1>1 DEF Watching, Looping, Closing
    <2> QED
      BY <1>1, <1>5, <2>1 DEF LInv, Told
  <1>12. ASSUME log.gen # 2, ~cut PROVE Copied'
    <2>1. Copied
      BY <1>12 DEF LInv
    <2>2. CASE spool' = spool
      BY <1>1, <2>1, <2>2 DEF Copied
    <2>3. CASE file # 0 /\ spool' = d
      <3>1. file = 1 /\ t = log.data[1]
        BY <1>3, <1>12, <2>3, LogFields DEF t
      <3>2. CASE log.data[1] = Upto(written) /\ spool = Upto(Len(spool)) /\ Len(spool) <= written
        <4>1. Len(t) = written
          BY <1>4, <3>1, <3>2 DEF Upto
        <4>2. Len(d) <= written /\ Len(d) \in Nat
          BY <1>4, <1>6, <1>7, <2>3, <3>2, <4>1
        <4>3. ASSUME NEW i \in 1..Len(d) PROVE d[i] = i
          <5>1. i \in 1..Len(spool) => spool[i] = i
            BY <3>2 DEF Upto
          <5>2. i \in 1..written
            BY <1>4, <4>2
          <5>3. t[i] = i
            BY <3>1, <3>2, <5>2 DEF Upto
          <5> QED
            BY <1>7, <2>3, <5>1, <5>3
        <4>4. d = Upto(Len(d))
          <5>1. d \in Seq(Nat)
            BY <1>7, <2>3
          <5>2. d = [i \in 1..Len(d) |-> d[i]]
            BY <5>1
          <5> QED
            BY <4>3, <5>2 DEF Upto
        <4> QED
          BY <1>1, <2>3, <3>2, <4>2, <4>4 DEF Copied
      <3>3. ASSUME NEW j \in 1..Len(spool), spool[j] \in 1..written,
                   ~Holds(log.data[1], spool[j])
            PROVE  Copied'
        <4>1. d[j] = spool[j] /\ j \in 1..Len(d)
          BY <1>7, <2>3
        <4> QED
          BY <1>1, <2>3, <3>3, <4>1 DEF Copied
      <3> QED
        BY <2>1, <3>2, <3>3 DEF Copied
    <2> QED
      BY <1>2, <2>2, <2>3
  <1> QED
    BY <1>1, <1>8, <1>9, <1>10, <1>11, <1>12 DEF LInv

LEMMA LogStep ==
    ASSUME IInv, LInv, [Next]_vars
    PROVE  LInv'
  <1> USE DEF observerVars, ownVars, hostVars, CollectorAt
  <1>1. CASE UNCHANGED observerVars
    BY <1>1, RestInv
  <1>2. CASE \/ CollectorStarts \/ MakeLock \/ TakeLock \/ MakeSpool \/ InstallWatch(Holding)
             \/ GuardWipes \/ GuardExits \/ VolumeGone \/ CollectorTimeout \/ CollectorFails
    <2>1. /\ UNCHANGED <<log, queue, written, cut, watch, raw, spool, result>>
          /\ guard' = guard \/ (guard # "none" /\ guard' = "exited")
          /\ collector' = collector \/ collector' \notin Watching
      BY <1>2 DEF CollectorStarts, MakeLock, TakeLock, MakeSpool, InstallWatch, GuardWipes,
         GuardExits, VolumeGone, CollectorTimeout, CollectorFails, Watching, Looping, Closing
    <2> QED
      BY <2>1, RestInv DEF Watching, Closing
  <1>3. CASE Arm(Holding)
    <2>1. /\ UNCHANGED <<log, queue, written, cut, watch, raw, spool, result, guard>>
          /\ collector' = "finish" \/ (collector' = "drain" /\ guard = "none")
      BY <1>3 DEF Arm, BeforeStart
    <2> QED
      BY <2>1, RestInv DEF LInv, Begun, Watching, Looping, Closing
  <1>4. CASE Drain \/ List \/ InspectWorkspace
    <2>1. /\ UNCHANGED <<log, queue, written, cut, watch, raw, spool, result, guard>>
          /\ collector \in Watching /\ collector' # "drain3"
          /\ collector' \in Closing => collector \in Closing \/ watch.closed \/ watch.problem
      BY <1>4 DEF Drain, AfterDrain, List, InspectWorkspace, Watching, Looping, Closing
    <2> QED
      BY <2>1, RestInv
  <1>5. CASE \E r \in Readers : \/ \E mode \in {"ready", "result"} : ReadLock(r, mode)
                                \/ ReadEnds(r) \/ ReaderLeftBehind
    <2>1. /\ UNCHANGED <<log, queue, written, cut, watch, raw, spool, guard, collector>>
          /\ result' = result \/ result' = Gap
      BY <1>5 DEF ReadLock, ReadEnds, ReaderLeftBehind
    <2>2. Gap.logs # "verified"
      BY DEF Gap
    <2> QED
      BY <2>1, <2>2, RestInv
  <1>6. CASE \E k \in 0..MaxChunks : LogTruncated(k)
    BY <1>6, TruncatedInv
  <1>7. CASE \/ GuardStarts \/ ReadEvent \/ Copy \/ Digest \/ Judge \/ FinishWithGap
             \/ CollectorKilled \/ LogWritten \/ LogClosed \/ LogRotated
    BY <1>7, StartLogInv, ReadEventInv, CopyInv, DigestInv, EndInv, WrittenInv, ClosedInv,
       RotatedInv
  <1>8. \/ UNCHANGED observerVars
        \/ CollectorStep(Holding) \/ CollectorTimeout \/ RuntimeStep \/ ObserverFaults
        \/ GuardStarts \/ CollectorStarts \/ ReaderLeftBehind
        \/ \E mode \in {"ready", "result"} : ReadLock("live", mode)
        \/ ReadEnds("live") \/ ReadEnds("orphan")
    BY DEF Next, Pass, Probe, ProbeBegins, ProbeEnds, AskCollector, Kubelet,
       StartWorkload, Collecting, Timeout, Runtime, ResultBegins, ResultEnds, OrphanEnds,
       Crash, ProbeAbandoned, StopPolling, Helper, vars
  <1> QED
    BY <1>1, <1>2, <1>3, <1>4, <1>5, <1>6, <1>7, <1>8
       DEF CollectorStep, RuntimeStep, ObserverFaults, Readers

\* inotify is installed before the guard can start, and drained before and after every
\* copy and after the digests: so logs that Collect reports verified are closed, unrotated
\* and completely in job.log, however the writer, a rotation, a truncation of what was
\* already copied, a full event queue and the collector interleave; and inspectWorkspace
\* runs only after List saw the guard exited, when nothing dirties the run directory.
\* Excepted is the content after a truncation of bytes not yet copied (~cut), which
\* neither the size nor the digests show.
THEOREM VerdictIsTrue == Spec => []VerifiedIsTrue
  <1>1. Init => LInv
    <2> SUFFICES ASSUME Init PROVE LInv
      OBVIOUS
    <2> DEFINE none == <<<<>>, <<>>>>
    <2>1. /\ log = [gen |-> 0, data |-> none, open |-> FALSE] /\ guard = "none"
          /\ queue = <<>> /\ written = 0 /\ spool = <<>> /\ raw = 0 /\ watch = NoWatch
          /\ result = NoResult /\ collector = "none"
      BY DEF Init, ObserverInit
    <2>2. none \in [1..2 -> Seq(Nat)] /\ none[1] = <<>>
      <3>1. none \in Seq(Seq(Nat)) /\ Len(none) = 2 /\ none[1] = <<>>
        OBVIOUS
      <3> QED
        BY <3>1, LenProperties
    <2> HIDE DEF none
    <2>3. /\ log.gen = 0 /\ log.data = none /\ ~log.open /\ log \in LogRecs
      BY <2>1, <2>2 DEF LogRecs
    <2>4. LogTyped
      BY <2>1, <2>3 DEF LogTyped, NoWatch
    <2>5. Begun /\ Judged
      BY <2>1, <2>3 DEF Begun, Judged, NoResult
    <2>6. Copied
      <3>1. Upto(0) = <<>>
        BY DEF Upto
      <3> QED
        BY <2>1, <2>2, <2>3, <3>1 DEF Copied
    <2> QED
      BY <2>1, <2>4, <2>5, <2>6 DEF LInv, Watching, Looping, Closing
  <1>2. IInv /\ LInv /\ [Next]_vars => LInv'
    BY LogStep
  <1>3. IInv /\ LInv => VerifiedIsTrue
    BY DEF IInv, Observed, Inspected, LInv, Judged, Upto, VerifiedIsTrue
  <1> QED
    BY <1>1, <1>2, <1>3, SpecInv, PTL DEF Spec
=============================================================================
