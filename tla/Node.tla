-------------------------------- MODULE Node --------------------------------
(***************************************************************************)
(* The gate and the collector of one runner pod together: armCollector asks *)
(* the collector, the collector checks that the init container still holds  *)
(* the workload, and the workload starts under both.  After the start the   *)
(* coordinator reads the collector's result.                                *)
(***************************************************************************)
EXTENDS Gate, Observer

vars == <<gateVars, observerVars>>

Init == GateInit /\ ObserverInit

\* what checkBeforeStart asks the runtime about the requested sandbox
Holding == Pinned(bound) /\ InitRunning

\* `proof-observe --mode ready': begin, or fail at once when nothing is there
ProbeBegins ==
    /\ pass.pc \in {"probe", "poll"}
    /\ \/ ReadLock("live", "ready") /\ UNCHANGED gateVars
       \/ Unreadable /\ Probed(FALSE) /\ UNCHANGED observerVars

ProbeEnds ==
    /\ pass.pc \in {"probe", "poll"}
    /\ Probed(IsReady("live")) /\ ReadEnds("live")

\* `docker exec -d ... --mode collect'
AskCollector == CollectorAsked /\ CollectorStarts

\* the guard container is created and started in the released sandbox
StartWorkload == WorkloadStarts /\ GuardStarts

\* `proof-observe --mode result', polled by collectTrusted once the pod has ended
ResultBegins ==
    /\ pass.pc = "idle" /\ bound # 0
    /\ guard = "exited" \/ init = "failed"
    /\ result = NoResult
    /\ ReadLock("live", "result") /\ UNCHANGED gateVars

ResultEnds ==
    /\ pass.pc = "idle" /\ readers["live"].mode = "result"
    /\ ReadEnds("live") /\ UNCHANGED gateVars

OrphanEnds == ReadEnds("orphan") /\ UNCHANGED gateVars

\* the coordinator dies in a pass or while it reads the result; a Read that it
\* started goes on
Crash ==
    /\ pass.pc # "idle" \/ readers["live"].pc # "off"
    /\ CoordinatorDies
    /\ IF readers["live"].pc = "off" THEN UNCHANGED observerVars ELSE ReaderLeftBehind

ProbeAbandoned == ProbeGivenUp /\ ReaderLeftBehind

\* polling stops between two probes
StopPolling == PollingEnds /\ readers["live"].pc = "off" /\ UNCHANGED observerVars

Collecting == CollectorStep(Holding) /\ UNCHANGED gateVars
\* the collector's lifetime, at least 300 seconds, outlasts the 150 seconds of the
\* init container in whose sandbox it was started
Timeout    == CollectorTimeout /\ ~Holding /\ UNCHANGED gateVars
Runtime    == RuntimeStep /\ UNCHANGED gateVars
Kubelet    == KubeletStep /\ UNCHANGED observerVars
Helper(h)  == HelperStep(h) /\ UNCHANGED observerVars
Pass       == PassStep /\ UNCHANGED observerVars
Probe      == ProbeBegins \/ ProbeEnds \/ AskCollector

Next ==
    \/ Pass \/ Probe \/ Kubelet \/ StartWorkload \/ Collecting \/ Timeout \/ Runtime
    \/ ResultBegins \/ ResultEnds \/ OrphanEnds \/ Crash \/ StopPolling
    \/ ProbeAbandoned
    \/ \E h \in Helpers : Helper(h)
    \/ GateFaults /\ UNCHANGED observerVars
    \/ ObserverFaults /\ UNCHANGED gateVars

Spec == Init /\ [][Next]_vars

\* every process keeps running, the guard, the collector and polling come to their
\* time limits; losses, kills and the init container's deadline are never forced, and
\* the collector's limit cannot pass while that init container still waits
FairSpec ==
    /\ Spec
    /\ WF_vars(Pass \/ Probe) /\ WF_vars(Kubelet \/ StartWorkload)
    /\ WF_vars(\E h \in Helpers : Helper(h))
    /\ WF_vars(Collecting) /\ SF_vars(Timeout) /\ SF_vars(StopPolling)
    /\ WF_vars(GuardExits /\ UNCHANGED gateVars)
    /\ WF_vars(ResultBegins \/ ResultEnds) /\ WF_vars(OrphanEnds)

----------------------------------------------------------------------------
(* Properties *)

TypeOK == GateTypeOK /\ ObserverTypeOK

\* the whole policy, in order; a command that survived its helper may follow it
Firewalled(s) ==
    firewall[s] = Policy \/ (s \in strayed /\ IsPrefix(Policy, firewall[s]))

Promise == INSTANCE Isolation WITH
    isolated <- {s \in Sandboxes : Firewalled(s)},
    attested <- IF "armed" \in private THEN {bound} ELSE {}

(* The nonce handshake over two ConfigMaps, the helper's append-only firewall *)
(* and the collector's marker implement Isolation: whatever is lost, delayed  *)
(* or left over from an earlier sandbox, no workload starts in a sandbox that *)
(* is not completely firewalled and attested, and a finished firewall stays.  *)
StartsIsolated == Promise!Spec

(* Coordinator crashes, killed or orphaned helpers, partial firewalls, lost    *)
(* answers and probes left behind never wedge the gate.  The workload starts   *)
(* unless its sandbox is lost or the init container's deadline passes, the      *)
(* collector is killed, has a failing call or loses its lock to a probe, or the *)
(* last command of a killed helper lands out of turn in the firewall.           *)
GateOpens ==
    <>(\/ started # {} \/ init = "failed"
       \/ sandbox > 1 \/ (sandbox = 1 /\ ~up)
       \/ collector = "dead" \/ (collector \in {"finish", "done"} /\ upsets > 0)
       \/ \E s \in strayed : ~Exact(firewall[s]))

(* Logs are called verified only when the guard has ended and the spool holds *)
(* everything it wrote, in order, although the log is polled while it is      *)
(* written, rotated and cut; a workspace is called verified only when clean.  *)
(* The one cut the collector cannot see removes bytes it had not copied yet.  *)
VerifiedIsTrue ==
    /\ result.logs = "verified" =>
         /\ guard = "exited" /\ ~log.open /\ log.gen = 1
         /\ ~cut => spool = [i \in 1..written |-> i]
    /\ result.workspace = "verified" => guard = "exited" /\ workspace.clean

(* result.json never changes once it exists: the gap that Read publishes for a *)
(* dead collector and the collector's own result exclude each other.           *)
ResultStands == [][result = NoResult]_result

(* A workload that started always leaves a result: from the collector, or as  *)
(* the gap that the next reader publishes when the collector died.            *)
ResultArrives == started # {} ~> result # NoResult
=============================================================================
