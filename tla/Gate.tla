-------------------------------- MODULE Gate --------------------------------
(***************************************************************************)
(* The network gate of one runner pod.  The kubelet gives the pod sandboxes *)
(* one after the other; in each, the init container network-gate.mjs draws  *)
(* a nonce, publishes it in runner-gate-request and waits for that nonce in *)
(* runner-gate.  A polling coordinator (ensureGateWith) has the node helper *)
(* cmd/netgate install the firewall in the sandbox's network namespace,     *)
(* arms the log collector and then releases the nonce it started from.      *)
(* Coordinator, helper, sandbox and calls to the API may each be lost.      *)
(* The collector's side of arming is module Observer; Node composes both.   *)
(***************************************************************************)
EXTENDS Naturals, Sequences, SequencesExt

CONSTANTS
    MaxSandboxes,  \* sandboxes the kubelet may create for the pod
    Commands,      \* iptables and ip6tables commands that make up the policy
    Helpers,       \* netgate processes that may be alive at the same time
    MaxFaults      \* crashes, kills and lost answers

ASSUME GateAssumption ==
    /\ MaxSandboxes \in Nat \ {0} /\ Commands \in Nat \ {0}
    /\ MaxFaults \in Nat /\ Helpers # {} /\ "none" \notin Helpers

\* the init container of sandbox s runs once, and s stands for its nonce too
Sandboxes == 1..MaxSandboxes
NoPass == [pc |-> "idle", waiting |-> FALSE, gate |-> 0, nonce |-> 0, request |-> 0,
           sandbox |-> 0, helper |-> "none"]
NoHelper == [pc |-> "off", sandbox |-> 0, plan |-> <<>>]

VARIABLES
    sandbox,    \* the pod's latest sandbox
    up,         \* it is SANDBOX_READY
    init,       \* what its network-gate container does
    late,       \* nonces whose PATCH was abandoned by its sender but not lost
    request,    \* runner-gate-request: nonce (0: none) and resourceVersion
    marker,     \* runner-gate: released nonce (0: not ready) and resourceVersion
    lateMarks,  \* release patches of a coordinator that died, still to be applied
    firewall,   \* the commands applied in each sandbox's network namespace
    strayed,    \* history: sandboxes where a dead helper's command landed out of turn
    helpers,    \* the netgate processes
    flock,      \* which of them holds /run/proof-netgate-<uid>.lock
    pass,       \* the coordinator's pass through ensureGateWith
    bound,      \* sandbox of the collector request in the ledger, 0 if none
    started,    \* sandboxes a workload has started in
    faults      \* crashes, kills and lost answers so far

gateVars == <<sandbox, up, init, late, request, marker, lateMarks, firewall,
              strayed, helpers, flock, pass, bound, started, faults>>

InitRunning == init \in {"publishing", "sent", "waiting"}

GateTypeOK ==
    /\ sandbox \in 0..MaxSandboxes /\ up \in BOOLEAN
    /\ init \in {"none", "publishing", "sent", "waiting", "passed", "failed"}
    /\ late \subseteq Sandboxes
    /\ request \in [nonce : 0..MaxSandboxes, version : Nat]
    /\ marker \in [nonce : 0..MaxSandboxes, version : Nat]
    /\ lateMarks \subseteq [nonce : Sandboxes, version : Nat]
    /\ firewall \in [Sandboxes -> Seq(1..Commands)]
    /\ strayed \subseteq Sandboxes
    /\ helpers \in [Helpers -> [pc : {"off", "queued", "apply", "child"},
                                sandbox : 0..MaxSandboxes, plan : Seq(1..Commands)]]
    /\ flock \in Helpers \cup {"none"}
    /\ bound \in 0..MaxSandboxes /\ started \subseteq Sandboxes
    /\ faults \in 0..MaxFaults

GateInit ==
    /\ sandbox = 0 /\ up = FALSE /\ init = "none" /\ late = {}
    /\ request = [nonce |-> 0, version |-> 0]
    /\ marker = [nonce |-> 0, version |-> 0] /\ lateMarks = {}
    /\ firewall = [s \in Sandboxes |-> <<>>] /\ strayed = {}
    /\ helpers = [h \in Helpers |-> NoHelper] /\ flock = "none"
    /\ pass = NoPass /\ bound = 0 /\ started = {} /\ faults = 0

Fault == faults < MaxFaults /\ faults' = faults + 1

----------------------------------------------------------------------------
(* The kubelet and the init container *)

\* a sandbox and its init container; a lost one is replaced before the workload ran
NewSandbox ==
    /\ ~up /\ sandbox < MaxSandboxes /\ started = {} /\ init # "failed"
    /\ sandbox' = sandbox + 1 /\ up' = TRUE /\ init' = "publishing"
    /\ UNCHANGED <<late, request, marker, lateMarks, firewall, strayed, helpers,
                   flock, pass, bound, started, faults>>

\* the sandbox dies with its containers; a PATCH under way may still arrive
SandboxLost ==
    /\ up /\ started = {} /\ init # "failed" /\ Fault
    /\ up' = FALSE /\ init' = "none"
    /\ late' = IF init = "sent" THEN late \cup {sandbox} ELSE late
    /\ UNCHANGED <<sandbox, request, marker, lateMarks, firewall, strayed, helpers,
                   flock, pass, bound, started>>

\* what a PATCH of the nonce makes of the request; writing the same data changes nothing
Requested(n) == IF request.nonce = n THEN request
                ELSE [nonce |-> n, version |-> request.version + 1]

InitSends ==
    /\ init = "publishing" /\ init' = "sent"
    /\ UNCHANGED <<sandbox, up, late, request, marker, lateMarks, firewall, strayed,
                   helpers, flock, pass, bound, started, faults>>

InitPublishes ==
    /\ init = "sent" /\ init' = "waiting"
    /\ request' = Requested(sandbox)
    /\ UNCHANGED <<sandbox, up, late, marker, lateMarks, firewall, strayed, helpers,
                   flock, pass, bound, started, faults>>

\* the answer is lost and the PATCH sent again; the first one may arrive later
InitRetries ==
    /\ init = "sent" /\ Fault /\ init' = "publishing"
    /\ late' = late \cup {sandbox}
    /\ UNCHANGED <<sandbox, up, request, marker, lateMarks, firewall, strayed,
                   helpers, flock, pass, bound, started>>

LatePublish(n) ==
    /\ n \in late /\ late' = late \ {n}
    /\ request' = Requested(n)
    /\ UNCHANGED <<sandbox, up, init, marker, lateMarks, firewall, strayed, helpers,
                   flock, pass, bound, started, faults>>

InitPassesAnyNonce ==
    /\ init = "waiting" /\ marker.nonce # 0
    /\ init' = "passed"
    /\ UNCHANGED <<sandbox, up, late, request, marker, lateMarks, firewall, strayed,
                   helpers, flock, pass, bound, started, faults>>

\* the marker is ready and carries this invocation's nonce: exit 0
InitPasses ==
    /\ init = "waiting" /\ marker.nonce = sandbox
    /\ init' = "passed"
    /\ UNCHANGED <<sandbox, up, late, request, marker, lateMarks, firewall, strayed,
                   helpers, flock, pass, bound, started, faults>>

\* 150 seconds without release: the init container fails and with it the pod
InitDeadline ==
    /\ InitRunning /\ init' = "failed"
    /\ UNCHANGED <<sandbox, up, late, request, marker, lateMarks, firewall, strayed,
                   helpers, flock, pass, bound, started, faults>>

\* the kubelet starts the guard container once the init container succeeded
WorkloadStarts ==
    /\ up /\ init = "passed" /\ started = {}
    /\ started' = {sandbox}
    /\ UNCHANGED <<sandbox, up, init, late, request, marker, lateMarks, firewall,
                   strayed, helpers, flock, pass, bound, faults>>

----------------------------------------------------------------------------
(* cmd/netgate *)

\* model: the policy as the commands that build it, in the order plan emits them
Policy == [i \in 1..Commands |-> i]
\* plan: append-only completion of an exact prefix, anything else is refused
Exact(table) == IsPrefix(table, Policy)
Plan(table) == SubSeq(Policy, Len(table) + 1, Commands)

\* the helper's lock goes and its exit reaches the pass that waits for it, if one
\* still does; a kill may leave a child process behind
Ends(h, left, ok) ==
    /\ helpers' = [helpers EXCEPT ![h] = left]
    /\ flock' = IF flock = h THEN "none" ELSE flock
    /\ pass' = IF pass.helper # h THEN pass
               ELSE IF ok THEN [pass EXCEPT !.pc = "bind", !.helper = "none"]
               ELSE NoPass
Exit(h, ok) == Ends(h, NoHelper, ok)

\* initWaiting and inspect: the sandbox is ready and only the init container runs
Pinned(s) == up /\ sandbox = s
MayInstall(s) == Pinned(s) /\ InitRunning

HelperPlansFromScratch(h) ==
    LET s == helpers[h].sandbox
        todo == Plan(firewall[s])
        go == Pinned(s) /\ todo \in {<<>>, Policy} /\ (todo = <<>> \/ MayInstall(s))
    IN /\ helpers[h].pc = "queued" /\ flock = "none"
       /\ IF go
          THEN /\ helpers' = [helpers EXCEPT ![h].pc = "apply", ![h].plan = todo]
               /\ flock' = h /\ pass' = pass
          ELSE Exit(h, FALSE)
       /\ UNCHANGED <<sandbox, up, init, late, request, marker, lateMarks, firewall,
                      strayed, bound, started, faults>>

\* with the lock taken: inspect and pin the namespace, read the tables, plan
HelperPlans(h) ==
    LET s == helpers[h].sandbox
        todo == Plan(firewall[s])
        go == Pinned(s) /\ Exact(firewall[s]) /\ (todo = <<>> \/ MayInstall(s))
    IN /\ helpers[h].pc = "queued" /\ flock = "none"
       /\ IF go
          THEN /\ helpers' = [helpers EXCEPT ![h].pc = "apply", ![h].plan = todo]
               /\ flock' = h /\ pass' = pass
          ELSE Exit(h, FALSE)
       /\ UNCHANGED <<sandbox, up, init, late, request, marker, lateMarks, firewall,
                      strayed, bound, started, faults>>

\* one command in the pinned namespace, which outlives its sandbox
HelperApplies(h) ==
    /\ helpers[h].pc = "apply" /\ helpers[h].plan # <<>>
    /\ firewall' = [firewall EXCEPT ![helpers[h].sandbox] = Append(@, Head(helpers[h].plan))]
    /\ helpers' = [helpers EXCEPT ![h].plan = Tail(@)]
    /\ UNCHANGED <<sandbox, up, init, late, request, marker, lateMarks, strayed,
                   flock, pass, bound, started, faults>>

\* read the tables again, nothing may remain, and the sandbox must be the same
HelperVerifies(h) ==
    LET s == helpers[h].sandbox
    IN /\ helpers[h].pc = "apply" /\ helpers[h].plan = <<>>
       /\ Exit(h, firewall[s] = Policy /\ Pinned(s))
       /\ UNCHANGED <<sandbox, up, init, late, request, marker, lateMarks, firewall,
                      strayed, bound, started, faults>>

\* the iptables command of a helper killed with SIGKILL, if it does not die too
Child(h) ==
    IF helpers[h].pc = "apply" /\ helpers[h].plan # <<>>
    THEN {[helpers[h] EXCEPT !.pc = "child", !.plan = <<Head(@)>>]} ELSE {}

\* killed, or at its 45 second limit: the lock goes, the commands applied stay
HelperKilled(h) ==
    /\ helpers[h].pc \in {"queued", "apply"} /\ Fault
    /\ \E left \in {NoHelper} \cup Child(h) : Ends(h, left, FALSE)
    /\ UNCHANGED <<sandbox, up, init, late, request, marker, lateMarks, firewall,
                   strayed, bound, started>>

\* the child does not hold the lock (O_CLOEXEC): its command lands at any moment, in
\* its turn, or under the next helper that has read the tables, or after that one
ChildApplies(h) ==
    LET s == helpers[h].sandbox
        table == Append(firewall[s], Head(helpers[h].plan))
    IN /\ helpers[h].pc = "child"
       /\ firewall' = [firewall EXCEPT ![s] = table]
       /\ strayed' = IF flock = "none" /\ Exact(table) THEN strayed ELSE strayed \cup {s}
       /\ helpers' = [helpers EXCEPT ![h] = NoHelper]
       /\ UNCHANGED <<sandbox, up, init, late, request, marker, lateMarks, flock,
                      pass, bound, started, faults>>

----------------------------------------------------------------------------
(* The coordinator's pass: ensureGateWith *)

PassMoves == UNCHANGED <<sandbox, up, init, late, request, lateMarks, firewall,
                         strayed, flock, started, faults>>

\* observePod lists the pod and ensureGateWith reads the marker; both are used until
\* the end of the pass.  A pass that finds the workload started or the pod ended
\* changes nothing
PassBegins ==
    /\ pass.pc = "idle" /\ sandbox # 0 /\ started = {} /\ init # "failed"
    /\ pass' = [NoPass EXCEPT !.pc = "request", !.waiting = InitRunning,
                              !.gate = marker.version, !.nonce = marker.nonce]
    /\ PassMoves /\ UNCHANGED <<marker, helpers, bound>>

\* nothing to do without a nonce, when it is released already, or when the init
\* container was not running
ReadRequest ==
    /\ pass.pc = "request"
    /\ pass' = IF request.nonce \in {0, pass.nonce} \/ ~pass.waiting
               THEN NoPass
               ELSE [pass EXCEPT !.pc = "list", !.nonce = request.nonce,
                                 !.request = request.version]
    /\ PassMoves /\ UNCHANGED <<marker, helpers, bound>>

\* crictl pods, selectGateSandbox, and the helper is started for that sandbox
ListSandbox ==
    /\ pass.pc = "list"
    /\ \/ /\ ~up
          /\ pass' = NoPass /\ helpers' = helpers
       \/ /\ up
          /\ \E h \in Helpers : helpers[h].pc = "off"
          /\ LET h == CHOOSE x \in Helpers : helpers[x].pc = "off"
             IN /\ helpers' = [helpers EXCEPT ![h] = [pc |-> "queued", sandbox |-> sandbox,
                                                      plan |-> <<>>]]
                /\ pass' = [pass EXCEPT !.pc = "helper", !.sandbox = sandbox,
                                        !.helper = h]
    /\ PassMoves /\ UNCHANGED <<marker, bound>>

\* the docker client fails while the helper in the node goes on
HelperAbandoned ==
    /\ pass.pc = "helper" /\ Fault
    /\ pass' = NoPass
    /\ UNCHANGED <<sandbox, up, init, late, request, marker, lateMarks, firewall,
                   strayed, helpers, flock, bound, started>>

\* armCollector: the request is saved in the ledger once and binds one sandbox
BindCollector ==
    /\ pass.pc = "bind"
    /\ IF bound \in {0, pass.sandbox}
       THEN /\ bound' = pass.sandbox
            /\ pass' = [pass EXCEPT !.pc = "probe"]
       ELSE bound' = bound /\ pass' = NoPass
    /\ PassMoves /\ UNCHANGED <<marker, helpers>>

\* the answer of a readiness probe: armed, or start the collector and poll again
Probed(armed) ==
    /\ pass' = IF armed THEN [pass EXCEPT !.pc = "reread"]
               ELSE IF pass.pc = "probe" THEN [pass EXCEPT !.pc = "collect"]
               ELSE pass
    /\ PassMoves /\ UNCHANGED <<marker, helpers, bound>>

\* a probe exceeds the 30 seconds of its command and is left behind in the node
ProbeGivenUp ==
    /\ pass.pc \in {"probe", "poll"} /\ Fault
    /\ pass' = IF pass.pc = "probe" THEN [pass EXCEPT !.pc = "collect"] ELSE pass
    /\ UNCHANGED <<sandbox, up, init, late, request, marker, lateMarks, firewall,
                   strayed, helpers, flock, bound, started>>

CollectorAsked ==
    /\ pass.pc = "collect" /\ pass' = [pass EXCEPT !.pc = "poll"]
    /\ PassMoves /\ UNCHANGED <<marker, helpers, bound>>

\* 15 seconds of polling are over
PollingEnds ==
    /\ pass.pc = "poll" /\ pass' = NoPass
    /\ PassMoves /\ UNCHANGED <<marker, helpers, bound>>

\* the request must still be the one this pass started from
Reread ==
    /\ pass.pc = "reread"
    /\ pass' = IF request.version = pass.request /\ request.nonce = pass.nonce
               THEN [pass EXCEPT !.pc = "release"] ELSE NoPass
    /\ PassMoves /\ UNCHANGED <<marker, helpers, bound>>

\* the JSON patch of runner-gate tests the resourceVersion read first
Released(nonce, version) ==
    IF marker.version = version THEN [nonce |-> nonce, version |-> version + 1] ELSE marker

Release ==
    /\ pass.pc = "release" /\ pass' = NoPass
    /\ marker' = Released(pass.nonce, pass.gate)
    /\ PassMoves /\ UNCHANGED <<helpers, bound>>

\* the coordinator dies; a release it has sent may be applied later
CoordinatorDies ==
    /\ Fault /\ pass' = NoPass
    /\ lateMarks' \in {lateMarks} \cup
                      (IF pass.pc = "release"
                       THEN {lateMarks \cup {[nonce |-> pass.nonce, version |-> pass.gate]}}
                       ELSE {})
    /\ UNCHANGED <<sandbox, up, init, late, request, marker, firewall, strayed,
                   helpers, flock, bound, started>>

LateRelease(m) ==
    /\ m \in lateMarks /\ lateMarks' = lateMarks \ {m}
    /\ marker' = Released(m.nonce, m.version)
    /\ UNCHANGED <<sandbox, up, init, late, request, firewall, strayed, helpers,
                   flock, pass, bound, started, faults>>

----------------------------------------------------------------------------
\* the steps of each process that concern the gate alone
KubeletStep == NewSandbox \/ InitSends \/ InitPublishes \/ InitPasses
HelperStep(h) == HelperPlans(h) \/ HelperApplies(h) \/ HelperVerifies(h)
                 \/ ChildApplies(h)
PassStep == PassBegins \/ ReadRequest \/ ListSandbox \/ BindCollector
            \/ Reread \/ Release
GateFaults ==
    \/ SandboxLost \/ InitRetries \/ InitDeadline \/ HelperAbandoned
    \/ \E n \in late : LatePublish(n)
    \/ \E m \in lateMarks : LateRelease(m)
    \/ \E h \in Helpers : HelperKilled(h)
=============================================================================
