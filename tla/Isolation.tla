----------------------------- MODULE Isolation -----------------------------
(***************************************************************************)
(* What the network gate and the node log collector promise together: a    *)
(* workload starts only in a sandbox whose firewall is complete and whose  *)
(* log is already watched.  Isolation is never undone, and at most one     *)
(* sandbox is ever attested.                                               *)
(***************************************************************************)
CONSTANT Sandboxes

VARIABLES
    isolated,  \* sandboxes whose firewall is complete
    attested,  \* sandboxes a collector has attested to watch before the start
    started    \* sandboxes a workload has started in

vars == <<isolated, attested, started>>

Init == isolated = {} /\ attested = {} /\ started = {}

Isolate(s) ==
    /\ s \notin isolated
    /\ isolated' = isolated \cup {s}
    /\ UNCHANGED <<attested, started>>

Attest(s) ==
    /\ attested = {} /\ s \in isolated
    /\ attested' = {s}
    /\ UNCHANGED <<isolated, started>>

Start(s) ==
    /\ s \in isolated \cap attested
    /\ s \notin started
    /\ started' = started \cup {s}
    /\ UNCHANGED <<isolated, attested>>

Next == \E s \in Sandboxes : Isolate(s) \/ Attest(s) \/ Start(s)

Spec == Init /\ [][Next]_vars
=============================================================================
