------------------------- MODULE CoordinatorRecovery -------------------------
(***************************************************************************)
(* The coordinator with an end to its faults: crashes and failing calls     *)
(* happen at any moment, but not for ever.  What they left behind must then *)
(* be finished.                                                             *)
(***************************************************************************)
EXTENDS Coordinator

\* the operator or the watchdog collects again and a live process goes on
Coordinates == Provisioning \/ Monitoring \/ Closing
\* the cluster finishes what was asked of it: namespaces are finalised, the Job's
\* deadline ends its pod, the collector's lifetime is bounded
Finishes == PodCreated \/ PodMoves \/ CollectorEnds \/ \E o \in Disposable : Finalised(o)

FairSpec ==
    Spec /\ WF_vars(Coordinates) /\ WF_vars(Finishes) /\ <>[][Steady]_vars

\* Once crashes and failing calls are over, every started run is completed and reaches
\* its readiness marker, unless they left a guard.json newer than the one its ledger
\* records: the ledger is enough to resume, no wait is circular, and an early return
\* is not repeated for ever.  PublicationIsRepairable shows the case left out, which
\* takes a third patch that does not parse.
RunsFinish ==
    disk.phase # "none" ~>
        /\ disk.phase = "complete"
        /\ ready # NoLedger \/ (disk.guard # 0 /\ files.guard > disk.guard)
====
