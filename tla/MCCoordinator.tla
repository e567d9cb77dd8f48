---------------------------- MODULE MCCoordinator ----------------------------
(* Small instances of Coordinator for TLC: who may interfere with the run and *)
(* what the patches of the staging data hold.                                 *)
EXTENDS Coordinator

\* somebody deletes or re-creates objects, the cluster or the spool is lost
Hostile == {"runner", "resource", "role", "job", "cluster", "spool"}
OnlyResource == {"resource"}
\* evidence.json is absent, accepted or refused, or guard.json does not parse
AnyData == {"none", "valid", "invalid", "garbled"}
====
