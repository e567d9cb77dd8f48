---------------------------- MODULE Publication ----------------------------
(***************************************************************************)
(* What the finalizer promises about one job to those who run it and read   *)
(* its output, the watchdog and the delivery: what is archived and what is  *)
(* published stays so, only archived work is published, and a budget that   *)
(* is exhausted before the work is archived is never reopened.              *)
(***************************************************************************)
VARIABLE work  \* receipt and bundle archived, result published, status "exhausted"

Works == [archived : BOOLEAN, published : BOOLEAN, exhausted : BOOLEAN]

Init == work = [archived |-> FALSE, published |-> FALSE, exhausted |-> FALSE]

\* mutant: result.json is written before its receipt and bundle are archived
KeepsEarly(s, t) ==
    /\ s.archived => t.archived
    /\ s.published => t.published
    /\ s.exhausted /\ ~s.archived => t.exhausted /\ ~t.archived

\* between s and a later t lie any number of runs, each killed at any point
Keeps(s, t) ==
    /\ s.archived => t.archived
    /\ s.published => t.published
    /\ t.published => t.archived
    /\ s.exhausted /\ ~s.archived => t.exhausted /\ ~t.archived

Next == work' \in Works /\ Keeps(work, work')

Spec == Init /\ [][Next]_work
=============================================================================
