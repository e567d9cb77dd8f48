------------------------------ MODULE Pipeline ------------------------------
(***************************************************************************)
(* What the watchdog promises about one run: it moves forward only, in the  *)
(* order archive, publication, receipt, success, report, and is worked on   *)
(* at most once per charged attempt and never again after success.          *)
(***************************************************************************)
EXTENDS Naturals

CONSTANT MaxAttempts  \* recovery attempts of one run

VARIABLES
    attempts,    \* attempts charged
    dispatches,  \* attempts that have set to work
    done         \* the milestones the run has reached

Milestones == [archived : BOOLEAN, published : BOOLEAN, received : BOOLEAN,
               succeeded : BOOLEAN, reported : BOOLEAN]

Init ==
    /\ attempts = 0 /\ dispatches = 0
    /\ done = [archived |-> FALSE, published |-> FALSE, received |-> FALSE,
               succeeded |-> FALSE, reported |-> FALSE]

Charge ==
    /\ ~done.succeeded /\ attempts < MaxAttempts
    /\ attempts' = attempts + 1 /\ UNCHANGED <<dispatches, done>>

Dispatch ==
    /\ ~done.succeeded /\ dispatches < attempts
    /\ dispatches' = dispatches + 1 /\ UNCHANGED <<attempts, done>>

Ordered(d) ==
    /\ (d.reported => d.succeeded) /\ (d.succeeded => d.received)
    /\ (d.received => d.published) /\ (d.published => d.archived)

\* a step may pass several milestones
Forward(d, e) == e \in Milestones /\ Ordered(e) /\ \A m \in DOMAIN d : d[m] => e[m]
Advance == UNCHANGED <<attempts, dispatches>> /\ Forward(done, done')

Next == Charge \/ Dispatch \/ Advance

Spec == Init /\ [][Next]_<<attempts, dispatches, done>>
=============================================================================
