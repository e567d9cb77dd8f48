------------------------------- MODULE Watchdog -------------------------------
(***************************************************************************)
(* internal/watchdog and cmd/watchdog: each cycle, Engine.Step moves a run   *)
(* towards a receipt in the evidence store by Recover: collection, then the  *)
(* finalizer, then delivery.  An attempt is charged and durable before it    *)
(* works, a receipt in the store ends the run whatever the budget, and every *)
(* cycle replays the attempt reports to POST /v1/recovery.  A report may be  *)
(* lost, or applied after its sender gave up.  The three stages are kept as  *)
(* what inspect and Recover see of them.  Finalizer and delivery may do what *)
(* Publication and Ingestion allow, which the modules Finalizer and Delivery *)
(* implement; Coordinator is the detail of the collection.                   *)
(***************************************************************************)
EXTENDS Naturals, Sequences, FiniteSets

CONSTANTS
    MaxAttempts,   \* recovery dispatches per identity; six in the code
    MaxLate        \* bound: reports delayed at the same time

ASSUME WatchdogAssumption == MaxAttempts \in Nat \ {0} /\ MaxLate \in Nat

VARIABLES
    proc,        \* "down", or the point Step has reached
    sent,        \* reports this flush has sent
    snapshot,    \* what Reconcile inspected: the backend's b.snapshot
    state,       \* the durable state: current report and history
    due,         \* the retry deadline has passed, or there is none
    dispatches,  \* calls of Recover
    run,         \* the coordinator's run: "open", "ready" or "invalid" inputs
    fin,         \* the finalizer: receipt and bundle archived, result published,
                 \* status "exhausted"
    delivery,    \* the delivery queue's status is "exhausted"
    receipt,     \* the store has the receipt of this run
    table,       \* evidence.finalization_attempts, origin "watchdog"
    late,        \* reports whose sender gave up, not yet applied
    calm         \* crashes and failing calls are over

stepVars  == <<proc, sent, snapshot>>
stateVars == <<state, due>>
stageVars == <<run, fin, delivery, receipt>>
vars == <<stepVars, stateVars, dispatches, stageVars, table, late, calm>>

None == "none"
Stages == {"collect", "archive", "sign", "ingest"}
Report == [number : 0..MaxAttempts, status : {"pending", "running", "retry", "exhausted", "succeeded"},
           stage : Stages \cup {"complete"}, code : {None, "dependency_unavailable",
           "invalid_evidence", "worker_interrupted", "stage_exhausted"},
           next : BOOLEAN, lease : BOOLEAN]   \* NextRetryAt and the lease are set
Pending == [number |-> 0, status |-> "pending", stage |-> "collect", code |-> None,
            next |-> FALSE, lease |-> FALSE]
Outcomes == {None, "running", "retry", "exhausted", "succeeded"}
Points == {"down", "flush", "reconcile", "flushSaved", "flushInterrupted", "decide",
           "announce", "collect", "finalize", "deliver"}

TypeOK ==
    /\ proc \in Points /\ sent \in 0..MaxAttempts
    /\ snapshot \in [ok : BOOLEAN, published : BOOLEAN, exhausted : BOOLEAN]
    /\ state.current \in Report /\ state.history \in Seq(Report)
    /\ due \in BOOLEAN /\ calm \in BOOLEAN /\ receipt \in BOOLEAN /\ dispatches \in Nat
    /\ run \in {"open", "ready", "invalid"}
    /\ fin \in [archived : BOOLEAN, published : BOOLEAN, exhausted : BOOLEAN]
    /\ delivery \in BOOLEAN
    /\ table \in [1..MaxAttempts -> Outcomes]
    /\ late \subseteq Report

NoSnapshot == [ok |-> FALSE, published |-> FALSE, exhausted |-> FALSE]

Init ==
    /\ proc = "down" /\ sent = 0 /\ snapshot = NoSnapshot
    /\ state = [current |-> Pending, history |-> << >>] /\ due = TRUE
    /\ dispatches = 0 /\ run = "open" /\ delivery = FALSE /\ receipt = FALSE
    /\ fin = [archived |-> FALSE, published |-> FALSE, exhausted |-> FALSE]
    /\ table = [n \in 1..MaxAttempts |-> None] /\ late = {} /\ calm = FALSE

----------------------------------------------------------------------------
(* The state on disk, and the reports made from it *)

\* validState: Load refuses anything else, and the run is then stuck
ValidState(s) ==
    LET r == s.current
    IN  /\ r.number > 0 => Len(s.history) = r.number - 1
        /\ \A i \in DOMAIN s.history :
              LET h == s.history[i]
              IN  h.number = i /\ h.status = "retry" /\ h.next /\ ~h.lease
        /\ CASE r.status = "succeeded" ->
                  r.stage = "complete" /\ r.code = None /\ ~r.next /\ ~r.lease
             [] r.status = "pending" ->
                  r.number = 0 /\ s.history = << >> /\ ~r.next /\ ~r.lease /\ r.stage \in Stages
             [] r.status = "running" ->
                  r.number > 0 /\ r.lease /\ r.next /\ r.code = None /\ r.stage \in Stages
             [] r.status = "retry" ->
                  r.number \in 1..(MaxAttempts - 1) /\ r.code # None /\ ~r.lease /\ r.next
                  /\ r.stage \in Stages
             [] r.status = "exhausted" ->
                  r.number > 0 /\ r.code # None /\ ~r.lease /\ ~r.next /\ r.stage \in Stages

\* validRecovery: a running report carries no retry time
Sendable(r) == IF r.status = "running" THEN [r EXCEPT !.next = FALSE] ELSE r
ValidRecovery(a) ==
    /\ a.number \in 1..MaxAttempts
    /\ CASE a.status = "running" -> a.stage \in Stages /\ a.lease /\ ~a.next /\ a.code = None
         [] a.status = "succeeded" -> a.stage = "complete" /\ ~a.next /\ ~a.lease /\ a.code = None
         [] a.status \in {"retry", "exhausted"} ->
              /\ a.stage \in Stages /\ a.code # None /\ ~a.lease
              /\ a.next <=> a.status = "retry"
              /\ a.status = "retry" => a.number < MaxAttempts
         [] OTHER -> FALSE

\* mutant: the last report to arrive wins
UpsertOverwrites(a) == table' = [table EXCEPT ![a.number] = a.status]

\* Store.Recovery: only a running row is overwritten, except by success
Upsert(a) ==
    table' = [table EXCEPT ![a.number] =
                IF @ \in {None, "running"} \/ a.status = "succeeded" THEN a.status ELSE @]

Accepted(a) == ValidRecovery(a) /\ (a.status = "succeeded" => receipt)
\* a report is applied, or lost, or left on its way
ReportOK(a) == Accepted(a) /\ Upsert(a) /\ UNCHANGED late
ReportFails(a) ==
    \/ (~calm \/ ~Accepted(a)) /\ UNCHANGED <<table, late>>
    \/ ~calm /\ Accepted(a) /\ Upsert(a) /\ UNCHANGED late
    \/ ~calm /\ Accepted(a) /\ Cardinality(late) < MaxLate
       /\ late' = late \cup {a} /\ UNCHANGED table

ToFlush ==
    LET c == state.current
    IN  state.history \o (IF c.number > 0 THEN <<Sendable(c)>> ELSE << >>)

----------------------------------------------------------------------------
(* Step *)

\* the snapshot is forgotten where nothing reads it before the next Reconcile
GoTo(p) ==
    /\ proc' = p /\ sent' = 0
    /\ snapshot' = IF p \in {"deliver", "flushSaved"} THEN NoSnapshot ELSE snapshot
Return == proc' = "down" /\ sent' = 0 /\ snapshot' = NoSnapshot
Save(c) == state' = [state EXCEPT !.current = c]
Succeeded(c) ==
    [c EXCEPT !.status = "succeeded", !.stage = "complete", !.code = None, !.next = FALSE, !.lease = FALSE]

\* mutant: a finished run is not looked at again
LoadSkipsSucceeded ==
    /\ proc = "down" /\ ValidState(state) /\ state.current.status # "succeeded" /\ GoTo("flush")
    /\ UNCHANGED <<stateVars, dispatches, stageVars, table, late, calm>>

\* cycle takes both locks and Load accepts the state
Load ==
    /\ proc = "down" /\ ValidState(state) /\ GoTo("flush")
    /\ UNCHANGED <<stateVars, dispatches, stageVars, table, late, calm>>

Flushing == proc \in {"flush", "flushSaved", "flushInterrupted"}
AfterFlush ==
    IF proc = "flush" /\ state.current.status # "succeeded" THEN GoTo("reconcile")
    ELSE IF proc = "flushInterrupted" THEN GoTo("decide") ELSE Return

FlushOne ==
    /\ Flushing /\ sent < Len(ToFlush)
    /\ \/ ReportOK(ToFlush[sent + 1]) /\ sent' = sent + 1 /\ UNCHANGED <<proc, snapshot>>
       \/ ReportFails(ToFlush[sent + 1]) /\ AfterFlush
    /\ UNCHANGED <<stateVars, dispatches, stageVars, calm>>

FlushEnds ==
    /\ Flushing /\ sent = Len(ToFlush) /\ AfterFlush
    /\ UNCHANGED <<stateVars, dispatches, stageVars, table, late, calm>>

Visible == receipt /\ fin.published
Inspected == [ok |-> TRUE, published |-> fin.published, exhausted |-> fin.exhausted]

\* mutant: an exhausted run is not reconciled
ReconcileUnspent ==
    /\ proc = "reconcile"
    /\ \/ /\ Visible /\ state.current.status # "exhausted"
          /\ Save(Succeeded(state.current)) /\ due' = TRUE /\ GoTo("flushSaved")
       \/ /\ ~calm \/ ~Visible \/ state.current.status = "exhausted"
          /\ proc' = "decide" /\ sent' = 0 /\ UNCHANGED stateVars
          /\ snapshot' = Inspected
    /\ UNCHANGED <<dispatches, stageVars, table, late, calm>>

\* mutant: an interrupted sixth attempt waits for a seventh
InterruptedUncapped(c) ==
    [c EXCEPT !.status = "retry", !.code = "worker_interrupted", !.lease = FALSE]

\* a state left running lost its worker
Interrupted(c) ==
    LET r == [c EXCEPT !.code = "worker_interrupted", !.lease = FALSE]
    IN  IF c.number >= MaxAttempts THEN [r EXCEPT !.status = "exhausted", !.next = FALSE]
        ELSE [r EXCEPT !.status = "retry"]

\* inspect: the receipt ends the run; else what the stages are at is remembered,
\* or that inspection failed, and an interrupted attempt is closed
Reconcile ==
    /\ proc = "reconcile"
    /\ \/ Visible /\ Save(Succeeded(state.current)) /\ due' = TRUE /\ GoTo("flushSaved")
       \/ /\ ~calm \/ ~Visible
          /\ snapshot' \in {Inspected} \cup {s \in {NoSnapshot} : ~calm}
          /\ sent' = 0
          /\ IF state.current.status = "running"
             THEN /\ Save(Interrupted(state.current)) /\ proc' = "flushInterrupted"
                  /\ due' = (due \/ state.current.number >= MaxAttempts)
             ELSE proc' = "decide" /\ UNCHANGED stateVars
    /\ UNCHANGED <<dispatches, stageVars, table, late, calm>>

Spent == state.current.status = "exhausted" \/ state.current.number >= MaxAttempts
NextAttempt ==
    LET c == state.current
    IN  [current |-> [Pending EXCEPT !.number = c.number + 1, !.status = "running",
                                     !.next = TRUE, !.lease = TRUE],
         history |-> IF c.number > 0 THEN Append(state.history, c) ELSE state.history]

\* mutant: the attempt is charged when it ends
DecideUncharged ==
    /\ proc = "decide"
    /\ \/ (Spent \/ ~due) /\ Return /\ UNCHANGED stateVars
       \/ ~Spent /\ due /\ due' = FALSE /\ GoTo("announce") /\ UNCHANGED state
    /\ UNCHANGED <<dispatches, stageVars, table, late, calm>>

\* the attempt is charged, leased and saved before it works
Decide ==
    /\ proc = "decide"
    /\ \/ (Spent \/ ~due) /\ Return /\ UNCHANGED stateVars
       \/ ~Spent /\ due /\ due' = FALSE /\ GoTo("announce") /\ state' = NextAttempt
    /\ UNCHANGED <<dispatches, stageVars, table, late, calm>>

Announce ==
    /\ proc = "announce" /\ GoTo("collect") /\ dispatches' = dispatches + 1
    /\ ReportOK(Sendable(state.current)) \/ ReportFails(Sendable(state.current))
    /\ UNCHANGED <<stateVars, stageVars, calm>>

----------------------------------------------------------------------------
(* Recover *)

\* Step after a failed Recover: retried later, or exhausted
Conclude(stage, permanent, exhausted) ==
    LET c == [state.current EXCEPT !.lease = FALSE, !.stage = stage,
                !.code = IF exhausted THEN "stage_exhausted"
                         ELSE IF permanent THEN "invalid_evidence" ELSE "dependency_unavailable"]
        over == permanent \/ exhausted \/ c.number >= MaxAttempts
    IN  /\ Save([c EXCEPT !.status = IF over THEN "exhausted" ELSE "retry", !.next = ~over])
        /\ due' = over /\ GoTo("flushSaved")

\* the coordinator collects, publishes, and the inputs are validated; a ledger
\* that cannot be loaded, or inputs that can never be finalized, are permanent
Collect ==
    /\ proc = "collect"
    /\ \/ run = "open" /\ run' \in {"ready", "invalid"} /\ UNCHANGED <<stepVars, stateVars>>
       \/ ~calm /\ (\E p \in BOOLEAN : Conclude("collect", p, FALSE)) /\ UNCHANGED run
       \/ run = "invalid" /\ Conclude("collect", TRUE, FALSE) /\ UNCHANGED run
       \/ run = "ready" /\ GoTo("finalize") /\ UNCHANGED <<run, stateVars>>
    /\ UNCHANGED <<dispatches, fin, delivery, receipt, table, late, calm>>

Finalization == INSTANCE Publication WITH work <- fin
\* whether the queue says "complete" is not looked at
Ingesting == INSTANCE Ingestion WITH complete <- FALSE, exhausted <- delivery

\* a run of the finalizer that succeeds publishes, unless the budget is exhausted;
\* one that fails or is killed keeps the promise of Publication
FinalizerOK ==
    /\ fin.archived \/ ~fin.exhausted
    /\ fin' = [archived |-> TRUE, published |-> TRUE, exhausted |-> FALSE]
FinalizerFails ==
    \/ ~fin.archived /\ fin.exhausted /\ UNCHANGED fin
    \/ ~calm /\ Finalization!Next

\* a published result needs no finalizer; one the snapshot calls exhausted is
\* given up; else the finalizer runs, unless its own retry is not due yet; the
\* stage reported after a failure is the one the finalizer had reached
Finalize ==
    /\ proc = "finalize"
    /\ \/ ~snapshot.ok /\ Conclude("archive", FALSE, FALSE) /\ UNCHANGED fin
       \/ snapshot.ok /\ snapshot.published /\ GoTo("deliver") /\ UNCHANGED <<stateVars, fin>>
       \/ /\ snapshot.ok /\ ~snapshot.published /\ snapshot.exhausted
          /\ Conclude("sign", FALSE, TRUE) /\ UNCHANGED fin
       \/ /\ snapshot.ok /\ ~snapshot.published /\ ~snapshot.exhausted
          /\ \/ FinalizerOK /\ GoTo("deliver") /\ UNCHANGED stateVars
             \/ /\ FinalizerFails
                /\ \E e \in {FALSE, fin'.exhausted}, reached \in {"archive", "sign"} :
                      Conclude(reached, FALSE, e)
             \/ UNCHANGED fin /\ Conclude("sign", FALSE, FALSE)
    /\ UNCHANGED <<dispatches, run, delivery, receipt, table, late, calm>>

\* a run of deliver that succeeds has its receipt in the store; one that fails, is
\* refused or not due yet, or is killed keeps the promise of Ingestion, and once
\* calls stop failing it finds every receipt that is there
DeliverOK ==
    /\ fin.published /\ (receipt \/ ~delivery)
    /\ delivery' = FALSE /\ receipt' = TRUE
DeliverFails ==
    /\ fin.published /\ Ingesting!Next
    /\ calm => ~receipt /\ ~receipt'

\* mutant: a successful deliver is believed without looking for the receipt
DeliverTrusted ==
    /\ proc = "deliver" /\ fin.published
    /\ \/ delivery' = FALSE /\ UNCHANGED receipt
          /\ Save(Succeeded(state.current)) /\ due' = TRUE /\ GoTo("flushSaved")
       \/ DeliverFails /\ Conclude("ingest", FALSE, delivery')
    /\ UNCHANGED <<dispatches, run, fin, table, late, calm>>

\* deliver runs, then inspect decides whatever it answered
Deliver ==
    /\ proc = "deliver"
    /\ DeliverOK \/ DeliverFails
    /\ \/ receipt' /\ Save(Succeeded(state.current)) /\ due' = TRUE /\ GoTo("flushSaved")
       \/ ~calm /\ \E e \in {FALSE, delivery'} : Conclude("ingest", FALSE, e)
       \/ calm /\ ~receipt' /\ Conclude("ingest", FALSE, delivery')
    /\ UNCHANGED <<dispatches, run, fin, table, late, calm>>

----------------------------------------------------------------------------
(* Failures, other workers and time *)

Crash ==
    /\ ~calm /\ proc # "down" /\ Return
    /\ UNCHANGED <<stateVars, dispatches, stageVars, table, late, calm>>

\* an operator, or a child that outlived a killed watchdog, runs a stage (external)
OthersFinalize ==
    /\ ~calm /\ run = "ready" /\ (FinalizerOK \/ FinalizerFails)
    /\ UNCHANGED <<stepVars, stateVars, dispatches, run, delivery, receipt, table, late, calm>>
OthersDeliver ==
    /\ ~calm /\ (DeliverOK \/ DeliverFails)
    /\ UNCHANGED <<stepVars, stateVars, dispatches, run, fin, table, late, calm>>

LateReport ==
    /\ \E a \in late : late' = late \ {a} /\ Upsert(a)
    /\ UNCHANGED <<stepVars, stateVars, dispatches, stageVars, calm>>

DeadlinePasses ==
    /\ ~due /\ due' = TRUE
    /\ UNCHANGED <<stepVars, state, dispatches, stageVars, table, late, calm>>

CalmDown ==
    /\ ~calm /\ calm' = TRUE
    /\ UNCHANGED <<stepVars, stateVars, dispatches, stageVars, table, late>>

Step ==
    \/ Load \/ FlushOne \/ FlushEnds \/ Reconcile \/ Decide \/ Announce
    \/ Collect \/ Finalize \/ Deliver

Next ==
    \/ Step \/ Crash \/ OthersFinalize \/ OthersDeliver \/ LateReport \/ DeadlinePasses \/ CalmDown

Spec == Init /\ [][Next]_vars
\* the service cycles every five minutes, delayed requests arrive, time passes
FairSpec == Spec /\ WF_vars(Step) /\ WF_vars(LateReport) /\ WF_vars(DeadlinePasses)

----------------------------------------------------------------------------
(* Properties *)

\* Whatever a crash interrupts, the state that was saved is one Load accepts, and
\* every report made from it one the API accepts: the run never fails closed on
\* what its own watchdog wrote.
StateIsUsable ==
    /\ ValidState(state)
    /\ \A i \in DOMAIN ToFlush : ValidRecovery(ToFlush[i])

\* A reported outcome stands against reports that arrive late; only success may
\* still replace it.
OutcomeStands ==
    [][\A n \in 1..MaxAttempts :
          /\ table[n] = "succeeded" => table'[n] = "succeeded"
          /\ table[n] \in {"retry", "exhausted"} => table'[n] \in {table[n], "succeeded"}]_vars

Run == INSTANCE Pipeline WITH
    attempts <- state.current.number,
    done <- [archived |-> fin.archived, published |-> fin.published, received |-> receipt,
             succeeded |-> state.current.status = "succeeded",
             reported |-> \E n \in 1..MaxAttempts : table[n] = "succeeded"]

\* The watchdog over its stages implements Pipeline: through crashes, other workers,
\* failed inspections, late reports and stages killed anywhere, no milestone is reached
\* before the one it rests on, none is lost, Recover is called at most once for every
\* attempt that was charged and saved, and success, which always has its receipt, is
\* never worked on again.
RunAdvances == Run!Spec

\* A published result whose receipt is in the store ends the run, also after
\* exhaustion and before the retry is due, once calls stop failing.
ReceiptEndsRun == calm /\ Visible ~> state.current.status = "succeeded"

\* The table catches up with the state after an outage, whatever was lost or late.
TableCatchesUp ==
    calm ~> /\ late = {}
            /\ \A i \in DOMAIN ToFlush : table[ToFlush[i].number] = ToFlush[i].status

\* docs/finalizer.md, "Recovery of an already archived receipt and bundle runs
\* before the attempt cap": the watchdog gives the signing stage up as exhausted
\* only when there is no archived receipt and bundle to publish.
ArchivedIsNotGivenUp ==
    [][state'.current.code = "stage_exhausted" /\ state'.current.stage = "sign"
          /\ state' # state => ~fin.archived]_vars
====
