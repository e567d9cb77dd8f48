-------------------------------- MODULE Guard --------------------------------
(***************************************************************************)
(* The guard that wraps a job: main (stage, begin, inventory), the command, *)
(* post (stage, cleanup attempts, receipt, final stage) and the exit code.  *)
(* It drives proofctl (module Cleanup) through runProof, which kills it at  *)
(* its deadline, and publishes guard.json and evidence.json by PATCHes that *)
(* may be refused, lose their answer or arrive late.  Without the guard, an *)
(* operator runs the proofctl commands by hand, several at a time.          *)
(***************************************************************************)
EXTENDS Cleanup

CONSTANTS
    CleanupAttempts,  \* cleanup_attempts of the configuration
    JobClaims,        \* claims a guarded job creates, of the MaxClaims
    MaxCommands       \* proofctl commands an operator runs by hand

ASSUME GuardAssumption ==
    CleanupAttempts \in Nat \ {0} /\ JobClaims \in Nat /\ MaxCommands \in Nat

Stages == {"announce", "completed", "mainFailed", "postStarted", "final", "finalAgain"}
Helpers == {"begin", "inventory", "cleanup", "receipt"}

\* newStatus, with the process the guard waits for and the timers it has set
NewStatus == [pc |-> "main", helper |-> "none", fired |-> FALSE, cancelled |-> FALSE,
              killTimer |-> FALSE, command |-> "none", timedOut |-> FALSE, tried |-> 0,
              main |-> FALSE, post |-> FALSE, errors |-> FALSE, stagingErrors |-> FALSE,
              evidence |-> Absent, exit |-> "none"]
Snapshot(j) == [main |-> j.main, post |-> j.post, failed |-> j.errors \/ j.stagingErrors]
\* evidence.json is left out of the PATCH when there is none
Patch(j) == [guard |-> Snapshot(j), evidence |-> j.evidence]

VARIABLES
    job,      \* the guard: control, GuardStatus, timers
    staged,   \* the staging ConfigMap
    late,     \* PATCHes given up by their sender and not yet applied
    byHand    \* commands the operator has started

vars == <<cleanupVars, job, staged, late, byHand>>
proofVars == <<context, lock, procs, cluster>>

TypeOK ==
    /\ CleanupTypeOK
    /\ job.pc \in Stages \cup Helpers \cup {"main", "command", "group", "exiting",
                                            "exited", "dead", "absent"}
    /\ job.helper \in Procs \cup {"none"} /\ job.tried \in 0..CleanupAttempts
    /\ job.command \in {"none", "running", "ok", "failed", "signalled"}
    /\ {staged} \cup late \subseteq
         [guard : [main : BOOLEAN, post : BOOLEAN, failed : BOOLEAN],
          evidence : [kind : {"absent", "saved"}, state : State]]
    /\ byHand \in 0..MaxCommands

Init ==
    /\ CleanupInit
    /\ job = [NewStatus EXCEPT !.pc = IF scoped THEN "main" ELSE "absent"]
    /\ staged = Patch(NewStatus) /\ late = {} /\ byHand = 0

----------------------------------------------------------------------------
(* Staging *)

Apply(patch) ==
    staged' = [guard |-> patch.guard,
               evidence |-> IF patch.evidence = Absent THEN staged.evidence
                            ELSE patch.evidence]

\* refused, applied with the answer lost, or still on its way after the time limit
StageFails ==
    /\ Trouble
    /\ \/ UNCHANGED <<staged, late>>
       \/ Apply(Patch(job)) /\ UNCHANGED late
       \/ late' = late \cup {Patch(job)} /\ UNCHANGED staged

StageNext(pc) ==
    CASE pc = "announce" -> "begin"      [] pc = "completed" -> "command"
      [] pc = "mainFailed" -> "group"    [] pc = "postStarted" -> "cleanup"
      [] pc \in {"final", "finalAgain"} -> "exiting"

\* only the stage that completes main must succeed; only the final one is repeated
Stage ==
    /\ job.pc \in Stages
    /\ \/ Apply(Patch(job)) /\ UNCHANGED <<late, troubles>>
          /\ job' = [job EXCEPT !.pc = StageNext(job.pc)]
       \/ StageFails
          /\ job' = [job EXCEPT !.stagingErrors = TRUE,
               !.errors = @ \/ job.pc = "completed",
               !.pc = CASE job.pc = "completed" -> "mainFailed"
                        [] job.pc = "final" -> "finalAgain"
                        [] OTHER -> StageNext(job.pc)]
    /\ UNCHANGED <<proofVars, byHand>>

LatePatch(patch) ==
    /\ patch \in late /\ late' = late \ {patch} /\ Apply(patch)
    /\ UNCHANGED <<cleanupVars, job, byHand>>

----------------------------------------------------------------------------
(* runProof *)

\* a new process; which of the unused ones stands for it does not matter
Free(p) == procs[p].pc = "off" /\ p = CHOOSE q \in Procs : procs[q].pc = "off"

RunProof(p) ==
    /\ job.pc \in Helpers /\ job.helper = "none" /\ Free(p)
    /\ Spawned(p, job.pc) /\ job' = [job EXCEPT !.helper = p, !.fired = FALSE]
    /\ UNCHANGED <<cluster, context, lock, troubles, staged, late, byHand>>

\* SIGKILL at the deadline, also between the helper's exit and the end of its output
HelperTimeout ==
    /\ job.helper # "none" /\ ~job.fired
    /\ IF procs[job.helper].pc = "exit" THEN UNCHANGED procs ELSE Killed(job.helper)
    /\ job' = [job EXCEPT !.fired = TRUE]
    /\ UNCHANGED <<cluster, context, lock, troubles, staged, late, byHand>>

\* begin and inventory: a failure throws, and so does a failing saveStatus
MainGoesOn(ok, kept) ==
    job' = [job EXCEPT !.helper = "none",
        !.main = ok /\ job.pc = "inventory",
        !.errors = @ \/ ~ok \/ ~kept,
        !.pc = IF ~ok \/ (job.pc = "inventory" /\ ~kept) THEN "mainFailed"
               ELSE IF job.pc = "begin" THEN "inventory" ELSE "completed"]

\* the next attempt, unless one succeeded, the limit is reached or time is up
CleanupGoesOn(ok, kept) ==
    \E timeLeft \in BOOLEAN :
      /\ timeLeft => ~job.fired
      /\ job' = [job EXCEPT !.helper = "none", !.tried = @ + 1,
             !.errors = @ \/ ~ok \/ ~kept,
             !.pc = IF ~ok /\ timeLeft /\ job.tried + 1 < CleanupAttempts
                    THEN "cleanup" ELSE "receipt"]

\* the evidence is staged even when its local copy cannot be written
ReceiptEnds(ok, kept, out) ==
    job' = [job EXCEPT !.helper = "none", !.post = TRUE, !.pc = "final",
        !.errors = @ \/ ~ok \/ ~kept,
        !.evidence = IF ok THEN [kind |-> "saved", state |-> out] ELSE Absent]

HelperResult(ok, kept, out) ==
    CASE job.pc \in {"begin", "inventory"} -> MainGoesOn(ok, kept)
      [] job.pc = "cleanup" -> CleanupGoesOn(ok, kept)
      [] job.pc = "receipt" -> ReceiptEnds(ok, kept, out)

\* the helper is closed: its result counts unless the deadline came first
HelperEnds ==
    /\ job.helper # "none"
    /\ LET h == procs[job.helper] IN
         /\ h.pc = "exit" \/ (job.fired /\ h.pc = "off")
         /\ \E kept \in BOOLEAN :
              /\ MayFail(~kept)
              /\ HelperResult(h.pc = "exit" /\ h.ok /\ ~job.fired, kept, h.mem)
    /\ procs' = [procs EXCEPT ![job.helper] = Off]
    /\ UNCHANGED <<cluster, context, lock, staged, late, byHand>>

\* one second after the kill the guard goes on although the helper is not reaped
HelperAbandoned ==
    /\ job.helper # "none" /\ job.fired /\ procs[job.helper].pc = "dying"
    /\ Trouble /\ HelperResult(FALSE, TRUE, Fresh)
    /\ UNCHANGED <<proofVars, staged, late, byHand>>

----------------------------------------------------------------------------
(* main, the command, post *)

\* saveStatus and validateAssignment; a refusal here is never staged
MainStarts ==
    /\ job.pc = "main"
    /\ \E valid \in BOOLEAN :
         /\ MayFail(~valid)
         /\ job' = [job EXCEPT !.errors = ~valid,
                               !.pc = IF valid THEN "announce" ELSE "group"]
    /\ UNCHANGED <<proofVars, staged, late, byHand>>

\* a job cancelled during main never runs its command
CommandStarts ==
    /\ job.pc = "command" /\ job.command = "none"
    /\ \E spawned \in BOOLEAN :
         /\ MayFail(~job.cancelled /\ ~spawned)
         /\ job' = IF job.cancelled THEN [job EXCEPT !.pc = "group"]
                   ELSE IF spawned THEN [job EXCEPT !.command = "running"]
                   ELSE [job EXCEPT !.errors = TRUE, !.pc = "group"]
    /\ UNCHANGED <<proofVars, staged, late, byHand>>

CommandEnds(result) ==
    /\ job.command = "running"
    /\ job' = [job EXCEPT !.command = result, !.killTimer = FALSE, !.pc = "group"]
    /\ UNCHANGED <<cleanupVars, staged, late, byHand>>

CancelledPolitely(j) == [j EXCEPT !.cancelled = TRUE]

\* the first signal is forwarded and starts the grace period
Cancelled(j) ==
    IF j.cancelled THEN j
    ELSE [j EXCEPT !.cancelled = TRUE, !.killTimer = j.command = "running"]

BeforePost == job.pc \in {"main", "announce", "begin", "inventory", "completed",
                          "mainFailed", "command"}

\* SIGTERM or SIGINT to the guard; ignored in post
Cancel ==
    /\ BeforePost /\ ~job.cancelled /\ job' = Cancelled(job)
    /\ UNCHANGED <<cleanupVars, staged, late, byHand>>

JobTimeout ==
    /\ job.command = "running" /\ ~job.timedOut
    /\ job' = [Cancelled(job) EXCEPT !.timedOut = TRUE]
    /\ UNCHANGED <<cleanupVars, staged, late, byHand>>

KillTimeout ==
    /\ job.killTimer /\ job.command = "running"
    /\ job' = [job EXCEPT !.command = "signalled", !.killTimer = FALSE, !.pc = "group"]
    /\ UNCHANGED <<cleanupVars, staged, late, byHand>>

\* the command's group is killed; what left the group goes on
PostStarts ==
    /\ job.pc = "group"
    /\ \E kept \in BOOLEAN :
         /\ MayFail(~kept)
         /\ job' = [job EXCEPT !.errors = @ \/ ~kept, !.pc = "postStarted"]
    /\ UNCHANGED <<proofVars, staged, late, byHand>>

GuardFailed(j) == ~j.main \/ ~j.post \/ j.errors \/ j.stagingErrors

ExitCode(j) ==
    CASE j.command = "failed" -> "command"
      [] j.command # "failed" /\ j.timedOut -> "timeout"
      [] j.command # "failed" /\ ~j.timedOut /\ (j.command = "signalled" \/ j.cancelled) -> "signal"
      [] OTHER -> IF GuardFailed(j) THEN "guard" ELSE "ok"

Exits ==
    /\ job.pc = "exiting"
    /\ job' = [job EXCEPT !.pc = "exited", !.exit = ExitCode(job)]
    /\ UNCHANGED <<cleanupVars, staged, late, byHand>>

\* the container is killed: helpers die with it, a PATCH may still arrive
GuardDies ==
    /\ job.pc \notin {"exited", "dead", "absent"} /\ Trouble
    /\ job' = [job EXCEPT !.pc = "dead", !.helper = "none", !.command =
                 IF job.command = "running" THEN "signalled" ELSE job.command,
                 !.killTimer = FALSE]
    /\ late' = IF job.pc \in Stages THEN late \cup {Patch(job)} ELSE late
    /\ procs' = [p \in Procs |-> IF procs[p].pc = "off" THEN Off
                                 ELSE [Off EXCEPT !.pc = "dying"]]
    /\ UNCHANGED <<cluster, context, lock, staged, byHand>>

----------------------------------------------------------------------------
(* An operator with proofctl, and the whole *)

RunByHand(p, cmd) ==
    /\ job.pc = "absent" /\ byHand < MaxCommands /\ Free(p)
    /\ Spawned(p, cmd) /\ byHand' = byHand + 1
    /\ UNCHANGED <<cluster, context, lock, troubles, job, staged, late>>

\* the command returns, or the operator kills it
EndByHand(p) ==
    /\ job.pc = "absent" /\ procs[p].pc \notin {"off", "dying"}
    /\ IF procs[p].pc = "exit" THEN procs' = [procs EXCEPT ![p] = Off] /\ UNCHANGED troubles
       ELSE Killed(p) /\ Trouble
    /\ UNCHANGED <<cluster, context, lock, job, staged, late, byHand>>

\* the command's processes, and those that escaped its group, create claims
JobCreates(c) ==
    /\ job.pc = "absent" \/ (job.command # "none" /\ c <= JobClaims)
    /\ ClaimCreated(c) /\ UNCHANGED <<job, staged, late, byHand>>

Helper(p) == Command(p) /\ UNCHANGED <<job, staged, late, byHand>>
Reap(p) == Reaped(p) /\ UNCHANGED <<job, staged, late, byHand>>
GuardStep == \/ Stage \/ HelperEnds \/ MainStarts \/ CommandStarts \/ PostStarts
             \/ Exits \/ \E p \in Procs : RunProof(p)

Next ==
    \/ GuardStep \/ HelperTimeout \/ JobTimeout \/ KillTimeout \/ HelperAbandoned
    \/ Cancel \/ GuardDies
    \/ \E r \in {"ok", "failed", "signalled"} : CommandEnds(r)
    \/ \E p \in Procs : \/ Helper(p) \/ Reap(p) \/ EndByHand(p)
                        \/ \E cmd \in Helpers : RunByHand(p, cmd)
    \/ \E c \in Claims : JobCreates(c)
    \/ ClusterStep /\ UNCHANGED <<job, staged, late, byHand>>
    \/ \E patch \in late : LatePatch(patch)

\* the guard goes on and its timers expire; neither the command, the helpers nor
\* the cluster need ever finish, and a killed process is reaped
Spec ==
    /\ Init /\ [][Next]_vars
    /\ WF_vars(GuardStep) /\ WF_vars(HelperTimeout) /\ WF_vars(JobTimeout)
    /\ WF_vars(KillTimeout) /\ \A p \in Procs : WF_vars(Reap(p))

----------------------------------------------------------------------------
(* Properties *)

Records == {context, job.evidence, staged.evidence}
Verified(record, component) ==
    record.kind = "saved" /\ record.state.coverage[component] = "verified"
Clean(status) == status.main /\ status.post /\ ~status.failed

(* What proofctl and the guard claim is true.  Resources are recorded as      *)
(* verified only when the namespace and every volume of it are gone, although *)
(* the job goes on creating claims and volumes appear during the deletion.  A *)
(* clean guard.json stands beside evidence of one complete, verified cleanup, *)
(* whatever became of the PATCHes before it; exit code 0 means that it is     *)
(* there and that the command ran to a successful end.                        *)
GuardTellsTruth ==
    /\ \A r \in Records : Verified(r, "resources") => ResourcesGone
    /\ Clean(staged.guard) =>
         /\ \A k \in Components : Verified(staged.evidence, k)
         /\ staged.evidence.state.complete /\ staged.evidence.state.attempts = 1
    /\ job.exit = "ok" => Clean(staged.guard) /\ job.command = "ok" /\ ~job.cancelled

Failures(record) == {k \in Components : record.state.coverage[k] = "failed"}

(* A recorded failure stays in the context file whatever commands run, one   *)
(* after the other or at the same time, and wherever they are killed.        *)
FailuresStay == [][Failures(context) \subseteq Failures(context')]_vars

(* The guard always comes to its end: a command that ignores its signals, a   *)
(* hanging or unreaped helper and a namespace that is never collected all run *)
(* into one of its time limits.                                               *)
GuardEnds == <>(job.pc \in {"exited", "dead", "absent"})
=============================================================================
