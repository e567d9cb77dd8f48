------------------------------ MODULE Observer ------------------------------
(***************************************************************************)
(* The detached log collector of one runner pod (internal/coordinator/      *)
(* observer): Collect makes a private directory, takes its flock, watches   *)
(* the guard's CRI log directory with inotify before the guard can start,   *)
(* copies 0.log into a spool and judges at the end whether the copy is      *)
(* complete.  Read answers the coordinator's `ready' and `result' and, when *)
(* the collector is dead, publishes a gap in its place.  The container      *)
(* runtime writes the log meanwhile; somebody may rotate or truncate it.    *)
(* A chunk of output is its number in the order it was written.             *)
(***************************************************************************)
EXTENDS Naturals, Sequences, SequencesExt

CONSTANTS
    MaxChunks,   \* output the guard may write
    MaxLogs,     \* the collector's limit (100 MiB), in chunks
    QueueLimit,  \* events the kernel queues before it drops them
    MaxUpsets    \* rotations, truncations, kills and failing calls

ASSUME ObserverAssumption ==
    /\ MaxChunks \in Nat /\ MaxLogs \in Nat
    /\ QueueLimit \in Nat \ {0} /\ MaxUpsets \in Nat

Readers == {"live", "orphan"}
NoResult == [logs |-> "none", workspace |-> "none"]
Gap == [logs |-> "unobservable", workspace |-> "unobservable"]
NoWatch == [created |-> FALSE, closed |-> FALSE, problem |-> FALSE]

VARIABLES
    private,    \* what the private directory holds: dir, lock, spool, armed
    result,     \* result.json
    collector,  \* the point the collector has reached; none, dead or done
    watch,      \* what logWatch has seen
    raw,        \* the log file it has open: 0 none, 1 the first, 2 a later one
    spool,      \* job.log, the copy
    finding,    \* the workspace finding so far
    lockHolder, \* who holds the flock of the private directory
    readers,    \* Read in progress: the coordinator's, and one it left behind
    guard,      \* CRI state of the guard container
    log,        \* 0.log: generation, its contents by generation, writer open
    queue,      \* inotify events not read yet
    written,    \* chunks the guard has written
    workspace,  \* the run directory: dirty or clean, and its volume present
    cut,        \* history: output was cut off before the collector copied it
    upsets      \* rotations, truncations, kills and failing calls so far

observerVars == <<private, result, collector, watch, raw, spool, finding, lockHolder,
                  readers, guard, log, queue, written, workspace, cut, upsets>>
hostVars == <<guard, log, queue, written, workspace, cut>>
ownVars == <<watch, raw, spool, finding>>

Looping == {"drain", "copy", "list"}
Closing == {"drain1", "copy1", "inspect", "drain2", "copy2", "digest", "drain3"}
Alive == {"mkdir", "lockfile", "locked", "check", "watching", "finish"}
         \cup Looping \cup Closing

ObserverTypeOK ==
    /\ private \subseteq {"dir", "lock", "spool", "armed"}
    /\ result.logs \in {"none", "verified", "unobservable"}
    /\ result.workspace \in {"none", "verified", "failed", "unobservable"}
    /\ collector \in Alive \cup {"none", "dead", "done"}
    /\ watch \in [created : BOOLEAN, closed : BOOLEAN, problem : BOOLEAN]
    /\ raw \in 0..2 /\ spool \in Seq(1..MaxChunks)
    /\ finding \in {"verified", "failed", "unobservable"}
    /\ lockHolder \in Readers \cup {"none", "collector"}
    /\ readers \in [Readers -> [pc : {"off", "held", "busy"},
                                mode : {"ready", "result"}]]
    /\ guard \in {"none", "running", "exited"}
    /\ log.gen \in 0..2 /\ log.open \in BOOLEAN
    /\ written \in 0..MaxChunks /\ cut \in BOOLEAN /\ upsets \in 0..MaxUpsets

NoReader == [pc |-> "off", mode |-> "ready"]

ObserverInit ==
    /\ private = {} /\ result = NoResult /\ collector = "none"
    /\ watch = NoWatch /\ raw = 0 /\ spool = <<>> /\ finding = "unobservable"
    /\ lockHolder = "none" /\ readers = [r \in Readers |-> NoReader]
    /\ guard = "none" /\ log = [gen |-> 0, data |-> <<<<>>, <<>>>>, open |-> FALSE]
    /\ queue = <<>> /\ written = 0
    /\ workspace = [clean |-> FALSE, present |-> TRUE]
    /\ cut = FALSE /\ upsets = 0

Upset == upsets < MaxUpsets /\ upsets' = upsets + 1

----------------------------------------------------------------------------
(* The guard, the runtime's log writer and the file system *)

\* the kernel merges equal neighbours and drops what does not fit, saying so
Notified(event) ==
    IF collector \notin Looping \cup Closing \cup {"watching"} THEN queue
    ELSE IF queue # <<>> /\ Last(queue) \in {event, "overflow"} THEN queue
    ELSE Append(queue, IF Len(queue) < QueueLimit THEN event ELSE "overflow")

\* the runtime creates 0.log and starts the guard
GuardStarts ==
    /\ guard = "none" /\ guard' = "running"
    /\ log' = [log EXCEPT !.gen = 1, !.open = TRUE]
    /\ queue' = Notified("create")
    /\ UNCHANGED <<private, result, collector, ownVars, lockHolder, readers, written,
                   workspace, cut, upsets>>

LogWritten ==
    /\ log.open /\ written < MaxChunks
    /\ written' = written + 1
    /\ log' = [log EXCEPT !.data[log.gen] = Append(@, written + 1)]
    /\ queue' = Notified("modify")
    /\ UNCHANGED <<private, result, collector, ownVars, lockHolder, readers, guard,
                   workspace, cut, upsets>>

\* end of the guard's output, before or after the runtime reports its exit
LogClosed ==
    /\ log.open /\ log' = [log EXCEPT !.open = FALSE]
    /\ queue' = Notified("close")
    /\ UNCHANGED <<private, result, collector, ownVars, lockHolder, readers, guard,
                   written, workspace, cut, upsets>>

\* the guard wipes the run directory, or ends without having done so
GuardWipes ==
    /\ guard = "running" /\ ~workspace.clean
    /\ workspace' = [workspace EXCEPT !.clean = TRUE]
    /\ UNCHANGED <<private, result, collector, ownVars, lockHolder, readers, guard, log,
                   queue, written, cut, upsets>>

GuardExits ==
    /\ guard = "running" /\ guard' = "exited"
    /\ UNCHANGED <<private, result, collector, ownVars, lockHolder, readers, log, queue,
                   written, workspace, cut, upsets>>

\* rename 0.log away and let the runtime go on in a new one
LogRotated ==
    /\ log.open /\ log.gen = 1 /\ Upset
    /\ log' = [log EXCEPT !.gen = 2]
    /\ queue' = Notified("moved")
    /\ UNCHANGED <<private, result, collector, ownVars, lockHolder, readers, guard,
                   written, workspace, cut>>

\* truncate(2) leaves k chunks; the watch reports it as a modification
LogTruncated(k) ==
    /\ log.open /\ k < Len(log.data[log.gen]) /\ Upset
    /\ log' = [log EXCEPT !.data[log.gen] = SubSeq(@, 1, k)]
    /\ queue' = Notified("modify")
    /\ cut' = (cut \/ k >= Len(spool))
    /\ UNCHANGED <<private, result, collector, ownVars, lockHolder, readers, guard,
                   written, workspace>>

\* the pod's volumes are taken down after its containers stopped
VolumeGone ==
    /\ guard = "exited" /\ workspace.present /\ Upset
    /\ workspace' = [workspace EXCEPT !.present = FALSE]
    /\ UNCHANGED <<private, result, collector, ownVars, lockHolder, readers, guard, log,
                   queue, written, cut>>

----------------------------------------------------------------------------
(* Collect *)

CollectorAt(from, to) ==
    /\ collector = from /\ collector' = to
    /\ UNCHANGED <<result, readers, hostVars, upsets>>

\* a second collector fails on the exclusive mkdir and leaves nothing behind
CollectorStarts ==
    /\ IF collector = "none"
       THEN collector' = "mkdir" /\ private' = {"dir"}
       ELSE UNCHANGED <<collector, private>>
    /\ UNCHANGED <<result, ownVars, lockHolder, readers, hostVars, upsets>>

MakeLock ==
    /\ CollectorAt("mkdir", "lockfile") /\ private' = private \cup {"lock"}
    /\ UNCHANGED <<ownVars, lockHolder>>

\* LOCK_NB: a reader that got in between the two calls makes the collector give up
TakeLock ==
    /\ IF lockHolder = "none"
       THEN CollectorAt("lockfile", "locked") /\ lockHolder' = "collector"
       ELSE CollectorAt("lockfile", "dead") /\ UNCHANGED lockHolder
    /\ UNCHANGED <<private, ownVars>>

MakeSpool ==
    /\ CollectorAt("locked", "check") /\ private' = private \cup {"spool"}
    /\ UNCHANGED <<ownVars, lockHolder>>

\* checkBeforeStart: the init gate holds the workload, no guard container exists
BeforeStart(holding) == holding /\ guard = "none"

\* first check, empty guard directory, inotify watches
InstallWatch(holding) ==
    /\ CollectorAt("check", IF BeforeStart(holding) THEN "watching" ELSE "finish")
    /\ UNCHANGED <<private, ownVars, lockHolder>>

\* second check, and armed.json says that the start is proven
Arm(holding) ==
    /\ CollectorAt("watching", IF BeforeStart(holding) THEN "drain" ELSE "finish")
    /\ private' = IF BeforeStart(holding) THEN private \cup {"armed"} ELSE private
    /\ UNCHANGED <<ownVars, lockHolder>>

\* logWatch.events on one event; anything out of order is an irreversible problem
Event(w, event) ==
    CASE event = "create" /\ ~w.created              -> [w EXCEPT !.created = TRUE]
      [] event = "modify" /\ w.created /\ ~w.closed  -> w
      [] event = "close"  /\ w.created /\ ~w.closed  -> [w EXCEPT !.closed = TRUE]
      [] OTHER                                       -> [w EXCEPT !.problem = TRUE]

AfterDrain == [drain |-> "copy", drain1 |-> "copy1", drain2 |-> "copy2"]
AfterCopy  == [copy |-> "list", copy1 |-> "inspect", copy2 |-> "digest"]

\* one queued event; the kernel hands them out one by one, also within one read(2)
ReadEvent ==
    /\ collector \in DOMAIN AfterDrain \cup {"drain3"} /\ queue # <<>>
    /\ watch' = Event(watch, Head(queue)) /\ queue' = Tail(queue)
    /\ UNCHANGED <<private, result, collector, raw, spool, finding, lockHolder, readers,
                   guard, log, written, workspace, cut, upsets>>

\* first half of pump: EAGAIN, every queued event has been read
Drain ==
    /\ collector \in DOMAIN AfterDrain /\ queue = <<>>
    /\ CollectorAt(collector, AfterDrain[collector])
    /\ UNCHANGED <<private, ownVars, lockHolder>>

Size(gen) == Len(log.data[gen])

\* second half of pump: open 0.log once, compare sizes, copy what is new
Copy ==
    LET file == IF raw = 0 THEN log.gen ELSE raw
        shrunk == Size(file) < Len(spool)
    IN /\ collector \in DOMAIN AfterCopy /\ collector' = AfterCopy[collector]
       /\ raw' = file
       /\ IF file = 0 THEN UNCHANGED <<watch, spool>>
          ELSE /\ watch' = IF shrunk \/ Size(file) > MaxLogs
                           THEN [watch EXCEPT !.problem = TRUE] ELSE watch
               /\ spool' = IF shrunk THEN spool
                           ELSE spool \o SubSeq(log.data[file], Len(spool) + 1,
                                                IF Size(file) < MaxLogs THEN Size(file)
                                                ELSE MaxLogs)
       /\ UNCHANGED <<private, result, finding, lockHolder, readers, hostVars, upsets>>

ListEndsOnExit ==
    /\ CollectorAt("list", IF guard = "exited" THEN "drain1" ELSE "drain")
    /\ UNCHANGED <<private, ownVars, lockHolder>>

\* the containers of the sandbox: terminal only with exit and writer close observed
List ==
    /\ CollectorAt("list", IF guard = "exited" /\ (watch.closed \/ watch.problem)
                           THEN "drain1" ELSE "drain")
    /\ UNCHANGED <<private, ownVars, lockHolder>>

\* inspectWorkspace on the stopped runner's volume
InspectWorkspace ==
    /\ CollectorAt("inspect", "drain2")
    /\ finding' = IF ~workspace.present THEN "unobservable"
                  ELSE IF workspace.clean THEN "verified" ELSE "failed"
    /\ UNCHANGED <<private, watch, raw, spool, lockHolder>>

\* creation observed, then the digests of source and spool are compared
Digest ==
    /\ CollectorAt("digest", IF raw = 0 \/ ~watch.created THEN "finish" ELSE "drain3")
    /\ watch' = IF raw # 0 /\ (log.data[raw] # spool \/ Size(raw) > MaxLogs)
                THEN [watch EXCEPT !.problem = TRUE] ELSE watch
    /\ UNCHANGED <<private, raw, spool, finding, lockHolder>>

\* the process ends: its memory, its watch and its lock go, the files stay
Gone(how) ==
    /\ collector' = how
    /\ watch' = NoWatch /\ raw' = 0 /\ finding' = "unobservable" /\ queue' = <<>>
    /\ lockHolder' = IF lockHolder = "collector" THEN "none" ELSE lockHolder
    /\ UNCHANGED <<private, spool, readers, guard, log, written, workspace, cut>>

\* result.json is written last
WriteResult(logs) ==
    /\ result' = [logs |-> logs, workspace |-> finding]
    /\ Gone("done") /\ UNCHANGED upsets

\* last drain and the verdict on the logs
Judge ==
    /\ collector = "drain3" /\ queue = <<>>
    /\ WriteResult(IF watch.problem THEN "unobservable" ELSE "verified")

\* an error of collect: what was found so far is published with a log gap
FinishWithGap == collector = "finish" /\ WriteResult("unobservable")

\* the collector's deadline: the listing fails under it, or did not end the loop
CollectorTimeout ==
    /\ CollectorAt("list", "finish")
    /\ UNCHANGED <<private, ownVars, lockHolder>>

\* a failing CRI, file or watch call
CollectorFails ==
    /\ collector \in {"check", "watching"} \cup Looping \cup Closing /\ Upset
    /\ collector' = "finish"
    /\ UNCHANGED <<private, result, ownVars, lockHolder, readers, hostVars>>

CollectorKilled ==
    /\ collector \in Alive /\ Upset /\ Gone("dead")
    /\ UNCHANGED result

----------------------------------------------------------------------------
(* Read *)

ReadLockUnchecked(r, mode) ==
    /\ readers[r].pc = "off" /\ "lock" \in private
    /\ readers' = [readers EXCEPT
          ![r] = [pc |-> IF lockHolder = "none" \/ mode = "result" THEN "held" ELSE "busy",
                  mode |-> mode]]
    /\ lockHolder' = IF lockHolder = "none" THEN r ELSE lockHolder
    /\ UNCHANGED <<private, result, collector, ownVars, hostVars, upsets>>

\* open the lock file and try the flock; a taken lock is taken for a live collector
ReadLock(r, mode) ==
    /\ readers[r].pc = "off" /\ "lock" \in private
    /\ IF lockHolder = "none"
       THEN /\ readers' = [readers EXCEPT ![r] = [pc |-> "held", mode |-> mode]]
            /\ lockHolder' = r
       ELSE /\ readers' = [readers EXCEPT ![r] = [pc |-> "busy", mode |-> mode]]
            /\ UNCHANGED lockHolder
    /\ UNCHANGED <<private, result, collector, ownVars, hostVars, upsets>>

\* the directory or the lock file is not there
Unreadable == "lock" \notin private

\* what ready answers: armed.json of a collector that holds its lock
IsReady(r) == readers[r].pc = "busy" /\ "armed" \in private

ReadEndsWithoutGap(r) ==
    /\ readers[r].pc # "off"
    /\ readers' = [readers EXCEPT ![r] = NoReader]
    /\ lockHolder' = IF lockHolder = r THEN "none" ELSE lockHolder
    /\ UNCHANGED <<private, result, collector, ownVars, hostVars, upsets>>

\* the process ends; with the lock in hand, result first publishes the gap of a
\* collector that died with a spool and no result
ReadEnds(r) ==
    /\ readers[r].pc # "off"
    /\ result' = IF /\ readers[r] = [pc |-> "held", mode |-> "result"]
                    /\ result = NoResult /\ "spool" \in private
                 THEN Gap ELSE result
    /\ readers' = [readers EXCEPT ![r] = NoReader]
    /\ lockHolder' = IF lockHolder = r THEN "none" ELSE lockHolder
    /\ UNCHANGED <<private, collector, ownVars, hostVars, upsets>>

\* the caller of the live reader dies or stops waiting, the reader goes on
ReaderLeftBehind ==
    /\ readers["live"].pc # "off" /\ readers["orphan"].pc = "off"
    /\ readers' = [readers EXCEPT !["orphan"] = readers["live"], !["live"] = NoReader]
    /\ lockHolder' = IF lockHolder = "live" THEN "orphan" ELSE lockHolder
    /\ UNCHANGED <<private, result, collector, ownVars, hostVars, upsets>>

----------------------------------------------------------------------------
CollectorStep(holding) ==
    \/ MakeLock \/ TakeLock \/ MakeSpool \/ InstallWatch(holding) \/ Arm(holding)
    \/ ReadEvent \/ Drain \/ Copy \/ List \/ InspectWorkspace \/ Digest \/ Judge \/ FinishWithGap
RuntimeStep == LogWritten \/ LogClosed \/ GuardWipes \/ GuardExits
ObserverFaults ==
    \/ LogRotated \/ VolumeGone \/ CollectorFails \/ CollectorKilled
    \/ \E k \in 0..MaxChunks : LogTruncated(k)
=============================================================================
