------------------------------ MODULE Finalizer ------------------------------
(***************************************************************************)
(* internal/finalizer: Engine.Run turns the coordinator's published          *)
(* artifacts into an archived, signed receipt.  state.json is saved before   *)
(* and after the calls that matter, an attempt is charged before it works,   *)
(* and result.json, the marker readers wait for, is written last.  The       *)
(* archive (internal/archive over an object store) keeps content by digest:  *)
(* a put of bytes it holds finds the version already there.  A flock keeps   *)
(* one finalizer at a time; it may die between any two calls.                *)
(***************************************************************************)
EXTENDS Naturals, FiniteSets

CONSTANTS
    Inputs,       \* names of the coordinator's artifacts that are archived
    MaxAttempts   \* charged attempts; six in the code

Signed == {"receipt.json", "receipt.bundle.json"}
Names  == Inputs \cup Signed

ASSUME FinalizerAssumption ==
    /\ IsFiniteSet(Inputs) /\ Inputs \cap Signed = {}
    /\ MaxAttempts \in Nat \ {0}

VARIABLES
    proc,       \* "down", or the point Run has reached
    mode,       \* why it publishes: a charged attempt, a recovery, a replay
    todo,       \* input names this attempt has not put yet
    read,       \* version of the inputs this process read
    source,     \* version of the coordinator's artifacts, 0 before its marker
    snap,       \* version of the private input snapshots
    state,      \* state.json
    due,        \* state's retry deadline has passed, or there is none
    bundleFile, \* the durable receipt.bundle.json, 0 if none
    signatures, \* how many bundles the signer has issued
    stored,     \* objects in the archive: name and content
    held,       \* objects with seven days of retention left
    out,        \* bundle in the output directory, 0 if none
    result,     \* bundle named by result.json, 0 if none
    calm        \* crashes and failing calls are over

procVars    == <<proc, mode, todo, read>>
archiveVars == <<stored, held>>
outVars     == <<out, result>>
vars == <<procVars, source, snap, state, due, bundleFile, signatures,
          archiveVars, outVars, calm>>

\* content is a number: the version of the inputs for everything derived from
\* them, the number of the signature for the bundle; 0 for none
Content == Nat
NoState == [status |-> "none", input |-> 0, attempts |-> 0,
            objects |-> [n \in Names |-> 0], receipt |-> 0, bundle |-> 0]

Statuses == {"none", "pending", "running", "retry", "recovering", "exhausted", "complete"}
AttemptPoints == {"put", "sign", "recordBundle", "verify", "putReceipt",
                  "putBundle"}
PublishPoints == {"protect", "publish", "mark", "finish"}
Points == {"down", "freeze", "frozen", "dispatch", "reconcile"}
          \cup AttemptPoints \cup PublishPoints

TypeOK ==
    /\ proc \in Points
    /\ mode \in {"none", "attempt", "recover", "replay"}
    /\ todo \subseteq Inputs
    /\ read \in 0..2 /\ source \in 0..2 /\ snap \in 0..2
    /\ state \in [status : Statuses, input : 0..2, attempts : 0..MaxAttempts,
                  objects : [Names -> Content], receipt : 0..2, bundle : Content]
    /\ due \in BOOLEAN /\ calm \in BOOLEAN
    /\ bundleFile \in Content /\ signatures \in Nat
    /\ stored \subseteq [name : Names, content : Content] /\ held \subseteq stored
    /\ out \in Content /\ result \in Content

Init ==
    /\ proc = "down" /\ mode = "none" /\ todo = {} /\ read = 0
    /\ source = 0 /\ snap = 0 /\ state = NoState /\ due = TRUE
    /\ bundleFile = 0 /\ signatures = 0 /\ stored = {} /\ held = {}
    /\ out = 0 /\ result = 0 /\ calm = FALSE

----------------------------------------------------------------------------
(* Run, up to the decision what to do *)

Down == proc' = "down" /\ mode' = "none" /\ todo' = {} /\ read' = 0
GoTo(p) == proc' = p /\ UNCHANGED <<mode, todo, read>>
Archived(n) == [name |-> n, content |-> state.objects[n]]
Recorded == {n \in Names : state.objects[n] # 0}
\* receipt and bundle are archived and recorded
BothArchived == Signed \subseteq Recorded /\ state.receipt # 0 /\ state.bundle # 0

\* readInputs: nothing happens before the coordinator's marker; a state frozen
\* from other inputs is a conflict
ReadInputs ==
    /\ proc = "down" /\ source # 0 /\ state.input \in {0, source}
    /\ proc' = (IF state.status = "none" THEN "freeze" ELSE "dispatch")
    /\ read' = source /\ mode' = "none" /\ todo' = {}
    /\ UNCHANGED <<source, snap, state, due, bundleFile, signatures, archiveVars, outVars, calm>>

\* first run: private copies of the inputs, then the state that names them
Freeze ==
    /\ proc = "freeze" /\ snap' = read /\ GoTo("frozen")
    /\ UNCHANGED <<source, state, due, bundleFile, signatures, archiveVars, outVars, calm>>

SaveFrozen ==
    /\ proc = "frozen" /\ GoTo("dispatch")
    /\ state' = [NoState EXCEPT !.status = "pending", !.input = read]
    /\ UNCHANGED <<source, snap, due, bundleFile, signatures, archiveVars, outVars, calm>>

Complete == state.status = "complete"
\* mutant: exhausted is what has used more than the budget
SpentBeyond == state.attempts > MaxAttempts

Spent == state.status = "exhausted" \/ state.attempts >= MaxAttempts

\* charge an attempt: durable before it works
Charge ==
    /\ state' = [state EXCEPT !.status = "running", !.attempts = @ + 1]
    /\ proc' = "put" /\ mode' = "attempt" /\ todo' = Inputs /\ UNCHANGED <<read, due>>
\* verify what is there and publish it
Publish(why) ==
    proc' = "reconcile" /\ mode' = why /\ UNCHANGED <<todo, read, state, due>>
Exhaust == state' = [state EXCEPT !.status = "exhausted"] /\ due' = TRUE /\ Down
NotDue == ~due /\ Down /\ UNCHANGED <<state, due>>

\* mutant: exhaustion is looked at before the archived work
DispatchExhaustedFirst ==
    /\ proc = "dispatch" /\ snap = state.input
    /\ \/ Complete /\ Publish("replay")
       \/ ~Complete /\ Spent /\ Exhaust
       \/ ~Complete /\ ~Spent /\ BothArchived /\ due /\ Publish("recover")
       \/ ~Complete /\ ~Spent /\ NotDue
       \/ ~Complete /\ ~Spent /\ ~BothArchived /\ due /\ Charge
    /\ UNCHANGED <<source, snap, bundleFile, signatures, archiveVars, outVars, calm>>

\* mutant: the attempt is not charged until it ends
DispatchUncharged ==
    /\ proc = "dispatch" /\ snap = state.input
    /\ ~Complete /\ ~BothArchived /\ ~Spent /\ due
    /\ proc' = "put" /\ mode' = "attempt" /\ todo' = Inputs
    /\ UNCHANGED <<read, state, due>>
    /\ UNCHANGED <<source, snap, bundleFile, signatures, archiveVars, outVars, calm>>

\* mutant: a state left "running" is taken for a live attempt
DispatchSkipsRunning ==
    /\ proc = "dispatch" /\ snap = state.input
    /\ \/ Complete /\ Publish("replay")
       \/ ~Complete /\ BothArchived /\ due /\ Publish("recover")
       \/ ~Complete /\ ~BothArchived /\ Spent /\ Exhaust
       \/ ~Complete /\ (BothArchived \/ ~Spent) /\ NotDue
       \/ ~Complete /\ ~BothArchived /\ ~Spent /\ due /\ state.status # "running" /\ Charge
       \/ state.status = "running" /\ ~BothArchived /\ Down /\ UNCHANGED <<state, due>>
    /\ UNCHANGED <<source, snap, bundleFile, signatures, archiveVars, outVars, calm>>

\* a complete state is replayed; archived work is recovered whatever the number
\* of attempts; otherwise an attempt is charged and saved before it works
Dispatch ==
    /\ proc = "dispatch" /\ snap = state.input
    /\ \/ Complete /\ Publish("replay")
       \/ ~Complete /\ BothArchived /\ due /\ Publish("recover")
       \/ ~Complete /\ ~BothArchived /\ Spent /\ Exhaust
       \/ ~Complete /\ (BothArchived \/ ~Spent) /\ NotDue
       \/ ~Complete /\ ~BothArchived /\ ~Spent /\ due /\ Charge
    /\ UNCHANGED <<source, snap, bundleFile, signatures, archiveVars, outVars, calm>>

----------------------------------------------------------------------------
(* attempt *)

\* put: a recorded object is verified and protected again, a new one is uploaded
\* (or found by its digest), verified, and recorded in the state
Put(n, content) ==
    LET c == IF state.objects[n] = 0 THEN content ELSE state.objects[n]
    IN  /\ state.objects[n] \in {0, content}
        /\ stored' = stored \cup {[name |-> n, content |-> c]}
        /\ held' = held \cup {[name |-> n, content |-> c]}
        /\ state' = [state EXCEPT !.objects[n] = c]

\* mutant: the coordinator's directory is read again
PutInputLive(n) ==
    /\ proc = "put" /\ n \in todo /\ Put(n, source)
    /\ todo' = todo \ {n} /\ UNCHANGED <<proc, mode, read>>
    /\ UNCHANGED <<source, snap, due, bundleFile, signatures, outVars, calm>>

PutInput(n) ==
    /\ proc = "put" /\ n \in todo /\ Put(n, state.input)
    /\ todo' = todo \ {n} /\ UNCHANGED <<proc, mode, read>>
    /\ UNCHANGED <<source, snap, due, bundleFile, signatures, outVars, calm>>

\* buildReceipt derives the receipt from the snapshots and the archived versions
BuildReceipt ==
    /\ proc = "put" /\ todo = {} /\ state.receipt \in {0, state.input}
    /\ state' = [state EXCEPT !.receipt = state.input] /\ GoTo("sign")
    /\ UNCHANGED <<source, snap, due, bundleFile, signatures, archiveVars, outVars, calm>>

\* mutant: every attempt signs
SignAgain ==
    /\ proc = "sign"
    /\ signatures' = signatures + 1 /\ bundleFile' = signatures + 1 /\ GoTo("recordBundle")
    /\ UNCHANGED <<source, snap, state, due, archiveVars, outVars, calm>>

\* a recorded bundle is reused; otherwise the receipt is signed and the bundle
\* is durable before the state names it
Sign ==
    /\ proc = "sign"
    /\ \/ state.bundle # 0 /\ bundleFile = state.bundle /\ GoTo("verify")
          /\ UNCHANGED <<signatures, bundleFile>>
       \/ /\ state.bundle = 0 /\ GoTo("recordBundle")
          /\ signatures' = signatures + 1 /\ bundleFile' = signatures + 1
    /\ UNCHANGED <<source, snap, state, due, archiveVars, outVars, calm>>

RecordBundle ==
    /\ proc = "recordBundle" /\ GoTo("verify")
    /\ state' = [state EXCEPT !.bundle = bundleFile]
    /\ UNCHANGED <<source, snap, due, bundleFile, signatures, archiveVars, outVars, calm>>

VerifyBundle ==
    /\ proc = "verify" /\ GoTo("putReceipt")
    /\ UNCHANGED <<source, snap, state, due, bundleFile, signatures, archiveVars, outVars, calm>>

PutReceipt ==
    /\ proc = "putReceipt" /\ Put("receipt.json", state.receipt) /\ GoTo("putBundle")
    /\ UNCHANGED <<source, snap, due, bundleFile, signatures, outVars, calm>>

PutBundle ==
    /\ proc = "putBundle" /\ Put("receipt.bundle.json", state.bundle) /\ GoTo("protect")
    /\ UNCHANGED <<source, snap, due, bundleFile, signatures, outVars, calm>>

----------------------------------------------------------------------------
(* completed and publish *)

\* mutant: only a charged attempt renews retention
ReconcileUnprotected ==
    /\ proc = "reconcile" /\ bundleFile = state.bundle
    /\ \A n \in Recorded : Archived(n) \in stored
    /\ GoTo("publish")
    /\ UNCHANGED <<source, snap, state, due, bundleFile, signatures, archiveVars, outVars, calm>>

\* completed: bytes, signature and every archived object are verified again; a
\* replay publishes at once, a recovery first renews retention
Reconcile ==
    /\ proc = "reconcile" /\ bundleFile = state.bundle
    /\ \A n \in Recorded : Archived(n) \in stored
    /\ GoTo(IF mode = "recover" THEN "protect" ELSE "publish")
    /\ UNCHANGED <<source, snap, state, due, bundleFile, signatures, archiveVars, outVars, calm>>

ProtectAll ==
    /\ proc = "protect" /\ GoTo("publish")
    /\ held' = held \cup {Archived(n) : n \in Recorded}
    /\ UNCHANGED <<source, snap, state, due, bundleFile, signatures, stored, outVars, calm>>

\* mutant: the marker is not last
PublishMarkerFirst ==
    /\ proc = "publish" /\ result' = state.bundle /\ GoTo("mark")
    /\ UNCHANGED <<source, snap, state, due, bundleFile, signatures, archiveVars, out, calm>>

PublishFiles ==
    /\ proc = "publish" /\ out' = state.bundle /\ GoTo("mark")
    /\ UNCHANGED <<source, snap, state, due, bundleFile, signatures, archiveVars, result, calm>>

PublishResult ==
    /\ proc = "mark" /\ result' = state.objects["receipt.bundle.json"] /\ GoTo("finish")
    /\ UNCHANGED <<source, snap, state, due, bundleFile, signatures, archiveVars, out, calm>>

Finish ==
    /\ proc = "finish" /\ Down
    /\ IF mode = "replay" THEN UNCHANGED <<state, due>>
       ELSE state' = [state EXCEPT !.status = "complete"] /\ due' = TRUE
    /\ UNCHANGED <<source, snap, bundleFile, signatures, archiveVars, outVars, calm>>

----------------------------------------------------------------------------
(* Failures *)

\* a call fails: the charged attempt is retried later or exhausted, a recovery
\* is retried in a minute, a replay saves nothing
Fail ==
    /\ ~calm /\ proc \in AttemptPoints \cup PublishPoints \cup {"reconcile"} /\ Down
    /\ \/ /\ mode = "attempt" /\ state.attempts >= MaxAttempts
          /\ state' = [state EXCEPT !.status = "exhausted"] /\ UNCHANGED due
       \/ /\ mode = "attempt" /\ state.attempts < MaxAttempts
          /\ state' = [state EXCEPT !.status = "retry"] /\ due' = FALSE
       \/ mode = "recover" /\ state' = [state EXCEPT !.status = "recovering"] /\ due' = FALSE
       \/ mode = "replay" /\ UNCHANGED <<state, due>>
    /\ UNCHANGED <<source, snap, bundleFile, signatures, archiveVars, outVars, calm>>

\* an upload is applied and the process dies before the state records it
UploadLost ==
    /\ ~calm /\ Down
    /\ \E n \in Names :
          /\ \/ proc = "put" /\ n \in todo
             \/ proc = "putReceipt" /\ n = "receipt.json"
             \/ proc = "putBundle" /\ n = "receipt.bundle.json"
          /\ state.objects[n] = 0
          /\ LET o == [name |-> n, content |-> IF n = "receipt.bundle.json" THEN state.bundle
                                               ELSE state.input]
             IN  stored' = stored \cup {o} /\ held' = held \cup {o}
    /\ UNCHANGED <<source, snap, state, due, bundleFile, signatures, outVars, calm>>

Crash ==
    /\ ~calm /\ proc # "down" /\ Down
    /\ UNCHANGED <<source, snap, state, due, bundleFile, signatures, archiveVars, outVars, calm>>

----------------------------------------------------------------------------
(* The coordinator, time and calm (external) *)

\* the marker appears; later the artifacts may be altered behind it
SourceChanges ==
    /\ source < 2 /\ source' = source + 1
    /\ UNCHANGED <<procVars, snap, state, due, bundleFile, signatures, archiveVars, outVars, calm>>

DeadlinePasses ==
    /\ ~due /\ due' = TRUE
    /\ UNCHANGED <<procVars, source, snap, state, bundleFile, signatures, archiveVars, outVars, calm>>

\* nobody runs the finalizer for days: retention falls under seven days
LongOffline ==
    /\ proc = "down" /\ held # {} /\ held' = {} /\ due' = TRUE
    /\ UNCHANGED <<procVars, source, snap, state, bundleFile, signatures, stored, outVars, calm>>

CalmDown ==
    /\ ~calm /\ calm' = TRUE
    /\ UNCHANGED <<procVars, source, snap, state, due, bundleFile, signatures, archiveVars, outVars>>

Step ==
    \/ ReadInputs \/ Freeze \/ SaveFrozen \/ Dispatch
    \/ \E n \in Inputs : PutInput(n)
    \/ BuildReceipt \/ Sign \/ RecordBundle \/ VerifyBundle \/ PutReceipt \/ PutBundle
    \/ Reconcile \/ ProtectAll \/ PublishFiles \/ PublishResult \/ Finish

Faults == Fail \/ UploadLost \/ Crash
World == SourceChanges \/ DeadlinePasses \/ LongOffline \/ CalmDown
Next == Step \/ Faults \/ World

Spec == Init /\ [][Next]_vars
\* whoever runs the finalizer runs it again (after exhaustion only an operator
\* does, see Watchdog), a live process goes on, time passes
FairSpec == Spec /\ WF_vars(Step) /\ WF_vars(DeadlinePasses)

----------------------------------------------------------------------------
(* Properties *)

\* Every signature was charged to an attempt that was durable before the signer
\* was called, so that kills and restarts never sign more than MaxAttempts times.
SigningIsCharged == signatures <= state.attempts /\ state.attempts <= MaxAttempts

\* Only one bundle is ever archived for a run: a bundle signed and lost before
\* the state named it is replaced before any upload, and never after.
OneBundleArchived ==
    \A a, b \in stored : a.name = b.name => a.content = b.content

\* Readers who see result.json find the recorded, archived receipt and bundle and
\* the output files; a restart, a replay or a lost process changes none of it.
ResultIsFinal ==
    /\ result # 0 =>
         /\ result = state.bundle /\ out = result /\ bundleFile = result
         /\ \A n \in Names : state.objects[n] # 0 /\ Archived(n) \in stored

\* The first publication happens only while every archived object has its full
\* retention, also when it recovers work archived before a long offline interval.
ProtectedAtPublication ==
    [][result = 0 /\ result' # 0 => \A n \in Recorded : Archived(n) \in held]_vars

\* The receipt is about the inputs frozen first: inputs altered afterwards are a
\* conflict and reach neither the snapshots nor the archive.
FrozenInputsOnly ==
    \A o \in stored : o.name \in Inputs \cup {"receipt.json"} => o.content = state.input

Promised == INSTANCE Publication WITH
    work <- [archived |-> BothArchived, published |-> result # 0,
             exhausted |-> state.status = "exhausted"]

\* The finalizer, killed and restarted at will, keeps the promise its callers build
\* on: archived work and a published result are never lost or withdrawn, nothing is
\* published that is not archived, and after exhaustion nothing new is archived.
PublishesAsPromised == Promised!Spec

\* Work that is archived is published once calls stop failing, also when it was
\* archived by the last charged attempt and the process died before saying so.
ArchivedIsPublished ==
    calm /\ BothArchived /\ source = state.input
        ~> result # 0 \/ source # state.input

\* A run that is ready ends complete or exhausted once calls stop failing, unless
\* its inputs are altered behind the marker.
RunsSettle ==
    calm /\ source # 0
        ~> state.status \in {"complete", "exhausted"} \/ source = 2
====
