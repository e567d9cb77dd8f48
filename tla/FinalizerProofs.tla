--------------------------- MODULE FinalizerProofs ---------------------------
(***************************************************************************)
(* Theorems about Finalizer, for every set of input artifacts and every     *)
(* number of charged attempts.  IInv is the inductive invariant: what the   *)
(* state file, the archive and the output directory hold at each point of   *)
(* Run, also when a crash leaves the point behind.                          *)
(***************************************************************************)
EXTENDS Finalizer, TLAPS

\* after BuildReceipt, until the bundle is archived
Signing == {"sign", "recordBundle", "verify", "putReceipt", "putBundle"}
AllRecorded == \A n \in Names : state.objects[n] # 0

\* a state file that does not exist yet, and the inputs it will name
Frozen ==
    /\ state.status = "none" => state = NoState /\ stored = {}
    /\ proc \in {"freeze", "frozen"} => state.status = "none"
    /\ proc \notin {"down", "freeze", "frozen"} => state.status # "none"
    /\ proc # "down" => read # 0
    /\ state.status # "none" => state.input # 0

\* the attempt at work was charged and has not signed yet
Charged ==
    /\ signatures <= state.attempts
    /\ proc \in {"put", "sign"} => signatures < state.attempts

\* what is recorded is stored, and what is stored has the one content it may have
Kept ==
    /\ \A n \in Names : state.objects[n] # 0 => Archived(n) \in stored
    /\ \A o \in stored :
          /\ o.content # 0
          /\ o.content = IF o.name = "receipt.bundle.json" THEN state.bundle ELSE state.input

\* a bundle the state names is the durable one and is never signed again
Bundled ==
    /\ state.bundle # 0 => bundleFile = state.bundle
    /\ proc = "recordBundle" => state.bundle = 0 /\ bundleFile # 0
    /\ proc \in {"verify", "putReceipt", "putBundle"} => state.bundle # 0

\* inputs are archived before the receipt, the receipt before the bundle
Ordered ==
    /\ proc = "put" => \A n \in Inputs : n \in todo \/ state.objects[n] # 0
    /\ proc \in Signing => state.receipt = state.input
    /\ proc \in Signing \/ state.objects["receipt.json"] # 0 =>
          \A n \in Inputs : state.objects[n] # 0
    /\ proc = "putBundle" \/ state.objects["receipt.bundle.json"] # 0 =>
          state.objects["receipt.json"] # 0
    /\ state.objects["receipt.json"] # 0 => state.receipt = state.input
    /\ \/ proc \in PublishPoints \cup {"reconcile"}
       \/ state.status = "complete" \/ result # 0
       => AllRecorded /\ state.bundle # 0

\* the output directory, and the retention of what is being published
Published ==
    /\ result # 0 => result = state.bundle /\ out = result
    /\ state.status = "complete" => result # 0
    /\ proc \in AttemptPoints => mode = "attempt" /\ state.status = "running"
    /\ proc = "reconcile" => mode \in {"recover", "replay"}
    /\ proc \in PublishPoints \cup {"reconcile"} /\ mode = "replay" => state.status = "complete"
    /\ proc \in {"publish", "mark"} /\ mode # "replay" =>
          \A n \in Names : Archived(n) \in held
    /\ proc = "mark" => out = state.bundle
    /\ proc = "finish" => result # 0

IInv == TypeOK /\ Frozen /\ Charged /\ Kept /\ Bundled /\ Ordered /\ Published

----------------------------------------------------------------------------
(* The initial states and every step keep IInv *)

LEMMA InitInv == Init => IInv
  <1> SUFFICES ASSUME Init PROVE IInv
    OBVIOUS
  <1> USE DEF Init, NoState
  <1>1. state.objects \in [Names -> Content]
    BY DEF Content
  <1>2. TypeOK
    <2>1. state \in [status : Statuses, input : 0..2, attempts : 0..MaxAttempts,
                     objects : [Names -> Content], receipt : 0..2, bundle : Content]
      BY <1>1, FinalizerAssumption DEF Statuses, Content
    <2> QED
      BY <2>1 DEF TypeOK, Points, Content
  <1>3. "receipt.json" \in Names /\ "receipt.bundle.json" \in Names
    BY DEF Names, Signed
  <1>4. Frozen /\ Charged /\ Kept /\ Bundled
    BY DEF Frozen, Charged, Kept, Bundled
  <1>5. Ordered /\ Published
    BY <1>3 DEF Ordered, Published, Signing, AttemptPoints, PublishPoints
  <1> QED
    BY <1>2, <1>4, <1>5 DEF IInv

\* Only the status changes, as after a failure or at the end.
LEMMA StatusType ==
    ASSUME TypeOK, NEW s \in Statuses, state' = [state EXCEPT !.status = s]
    PROVE  /\ state' \in [status : Statuses, input : 0..2, attempts : 0..MaxAttempts,
                          objects : [Names -> Content], receipt : 0..2, bundle : Content]
           /\ state'.status = s /\ state'.input = state.input
           /\ state'.attempts = state.attempts /\ state'.objects = state.objects
           /\ state'.receipt = state.receipt /\ state'.bundle = state.bundle
  BY DEF TypeOK

\* Run up to the decision, and what Dispatch decides.
LEMMA DispatchInv ==
    ASSUME IInv, ReadInputs \/ Freeze \/ SaveFrozen \/ Dispatch
    PROVE  IInv'
  <1> USE FinalizerAssumption
      DEF IInv, TypeOK, Frozen, Charged, Kept, Bundled, Ordered, Published, AllRecorded,
          Archived, Points, AttemptPoints, PublishPoints, Signing, Names, Signed, Statuses,
          Content, GoTo, Down, archiveVars, outVars
  <1>1. CASE ReadInputs
    BY <1>1 DEF ReadInputs
  <1>2. CASE Freeze
    BY <1>2 DEF Freeze
  <1>3. CASE SaveFrozen
    BY <1>3 DEF SaveFrozen, NoState
  <1>4. CASE Dispatch /\ Complete /\ Publish("replay")
    BY <1>4 DEF Dispatch, Complete, Publish
  <1>5. CASE Dispatch /\ BothArchived /\ Publish("recover")
    BY <1>5 DEF Dispatch, BothArchived, Recorded, Publish
  <1>6. CASE Dispatch /\ ~Complete /\ Exhaust
    BY <1>6, StatusType DEF Dispatch, Complete, Exhaust
  <1>7. CASE Dispatch /\ NotDue
    BY <1>7 DEF Dispatch, NotDue
  <1>8. CASE Dispatch /\ ~Complete /\ ~Spent /\ Charge
    <2>1. /\ state.attempts + 1 \in 0..MaxAttempts
          /\ signatures < state.attempts + 1
      BY <1>8 DEF Spent
    <2>2. state' \in [status : Statuses, input : 0..2, attempts : 0..MaxAttempts,
                      objects : [Names -> Content], receipt : 0..2, bundle : Content]
      BY <1>8, <2>1 DEF Charge
    <2>3. TypeOK' /\ Frozen' /\ Charged'
      BY <1>8, <2>1, <2>2 DEF Dispatch, Charge
    <2>4. Kept' /\ Bundled' /\ Ordered' /\ Published'
      BY <1>8 DEF Dispatch, Complete, Charge
    <2> QED
      BY <2>3, <2>4
  <1> QED
    BY <1>1, <1>2, <1>3, <1>4, <1>5, <1>6, <1>7, <1>8 DEF Dispatch

\* attempt: archive the inputs, build, sign, archive receipt and bundle.
LEMMA AttemptInv ==
    ASSUME IInv,
           \/ \E n \in Inputs : PutInput(n)
           \/ BuildReceipt \/ Sign \/ RecordBundle \/ VerifyBundle \/ PutReceipt \/ PutBundle
    PROVE  IInv'
  <1> USE FinalizerAssumption
      DEF IInv, TypeOK, Frozen, Charged, Kept, Bundled, Ordered, Published, AllRecorded,
          Archived, Points, AttemptPoints, PublishPoints, Signing, Names, Signed, Statuses,
          Content, GoTo, archiveVars, outVars
  <1>1. ASSUME NEW n \in Inputs, PutInput(n) PROVE IInv'
    BY <1>1 DEF PutInput, Put
  <1>2. CASE BuildReceipt
    BY <1>2 DEF BuildReceipt
  <1>3. CASE Sign
    BY <1>3 DEF Sign
  <1>4. CASE RecordBundle
    BY <1>4 DEF RecordBundle
  <1>5. CASE VerifyBundle
    BY <1>5 DEF VerifyBundle
  <1>6. CASE PutReceipt
    BY <1>6 DEF PutReceipt, Put
  <1>7. CASE PutBundle
    <2>1. TypeOK' /\ Frozen' /\ Charged' /\ Kept' /\ Bundled'
      BY <1>7 DEF PutBundle, Put
    <2>2. Ordered'
      BY <1>7 DEF PutBundle, Put
    <2>3. Published'
      BY <1>7 DEF PutBundle, Put
    <2> QED
      BY <2>1, <2>2, <2>3
  <1> QED
    BY <1>1, <1>2, <1>3, <1>4, <1>5, <1>6, <1>7

\* completed and publish: the marker goes last, retention before it.
LEMMA PublishInv ==
    ASSUME IInv, Reconcile \/ ProtectAll \/ PublishFiles \/ PublishResult \/ Finish
    PROVE  IInv'
  <1> USE FinalizerAssumption
      DEF IInv, TypeOK, Frozen, Charged, Kept, Bundled, Ordered, Published, AllRecorded,
          Archived, Points, AttemptPoints, PublishPoints, Signing, Names, Signed, Statuses,
          Content, GoTo, Down, archiveVars, outVars
  <1>1. CASE Reconcile
    BY <1>1 DEF Reconcile
  <1>2. CASE ProtectAll
    BY <1>2 DEF ProtectAll, Recorded
  <1>3. CASE PublishFiles
    BY <1>3 DEF PublishFiles
  <1>4. CASE PublishResult
    <2>1. result' = state.bundle /\ state.bundle # 0
      <3>1. Archived("receipt.bundle.json") \in stored
        BY <1>4 DEF PublishResult
      <3> QED
        BY <1>4, <3>1 DEF PublishResult
    <2> QED
      BY <1>4, <2>1 DEF PublishResult
  <1>5. CASE Finish
    <2>1. CASE mode = "replay"
      BY <1>5, <2>1 DEF Finish
    <2>2. CASE mode # "replay"
      BY <1>5, <2>2, StatusType DEF Finish
    <2> QED
      BY <2>1, <2>2
  <1> QED
    BY <1>1, <1>2, <1>3, <1>4, <1>5

\* Failing calls, crashes, time and altered inputs.
LEMMA FaultInv ==
    ASSUME IInv, Faults \/ World \/ UNCHANGED vars
    PROVE  IInv'
  <1> USE FinalizerAssumption
      DEF IInv, TypeOK, Frozen, Charged, Kept, Bundled, Ordered, Published, AllRecorded,
          Archived, Points, AttemptPoints, PublishPoints, Signing, Names, Signed, Statuses,
          Content, Down, procVars, archiveVars, outVars
  <1>1. ASSUME Fail PROVE IInv'
    <2>1. CASE UNCHANGED <<state, due>>
      BY <1>1, <2>1 DEF Fail
    <2>2. ASSUME NEW s \in {"exhausted", "retry", "recovering"}, due' \in BOOLEAN,
                 state' = [state EXCEPT !.status = s]
          PROVE  IInv'
      BY <1>1, <2>2, StatusType DEF Fail
    <2> QED
      BY <1>1, <2>1, <2>2 DEF Fail
  <1>2. CASE UploadLost
    BY <1>2 DEF UploadLost
  <1>3. CASE Crash
    BY <1>3 DEF Crash
  <1>4. CASE SourceChanges
    BY <1>4 DEF SourceChanges
  <1>5. CASE DeadlinePasses
    BY <1>5 DEF DeadlinePasses
  <1>6. CASE LongOffline
    BY <1>6 DEF LongOffline
  <1>7. CASE CalmDown
    BY <1>7 DEF CalmDown
  <1>8. CASE UNCHANGED vars
    BY <1>8 DEF vars
  <1> QED
    BY <1>1, <1>2, <1>3, <1>4, <1>5, <1>6, <1>7, <1>8 DEF Faults, World

LEMMA NextInv == IInv /\ [Next]_vars => IInv'
  BY DispatchInv, AttemptInv, PublishInv, FaultInv DEF Next, Step

LEMMA Invariance == Spec => []IInv
  BY InitInv, NextInv, PTL DEF Spec

----------------------------------------------------------------------------
(* Theorems *)

\* state.json, the archive and the output directory are always well-formed, and
\* nothing has retention that is not stored.
THEOREM FinalizerTypes == Spec => []TypeOK
  <1>1. IInv => TypeOK
    BY DEF IInv
  <1> QED
    BY <1>1, Invariance, PTL

\* However often Run is killed and restarted, it never calls the signer more often
\* than attempts were charged and saved, and never more than MaxAttempts times.
THEOREM AttemptsBoundSigning == Spec => []SigningIsCharged
  <1>1. IInv => SigningIsCharged
    BY FinalizerAssumption DEF IInv, TypeOK, Charged, SigningIsCharged
  <1> QED
    BY <1>1, Invariance, PTL

\* Every name in the archive has one content for ever: no crash between upload and
\* save, and no second signature, leaves two bundles or two receipts behind.
THEOREM ArchiveIsUnambiguous == Spec => []OneBundleArchived
  <1>1. IInv => OneBundleArchived
    BY DEF IInv, Kept, OneBundleArchived
  <1> QED
    BY <1>1, Invariance, PTL

\* Whoever sees result.json finds the recorded and archived receipt, the bundle it
\* names and the same bundle in the output directory, after any restart or replay.
THEOREM PublishedIsFinal == Spec => []ResultIsFinal
  <1>1. IInv => ResultIsFinal
    BY DEF IInv, Kept, Bundled, Ordered, Published, AllRecorded, ResultIsFinal
  <1> QED
    BY <1>1, Invariance, PTL

\* Inputs altered behind the coordinator's marker never reach the archive: what is
\* stored, the receipt included, is about the inputs frozen first.
THEOREM ArchiveIsFrozen == Spec => []FrozenInputsOnly
  <1>1. IInv => FrozenInputsOnly
    BY FinalizerAssumption DEF IInv, Kept, FrozenInputsOnly, Signed
  <1> QED
    BY <1>1, Invariance, PTL

\* result.json first appears while every recorded object has its full retention,
\* whichever of attempt, recovery and replay publishes it.
THEOREM PublicationIsProtected == Spec => ProtectedAtPublication
  <1>1. IInv /\ [Next]_vars =>
          [result = 0 /\ result' # 0 => \A n \in Recorded : Archived(n) \in held]_vars
    <2> SUFFICES ASSUME IInv, [Next]_vars, result = 0, result' # 0
                 PROVE  \A n \in Recorded : Archived(n) \in held
      OBVIOUS
    <2>1. PublishResult
      BY DEF Next, Step, Faults, World, vars, procVars, archiveVars, outVars, ReadInputs,
             Freeze, SaveFrozen, Dispatch, PutInput, BuildReceipt, Sign, RecordBundle,
             VerifyBundle, PutReceipt, PutBundle, Reconcile, ProtectAll, PublishFiles, Finish,
             Fail, UploadLost, Crash, SourceChanges, DeadlinePasses, LongOffline, CalmDown
    <2>2. proc = "mark" /\ mode # "replay"
      BY <2>1 DEF IInv, Published, PublishResult, PublishPoints
    <2> QED
      BY <2>2 DEF IInv, Published, Recorded
  <1> QED
    BY <1>1, Invariance, PTL DEF Spec, ProtectedAtPublication

----------------------------------------------------------------------------
(* The promise to those who run the finalizer *)

LEMMA BothArchivedFacts ==
    ASSUME IInv
    PROVE  BothArchived <=> /\ state.objects["receipt.json"] # 0
                            /\ state.objects["receipt.bundle.json"] # 0 /\ state.bundle # 0
  <1>1. Signed \subseteq Names
    BY DEF Names
  <1>2. Signed \subseteq Recorded <=> /\ state.objects["receipt.json"] # 0
                                     /\ state.objects["receipt.bundle.json"] # 0
    BY <1>1 DEF Signed, Recorded
  <1>3. state.objects["receipt.json"] # 0 => state.receipt = state.input /\ state.input # 0
    <2>1. state.objects["receipt.json"] # 0 => state.receipt = state.input
      BY DEF IInv, Ordered
    <2>2. state.status = "none" => state.objects["receipt.json"] = 0
      BY <1>1 DEF IInv, Frozen, NoState, Signed
    <2> QED
      BY <2>1, <2>2 DEF IInv, Frozen
  <1> QED
    BY <1>2, <1>3 DEF BothArchived

LEMMA BothArchivedAfter ==
    ASSUME IInv'
    PROVE  BothArchived' <=> /\ state'.objects["receipt.json"] # 0
                             /\ state'.objects["receipt.bundle.json"] # 0 /\ state'.bundle # 0
  <1>1. Signed \subseteq Names
    BY DEF Names
  <1>2. Signed \subseteq Recorded' <=> /\ state'.objects["receipt.json"] # 0
                                      /\ state'.objects["receipt.bundle.json"] # 0
    BY <1>1 DEF Signed, Recorded
  <1>3. state'.objects["receipt.json"] # 0 => state'.receipt = state'.input /\ state'.input # 0
    <2>1. state'.objects["receipt.json"] # 0 => state'.receipt = state'.input
      BY DEF IInv, Ordered
    <2>2. state'.status = "none" => state'.objects["receipt.json"] = 0
      BY <1>1 DEF IInv, Frozen, NoState, Signed
    <2> QED
      BY <2>1, <2>2 DEF IInv, Frozen
  <1> QED
    BY <1>2, <1>3 DEF BothArchived

\* the steps that do not touch the work itself
Elsewhere ==
    \/ ReadInputs \/ Freeze \/ Dispatch \/ BuildReceipt \/ Sign \/ VerifyBundle \/ Reconcile
    \/ ProtectAll \/ PublishFiles \/ Finish \/ Faults \/ World \/ UNCHANGED vars

LEMMA ElsewhereKeeps ==
    ASSUME IInv, Elsewhere
    PROVE  /\ state'.objects = state.objects /\ state'.bundle = state.bundle
           /\ result' = result
  <1> USE DEF GoTo, Down, procVars, archiveVars, outVars
  <1>1. result' = result
    BY DEF Elsewhere, ReadInputs, Freeze, Dispatch, BuildReceipt, Sign, VerifyBundle,
       Reconcile, ProtectAll, PublishFiles, Finish, Faults, World, Fail, UploadLost, Crash,
       SourceChanges, DeadlinePasses, LongOffline, CalmDown, vars
  <1>2. \/ state' = state
        \/ \E t \in Statuses : state' = [state EXCEPT !.status = t]
        \/ state' = [state EXCEPT !.status = "running", !.attempts = @ + 1]
        \/ state' = [state EXCEPT !.receipt = state.input]
    BY DEF Elsewhere, ReadInputs, Freeze, Dispatch, BuildReceipt, Sign, VerifyBundle,
       Reconcile, ProtectAll, PublishFiles, Finish, Faults, World, Fail, UploadLost, Crash,
       SourceChanges, DeadlinePasses, LongOffline, CalmDown, vars, Publish, Exhaust, NotDue,
       Charge, Statuses
  <1> QED
    BY <1>1, <1>2 DEF IInv, TypeOK

\* put records a version that exists
LEMMA PutKeeps ==
    ASSUME IInv, NEW n \in Names, NEW content \in Content \ {0}, Put(n, content)
    PROVE  /\ \A m \in Names : state.objects[m] # 0 => state'.objects[m] # 0
           /\ state'.bundle = state.bundle /\ state'.status = state.status
  BY DEF IInv, TypeOK, Put

\* what is recorded stays recorded, and a result is only replaced by a bundle
LEMMA StepKeeps ==
    ASSUME IInv, [Next]_vars
    PROVE  /\ \A n \in Names : state.objects[n] # 0 => state'.objects[n] # 0
           /\ state.bundle # 0 => state'.bundle # 0
           /\ result # 0 => result' # 0
  <1>1. CASE Elsewhere
    BY <1>1, ElsewhereKeeps
  <1>2. ASSUME NEW n \in Names, NEW content \in Content \ {0}, Put(n, content),
               UNCHANGED outVars
        PROVE  /\ \A m \in Names : state.objects[m] # 0 => state'.objects[m] # 0
               /\ state.bundle # 0 => state'.bundle # 0
               /\ result # 0 => result' # 0
    BY <1>2, PutKeeps DEF outVars
  <1>3. CASE PutReceipt \/ PutBundle \/ \E n \in Inputs : PutInput(n)
    <2>1. {"receipt.json", "receipt.bundle.json"} \cup Inputs \subseteq Names
      BY DEF Names, Signed
    <2>2. ASSUME NEW n \in Inputs, PutInput(n)
          PROVE  Put(n, state.input) /\ UNCHANGED outVars /\ state.input \in Content \ {0}
      BY <2>2 DEF PutInput, IInv, Frozen, TypeOK, Content
    <2>3. CASE PutReceipt
      <3>1. /\ Put("receipt.json", state.receipt) /\ UNCHANGED outVars
            /\ proc = "putReceipt"
        BY <2>3 DEF PutReceipt
      <3>2. state.receipt \in Content \ {0}
        BY <3>1 DEF IInv, Frozen, Ordered, Signing, TypeOK, Content
      <3> QED
        BY <1>2, <2>1, <3>1, <3>2
    <2>4. CASE PutBundle
      <3>1. /\ Put("receipt.bundle.json", state.bundle) /\ UNCHANGED outVars
            /\ proc = "putBundle"
        BY <2>4 DEF PutBundle
      <3>2. state.bundle \in Content \ {0}
        BY <3>1 DEF IInv, Bundled, TypeOK
      <3> QED
        BY <1>2, <2>1, <3>1, <3>2
    <2> QED
      BY <1>2, <1>3, <2>1, <2>2, <2>3, <2>4
  <1>4. CASE SaveFrozen
    BY <1>4 DEF SaveFrozen, GoTo, IInv, Frozen, NoState, Published, outVars
  <1>5. CASE RecordBundle
    BY <1>5 DEF RecordBundle, GoTo, IInv, TypeOK, Bundled, outVars
  <1>6. CASE PublishResult
    <2>1. "receipt.bundle.json" \in Names
      BY DEF Names, Signed
    <2> QED
      BY <1>6, <2>1 DEF PublishResult, GoTo, IInv, Ordered, AllRecorded, PublishPoints
  <1> QED
    BY <1>1, <1>3, <1>4, <1>5, <1>6 DEF Next, Step, Elsewhere

\* an exhausted budget is left only by recovering what is archived
LEMMA ExhaustedStays ==
    ASSUME IInv, [Next]_vars, state.status = "exhausted", ~BothArchived
    PROVE  state'.status = "exhausted" /\ ~BothArchived'
  <1>1. proc \notin AttemptPoints \cup PublishPoints \cup {"reconcile", "freeze", "frozen"}
    <2>1. {"receipt.json", "receipt.bundle.json"} \subseteq Names
      BY DEF Names, Signed
    <2>2. ~(AllRecorded /\ state.bundle # 0)
      BY <2>1, BothArchivedFacts DEF AllRecorded
    <2> QED
      BY <2>2 DEF IInv, Frozen, Ordered, Published
  <1>2. \/ state' = state
        \/ state' = [state EXCEPT !.status = "exhausted"]
    <2> USE DEF AttemptPoints, PublishPoints, GoTo, Down, procVars, archiveVars, outVars
    <2>1. CASE Dispatch
      BY <2>1 DEF Dispatch, Complete, Spent, Publish, Exhaust, NotDue, Charge
    <2>2. CASE ReadInputs \/ World \/ UNCHANGED vars \/ Crash
      BY <2>2 DEF ReadInputs, World, SourceChanges, DeadlinePasses, LongOffline, CalmDown,
         Crash, vars
    <2> QED
      BY <1>1, <2>1, <2>2 DEF Next, Step, Faults, Freeze, SaveFrozen, PutInput, BuildReceipt,
         Sign, RecordBundle, VerifyBundle, PutReceipt, PutBundle, Reconcile, ProtectAll,
         PublishFiles, PublishResult, Finish, Fail, UploadLost
  <1>3. state'.status = "exhausted" /\ state'.objects = state.objects
        /\ state'.bundle = state.bundle /\ state'.receipt = state.receipt
    BY <1>2 DEF IInv, TypeOK
  <1> QED
    BY <1>3 DEF BothArchived, Recorded

\* A fact about Keeps alone, for whoever composes: what lies between two states of a
\* finalizer that others see may be one run or many, since keeping the promise is
\* transitive.
LEMMA RunsCompose ==
    ASSUME NEW s \in Promised!Works, NEW t \in Promised!Works, NEW u \in Promised!Works,
           Promised!Keeps(s, t), Promised!Keeps(t, u)
    PROVE  Promised!Keeps(s, u)
  BY DEF Promised!Keeps, Promised!Works

\* Engine.Run, killed and restarted anywhere, implements Publication: archived work and
\* result.json are never lost, only archived work is published, and a budget exhausted
\* before the work was archived is never reopened.
THEOREM PromiseIsKept == Spec => PublishesAsPromised
  <1>1. Init => Promised!Init
    <2> SUFFICES ASSUME Init PROVE Promised!Init
      OBVIOUS
    <2>1. state.receipt = 0 /\ result = 0 /\ state.status = "none"
      BY DEF Init, NoState
    <2> QED
      BY <2>1 DEF Promised!Init, BothArchived
  <1>2. IInv /\ IInv' /\ [Next]_vars => Promised!Next
    <2> SUFFICES ASSUME IInv, IInv', [Next]_vars PROVE Promised!Next
      OBVIOUS
    <2> DEFINE a == BothArchived
               p == result # 0
               x == state.status = "exhausted"
    <2>1. a => a'
      <3>1. {"receipt.json", "receipt.bundle.json"} \subseteq Names
        BY DEF Names, Signed
      <3> QED
        BY <3>1, StepKeeps, BothArchivedFacts, BothArchivedAfter
    <2>2. p => p'
      BY StepKeeps
    <2>3. p' => a'
      BY BothArchivedAfter DEF IInv, Ordered, AllRecorded, Names, Signed
    <2>4. x /\ ~a => x' /\ ~a'
      BY ExhaustedStays
    <2>5. a \in BOOLEAN /\ p \in BOOLEAN /\ x \in BOOLEAN
          /\ a' \in BOOLEAN /\ p' \in BOOLEAN /\ x' \in BOOLEAN
      BY DEF BothArchived
    <2> QED
      BY <2>1, <2>2, <2>3, <2>4, <2>5 DEF Promised!Next, Promised!Keeps, Promised!Works
  <1> QED
    BY <1>1, <1>2, Invariance, PTL DEF Spec, PublishesAsPromised, Promised!Spec
====
