------------------------------- MODULE Delivery -------------------------------
(***************************************************************************)
(* internal/delivery and the writing half of internal/api: Queue.Deliver     *)
(* posts a finalization result until the evidence store has committed it.    *)
(* The queue state is durable and an attempt is charged before the POST; the *)
(* API admits one verification at a time, verifies, and commits receipt and  *)
(* incident in one transaction.  Requests, answers and both processes may be *)
(* lost at any point, a request may be served after its sender gave up, and  *)
(* others may post a result for the same job identity.                       *)
(***************************************************************************)
EXTENDS Naturals, Sequences

CONSTANTS
    Results,    \* results somebody may post for this job identity
    Valid,      \* those whose archive, signature and receipt verify
    Failing,    \* those whose verdict is not "pass"
    MaxTries    \* charged POSTs; six in the code

None == "none"

ASSUME DeliveryAssumption ==
    /\ Results # {} /\ None \notin Results
    /\ Valid \subseteq Results /\ Failing \subseteq Results
    /\ MaxTries \in Nat \ {0}

VARIABLES
    proc,      \* "down", or the point Deliver has reached
    arg,       \* the result this process was asked to deliver
    sent,      \* failure reports this pass has flushed
    queue,     \* the queue state file
    due,       \* its retry deadline has passed, or there is none
    posts,     \* POST /v1/receipts requests ever sent
    net,       \* tries whose request is on its way to the API
    handler,   \* the one admitted POST /v1/receipts
    rows,      \* committed evidence.receipts of this identity, with incidents
    reports,   \* committed evidence.finalization_attempts, origin "delivery"
    calm       \* crashes and failing calls are over

clientVars == <<proc, arg, sent>>
queueVars  == <<queue, due>>
storeVars  == <<rows, reports>>
vars == <<clientVars, queueVars, posts, net, handler, storeVars, calm>>

Tries == 0..MaxTries
Rows == [result : Results, incident : BOOLEAN]
Codes == {"dependency_unavailable", "invalid_evidence", "identity_conflict"}
Attempt == [number : Tries, result : {"retry", "exhausted"}, code : Codes]
NoQueue == [status |-> None, result |-> None, tries |-> 0, failures |-> << >>]
\* from: the try that sent the request, 0 for another sender
Idle == [point |-> "idle", from |-> 0, result |-> None, tx |-> {}, code |-> None]

ClientPoints == {"down", "flush", "decide", "post", "wait", "reflush"}
HandlerPoints == {"idle", "verify", "insert", "incident", "commit", "reply"}
Replies == {None, "committed"} \cup Codes

TypeOK ==
    /\ proc \in ClientPoints /\ arg \in Results \cup {None} /\ sent \in Tries
    /\ queue \in [status : {None, "pending", "running", "retry", "exhausted", "complete"},
                  result : Results \cup {None}, tries : Tries, failures : Seq(Attempt)]
    /\ Len(queue.failures) <= MaxTries
    /\ due \in BOOLEAN /\ calm \in BOOLEAN
    /\ posts \in Nat /\ net \subseteq Tries
    /\ handler \in [point : HandlerPoints, from : Tries, result : Results \cup {None},
                    tx : SUBSET Rows, code : Replies]
    /\ rows \subseteq Rows /\ reports \subseteq Attempt

Init ==
    /\ proc = "down" /\ arg = None /\ sent = 0 /\ queue = NoQueue /\ due = TRUE
    /\ posts = 0 /\ net = {} /\ handler = Idle /\ rows = {} /\ reports = {}
    /\ calm = FALSE

----------------------------------------------------------------------------
(* Deliver *)

Return == proc' = "down" /\ arg' = None /\ sent' = 0
GoTo(p) == proc' = p /\ sent' = 0 /\ UNCHANGED arg
Report(n, result, code) == [number |-> n, result |-> result, code |-> code]
Failed(result, code) ==
    [queue EXCEPT !.status = result, !.failures = Append(@, Report(queue.tries, result, code))]
AfterTry == IF queue.tries >= MaxTries THEN "exhausted" ELSE "retry"
Committed == \E r \in rows : r.result = queue.result

\* mutant: an interrupted state is reported but stays running
LoadRepeats(r) ==
    /\ proc = "down" /\ queue.result \in {None, r}
    /\ arg' = r /\ proc' = "flush" /\ sent' = 0
    /\ queue' = CASE queue.status = None -> [NoQueue EXCEPT !.status = "pending", !.result = r]
                  [] queue.status = "running" -> [Failed(AfterTry, "dependency_unavailable")
                                                    EXCEPT !.status = "running"]
                  [] OTHER -> queue
    /\ UNCHANGED <<due, posts, net, handler, storeVars, calm>>

\* mutant: a state left running is taken for a live delivery
LoadSkipsRunning(r) ==
    /\ proc = "down" /\ queue.result \in {None, r} /\ queue.status # "running"
    /\ arg' = r /\ proc' = "flush" /\ sent' = 0
    /\ queue' = IF queue.status # None THEN queue
                ELSE [NoQueue EXCEPT !.status = "pending", !.result = r]
    /\ UNCHANGED <<due, posts, net, handler, storeVars, calm>>

\* lock, read the state and save it: another result for the identity is a
\* conflict, a state left running has lost its request
Load(r) ==
    /\ proc = "down" /\ queue.result \in {None, r}
    /\ arg' = r /\ proc' = "flush" /\ sent' = 0
    /\ queue' = CASE queue.status = None -> [NoQueue EXCEPT !.status = "pending", !.result = r]
                  [] queue.status = "running" -> Failed(AfterTry, "dependency_unavailable")
                  [] OTHER -> queue
    /\ due' = (due \/ (queue.status = "running" /\ queue.tries >= MaxTries))
    /\ UNCHANGED <<posts, net, handler, storeVars, calm>>

\* RecordAttempt: the first report of a try stands, a repeated one must agree
Agrees(a) == \A b \in reports : b.number = a.number => b = a

Flushing == proc \in {"flush", "reflush"}
\* one POST /v1/attempts is recorded and answered
FlushOne ==
    /\ Flushing /\ sent < Len(queue.failures)
    /\ LET a == queue.failures[sent + 1]
       IN  Agrees(a) /\ reports' = reports \cup {a}
    /\ sent' = sent + 1
    /\ UNCHANGED <<proc, arg, queueVars, posts, net, handler, rows, calm>>

\* a report is not recorded, or recorded and not answered, or contradicts a
\* recorded one: flush gives up and Deliver goes on
FlushFails ==
    /\ Flushing /\ sent < Len(queue.failures)
    /\ LET a == queue.failures[sent + 1]
       IN  /\ ~calm \/ ~Agrees(a)
           /\ reports' = reports \/ (Agrees(a) /\ reports' = reports \cup {a})
    /\ IF proc = "flush" /\ queue.status # "complete" THEN GoTo("decide") ELSE Return
    /\ UNCHANGED <<queueVars, posts, net, handler, rows, calm>>

\* mutant: a complete state has nothing left to do
FlushedSkipsComplete ==
    /\ Flushing /\ (sent = Len(queue.failures) \/ queue.status = "complete")
    /\ IF proc = "flush" /\ queue.status # "complete" THEN GoTo("decide") ELSE Return
    /\ UNCHANGED <<queueVars, posts, net, handler, storeVars, calm>>

Flushed ==
    /\ Flushing /\ sent = Len(queue.failures)
    /\ IF proc = "flush" /\ queue.status # "complete" THEN GoTo("decide") ELSE Return
    /\ UNCHANGED <<queueVars, posts, net, handler, storeVars, calm>>

\* mutant: only the number of tries counts, not a final refusal
SpentByCount == queue.tries >= MaxTries

Spent == queue.status = "exhausted" \/ queue.tries >= MaxTries
Complete == queue' = [queue EXCEPT !.status = "complete"] /\ due' = TRUE
Charge ==
    /\ queue' = [queue EXCEPT !.status = "running", !.tries = @ + 1]
    /\ due' = FALSE /\ GoTo("post")

\* mutant: exhaustion is looked at before the store is asked
DecideExhaustedFirst ==
    /\ proc = "decide"
    /\ \/ ~Spent /\ Committed /\ Complete /\ Return
       \/ (~calm \/ ~Committed) /\ ~Spent /\ due /\ Charge
       \/ (Spent \/ ~due) /\ Return /\ UNCHANGED queueVars
    /\ UNCHANGED <<posts, net, handler, storeVars, calm>>

\* mutant: any receipt of the run is taken for the delivered one
DecideByRun ==
    /\ proc = "decide"
    /\ \/ rows # {} /\ Complete /\ Return
       \/ rows = {} /\ ~Spent /\ due /\ Charge
       \/ rows = {} /\ (Spent \/ ~due) /\ Return /\ UNCHANGED queueVars
    /\ UNCHANGED <<posts, net, handler, storeVars, calm>>

\* mutant: the attempt is charged when its answer arrives
DecideUncharged ==
    /\ proc = "decide"
    /\ \/ Committed /\ Complete /\ Return
       \/ (~calm \/ ~Committed) /\ ~Spent /\ due /\ GoTo("post") /\ UNCHANGED queueVars
       \/ (~calm \/ ~Committed) /\ (Spent \/ ~due) /\ Return /\ UNCHANGED queueVars
    /\ UNCHANGED <<posts, net, handler, storeVars, calm>>

\* reconcile asks the store for exactly these references, whatever the budget or
\* the deadline (the GET may fail); then an attempt is charged if one is due
Decide ==
    /\ proc = "decide"
    /\ \/ Committed /\ Complete /\ Return
       \/ (~calm \/ ~Committed) /\ ~Spent /\ due /\ Charge
       \/ (~calm \/ ~Committed) /\ (Spent \/ ~due) /\ Return /\ UNCHANGED queueVars
    /\ UNCHANGED <<posts, net, handler, storeVars, calm>>

Post ==
    /\ proc = "post" /\ GoTo("wait")
    /\ posts' = posts + 1 /\ net' = net \cup {queue.tries}
    /\ UNCHANGED <<queueVars, handler, storeVars, calm>>

\* the answer to the outstanding POST: commit or duplicate, a refusal that ends
\* the delivery, or a failure that is retried; saved, then the reports are flushed
Answer(code) ==
    \/ code = "committed" /\ Complete /\ Return
    \/ /\ code \in {"invalid_evidence", "identity_conflict"}
       /\ queue' = Failed("exhausted", code) /\ due' = TRUE /\ GoTo("reflush")
    \/ /\ code = "dependency_unavailable" /\ queue' = Failed(AfterTry, code)
       /\ due' = (due \/ AfterTry = "exhausted") /\ GoTo("reflush")

\* the client gives up on its request, which may still be served
TimesOut ==
    /\ proc = "wait"
    /\ calm => queue.tries \notin net /\ (handler = Idle \/ handler.from # queue.tries)
    /\ Answer("dependency_unavailable")
    /\ UNCHANGED <<posts, net, handler, storeVars, calm>>

----------------------------------------------------------------------------
(* POST /v1/receipts at the API *)

\* the answer reaches Deliver only while it waits for this very request
Reply(from, code) ==
    IF proc = "wait" /\ from = queue.tries THEN Answer(code)
    ELSE UNCHANGED <<clientVars, queueVars>>

\* expensive: one verification at a time
Admit(t) ==
    /\ t \in net /\ net' = net \ {t} /\ handler = Idle
    /\ handler' = [Idle EXCEPT !.point = "verify", !.from = t, !.result = queue.result]
    /\ UNCHANGED <<clientVars, queueVars, posts, storeVars, calm>>

TooBusy(t) ==
    /\ t \in net /\ net' = net \ {t} /\ handler # Idle
    /\ Reply(t, "dependency_unavailable")
    /\ UNCHANGED <<posts, handler, storeVars, calm>>

\* the boundary refuses the request: host, token, type or size
Refuse(t) ==
    /\ ~calm /\ t \in net /\ net' = net \ {t}
    /\ Reply(t, "invalid_evidence")
    /\ UNCHANGED <<posts, handler, storeVars, calm>>

\* another client posts a result of this identity (external)
OthersPost(r) ==
    /\ ~calm /\ handler = Idle
    /\ handler' = [Idle EXCEPT !.point = "verify", !.result = r]
    /\ UNCHANGED <<clientVars, queueVars, posts, net, storeVars, calm>>

Handle(p, h) ==
    /\ handler.point = p /\ handler' = h
    /\ UNCHANGED <<clientVars, queueVars, posts, net, reports, calm>>
Respond(code) == [handler EXCEPT !.point = "reply", !.code = code]
\* 503: the archive or the transaction fails
Unavailable == ~calm /\ UNCHANGED rows
Verify ==
    /\ Handle("verify", IF handler.result \in Valid THEN [handler EXCEPT !.point = "insert"]
                        ELSE Respond("invalid_evidence"))
    /\ UNCHANGED rows

VerifyFails == Unavailable /\ Handle("verify", Respond("dependency_unavailable"))

\* mutant: the receipt is committed before its incident is written
InsertCommits ==
    /\ \/ /\ rows = {}
          /\ Handle("insert", [handler EXCEPT !.point = "incident"])
          /\ rows' = {[result |-> handler.result, incident |-> FALSE]}
       \/ /\ \E r \in rows : r.result = handler.result
          /\ Handle("insert", [handler EXCEPT !.point = "commit"]) /\ UNCHANGED rows
       \/ /\ \E r \in rows : r.result # handler.result
          /\ Handle("insert", Respond("identity_conflict")) /\ UNCHANGED rows

\* Ingest: the first result of the identity gets the row; the same references
\* again are a duplicate, others a conflict
Insert ==
    /\ \/ /\ rows = {}
          /\ Handle("insert", [handler EXCEPT !.point = "incident",
                                 !.tx = {[result |-> handler.result, incident |-> FALSE]}])
       \/ /\ \E r \in rows : r.result = handler.result
          /\ Handle("insert", [handler EXCEPT !.point = "commit"])
       \/ /\ \E r \in rows : r.result # handler.result
          /\ Handle("insert", Respond("identity_conflict"))
    /\ UNCHANGED rows

Incident ==
    /\ Handle("incident", [handler EXCEPT !.point = "commit",
          !.tx = {[result |-> handler.result, incident |-> handler.result \in Failing]}])
    /\ UNCHANGED rows

\* one of the two inserts fails and the transaction rolls back
InsertFails ==
    /\ Unavailable
    /\ \/ Handle("insert", Respond("dependency_unavailable"))
       \/ Handle("incident", Respond("dependency_unavailable"))

CommitTx ==
    /\ Handle("commit", Respond("committed"))
    /\ rows' = rows \cup handler.tx

\* the commit fails, or succeeds with its confirmation lost: 503 in both cases
CommitFails ==
    /\ ~calm /\ Handle("commit", Respond("dependency_unavailable"))
    /\ rows' \in {rows, rows \cup handler.tx}

ReplySent ==
    /\ handler.point = "reply" /\ handler' = Idle
    /\ Reply(handler.from, handler.code)
    /\ UNCHANGED <<posts, net, storeVars, calm>>

----------------------------------------------------------------------------
(* Failures and time (external) *)

Crash ==
    /\ ~calm /\ proc # "down" /\ Return
    /\ UNCHANGED <<queueVars, posts, net, handler, storeVars, calm>>

\* the API dies: an open transaction rolls back, the answer is lost
ApiCrash ==
    /\ ~calm /\ handler # Idle /\ handler' = Idle
    /\ UNCHANGED <<clientVars, queueVars, posts, net, storeVars, calm>>

RequestLost ==
    /\ ~calm /\ \E t \in net : net' = net \ {t}
    /\ UNCHANGED <<clientVars, queueVars, posts, handler, storeVars, calm>>

DeadlinePasses ==
    /\ ~due /\ due' = TRUE
    /\ UNCHANGED <<clientVars, queue, posts, net, handler, storeVars, calm>>

CalmDown ==
    /\ ~calm /\ calm' = TRUE
    /\ UNCHANGED <<clientVars, queueVars, posts, net, handler, storeVars>>

Deliver ==
    \/ \E r \in Results : Load(r)
    \/ FlushOne \/ FlushFails \/ Flushed \/ Decide \/ Post \/ TimesOut

Api ==
    \/ \E t \in Tries : Admit(t) \/ TooBusy(t) \/ Refuse(t)
    \/ Verify \/ VerifyFails \/ Insert \/ InsertFails \/ Incident \/ CommitTx \/ CommitFails
    \/ ReplySent

World ==
    \/ \E r \in Results : OthersPost(r)
    \/ Crash \/ ApiCrash \/ RequestLost \/ DeadlinePasses \/ CalmDown

Next == Deliver \/ Api \/ World

Spec == Init /\ [][Next]_vars
\* deliver is run again for the recorded result, the API serves what it admitted,
\* time passes
FairSpec ==
    Spec /\ WF_vars(Deliver) /\ WF_vars(Api) /\ WF_vars(DeadlinePasses)

----------------------------------------------------------------------------
(* Properties *)

\* Every POST was charged to an attempt that was durable before it was sent: no
\* sequence of kills, restarts and lost answers sends more than MaxTries.
PostsAreCharged == posts <= queue.tries /\ queue.tries <= MaxTries

Store == INSTANCE ReceiptStore

\* The API, its transactions and its retries implement ReceiptStore: whoever posts,
\* whenever a request is served and wherever the API dies, one receipt per job is
\* committed, in one step with the incident its verdict asks for, and never changed.
StoreCommitsOnce == Store!Spec

\* What the store was told about a try is what the queue durably says of it, at
\* most once per try: a report is never contradicted after a crash.
ReportsAreDurable ==
    /\ \A a \in reports : \E i \in DOMAIN queue.failures : queue.failures[i] = a
    /\ \A i, j \in DOMAIN queue.failures :
          i < j => queue.failures[i].number < queue.failures[j].number

Promised == INSTANCE Ingestion WITH
    complete <- queue.status = "complete", exhausted <- queue.status = "exhausted",
    receipt <- Committed

\* The queue keeps the promise the watchdog and the operator build on: whatever is lost
\* or killed, "complete" has its own receipt in the store, not merely some receipt of
\* the run, and an exhausted delivery starts no further attempt and ends only by its
\* own receipt, which a request still on its way may bring.
DeliversAsPromised == Promised!Spec

\* A receipt committed behind a lost answer is recognised once calls stop failing,
\* also when the delivery is exhausted or its retry not due.
CommitIsRecognised == calm /\ Committed ~> queue.status = "complete"

\* Once calls stop failing, every stored failure report reaches the store.
ReportsArrive ==
    calm ~> \A i \in DOMAIN queue.failures : queue.failures[i] \in reports

\* A delivery in progress ends complete or exhausted once calls stop failing.
DeliverySettles ==
    calm /\ queue.status # None ~> queue.status \in {"complete", "exhausted"}
====
