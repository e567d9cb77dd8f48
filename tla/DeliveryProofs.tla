---------------------------- MODULE DeliveryProofs ----------------------------
(***************************************************************************)
(* Theorems about Delivery, for every set of results, valid or not, and     *)
(* every number of tries.  The inductive invariant ties the queue file to   *)
(* the requests it has sent, the one admitted request to the rows of the    *)
(* store, and the reports in the store to the failures in the queue file.   *)
(***************************************************************************)
EXTENDS Delivery, TLAPS

\* the queue file and what was sent for it
Charged ==
    /\ queue.status = None => queue = NoQueue /\ reports = {}
    /\ proc \in {"post", "wait"} => queue.status = "running"
    /\ proc = "decide" => queue.status # "complete"
    /\ posts <= queue.tries
    /\ proc = "post" => posts < queue.tries

\* every try is reported at most once, in order, and after it was charged
Reported ==
    /\ Len(queue.failures) <= queue.tries
    /\ queue.status = "running" => Len(queue.failures) < queue.tries
    /\ \A i \in 1..Len(queue.failures) :
          /\ queue.failures[i].number <= queue.tries
          /\ queue.status = "running" => queue.failures[i].number < queue.tries
    /\ \A i, j \in 1..Len(queue.failures) :
          i < j => queue.failures[i].number < queue.failures[j].number
    /\ \A a \in reports : \E i \in 1..Len(queue.failures) : queue.failures[i] = a

Row(r) == [result |-> r, incident |-> r \in Failing]
Stored(r) == \E row \in rows : row.result = r

\* the admitted request: whose it is, and how far its transaction has come
Served ==
    /\ 0 \notin net
    /\ net # {} \/ handler.from # 0 => queue.status # None
    /\ handler.from # 0 => handler.result = queue.result
    /\ handler.point \in {"insert", "incident", "commit"} => handler.result \in Valid
    /\ handler.point \in {"verify", "insert"} => handler.tx = {}
    /\ handler.point = "incident" => rows = {}
    /\ handler.point = "commit" =>
          \/ handler.tx = {Row(handler.result)} /\ rows = {}
          \/ handler.tx = {} /\ Stored(handler.result)
    /\ (handler.point = "reply") <=> (handler.code # None)
    /\ handler.code = "committed" => Stored(handler.result)
    /\ queue.status = "complete" => Stored(queue.result)

IInv == TypeOK /\ Charged /\ Reported /\ Served

----------------------------------------------------------------------------
(* The queue file *)

QueueType ==
    [status : {None, "pending", "running", "retry", "exhausted", "complete"},
     result : Results \cup {None}, tries : Tries, failures : Seq(Attempt)]
HandlerType ==
    [point : HandlerPoints, from : Tries, result : Results \cup {None}, tx : SUBSET Rows,
     code : Replies]

\* A report appended to the queue is about the try just charged, so the order of
\* the reports stays strict and none that the store has is lost.
LEMMA FailedQueue ==
    ASSUME IInv, queue.status = "running", NEW end \in {"retry", "exhausted"},
           NEW code \in Codes, queue' = Failed(end, code), reports' = reports
    PROVE  /\ queue' \in QueueType /\ queue'.status = end
           /\ queue'.tries = queue.tries /\ queue'.result = queue.result
           /\ Reported'
  <1> DEFINE a == Report(queue.tries, end, code)
             q == Append(queue.failures, a)
  <1>1. queue \in QueueType
    BY DEF IInv, TypeOK, QueueType
  <1>2. a \in Attempt /\ a.number = queue.tries
    BY <1>1 DEF Report, Attempt, QueueType
  <1> HIDE DEF a
  <1>3. /\ q \in Seq(Attempt) /\ Len(q) = Len(queue.failures) + 1
        /\ \A i \in 1..Len(queue.failures) : q[i] = queue.failures[i]
        /\ q[Len(q)] = a
    BY <1>1, <1>2 DEF QueueType
  <1>4. queue' = [queue EXCEPT !.status = end, !.failures = q]
    BY DEF Failed, a
  <1> HIDE DEF q
  <1>5. /\ queue' \in QueueType /\ queue'.status = end /\ queue'.failures = q
        /\ queue'.tries = queue.tries /\ queue'.result = queue.result
    BY <1>1, <1>3, <1>4 DEF QueueType
  <1>6. /\ Len(queue.failures) \in Nat /\ queue.tries \in Nat
        /\ \A i \in 1..Len(queue.failures) : queue.failures[i].number \in Nat
    <2>1. \A i \in 1..Len(queue.failures) : queue.failures[i] \in Attempt
      BY <1>1 DEF QueueType
    <2> QED
      BY <1>1, <2>1, DeliveryAssumption DEF QueueType, Tries, Attempt
  <1>7. Reported'
    <2>1. Len(q) <= queue.tries
      BY <1>3, <1>6 DEF IInv, Reported
    <2>2. \A i \in 1..Len(q) : q[i].number <= queue.tries
      BY <1>2, <1>3, <1>6 DEF IInv, Reported
    <2>3. ASSUME NEW i \in 1..Len(q), NEW j \in 1..Len(q), i < j
          PROVE  q[i].number < q[j].number
      <3>1. i \in 1..Len(queue.failures)
        BY <1>3, <1>6, <2>3
      <3>2. CASE j \in 1..Len(queue.failures)
        BY <1>3, <2>3, <3>1, <3>2 DEF IInv, Reported
      <3>3. CASE j = Len(q)
        BY <1>2, <1>3, <3>1, <3>3 DEF IInv, Reported
      <3> QED
        BY <1>3, <1>6, <3>2, <3>3
    <2>4. \A b \in reports : \E i \in 1..Len(q) : q[i] = b
      BY <1>3, <1>6 DEF IInv, Reported
    <2> QED
      BY <1>5, <2>1, <2>2, <2>3, <2>4 DEF Reported
  <1> QED
    BY <1>5, <1>7

\* An answer ends the wait: complete with a committed receipt, or one more report.
LEMMA AnswerInv ==
    ASSUME IInv, proc = "wait", NEW code \in Codes \cup {"committed"}, Answer(code),
           code = "committed" => Stored(queue.result),
           UNCHANGED <<posts, storeVars, calm>>, net' \subseteq net,
           handler' = handler \/ handler' = Idle
    PROVE  IInv'
  <1> USE DEF storeVars
  <1>1. queue \in QueueType /\ queue.status = "running"
    BY DEF IInv, TypeOK, QueueType, Charged
  <1>2. AfterTry \in {"retry", "exhausted"}
    BY DEF AfterTry
  <1>3. /\ queue' \in QueueType /\ queue'.status \in {"complete", "retry", "exhausted"}
        /\ queue'.tries = queue.tries /\ queue'.result = queue.result
        /\ queue'.status = "complete" => Stored(queue.result)
        /\ Reported'
    <2>1. CASE code = "committed" /\ Complete
      BY <1>1, <2>1 DEF Complete, QueueType, IInv, Reported
    <2>2. CASE \E end \in {"retry", "exhausted"} : code \in Codes /\ queue' = Failed(end, code)
      BY <1>1, <2>2, FailedQueue
    <2> QED
      BY <1>2, <2>1, <2>2 DEF Answer
  <1>4. /\ proc' \in {"down", "reflush"} /\ arg' \in Results \cup {None} /\ sent' = 0
        /\ due' \in BOOLEAN
    BY DEF Answer, Complete, Return, GoTo, IInv, TypeOK
  <1>5. TypeOK'
    <2>1. Len(queue'.failures) <= MaxTries
      BY <1>3, DeliveryAssumption DEF Reported, QueueType, Tries
    <2>2. handler' \in HandlerType
      BY DeliveryAssumption DEF IInv, TypeOK, HandlerType, Idle, HandlerPoints, Tries, Replies
    <2> QED
      BY <1>3, <1>4, <2>1, <2>2, DeliveryAssumption
      DEF IInv, TypeOK, QueueType, HandlerType, ClientPoints, Tries
  <1>6. Charged'
    BY <1>3, <1>4 DEF IInv, Charged, None
  <1>7. Served'
    BY <1>1, <1>3 DEF IInv, Served, Idle, Stored, Row, None
  <1> QED
    BY <1>3, <1>5, <1>6, <1>7 DEF IInv

----------------------------------------------------------------------------
(* The initial states and every step keep IInv *)

LEMMA InitInv == Init => IInv
  <1> SUFFICES ASSUME Init PROVE IInv
    OBVIOUS
  <1> USE DEF Init, NoQueue, Idle, None
  <1>1. queue \in QueueType /\ Len(queue.failures) = 0
    BY DeliveryAssumption DEF QueueType, Tries
  <1>2. TypeOK
    <2>1. handler \in HandlerType
      BY DeliveryAssumption DEF HandlerType, HandlerPoints, Tries, Replies
    <2>2. 0 \in Tries /\ Len(queue.failures) <= MaxTries
      BY <1>1, DeliveryAssumption DEF Tries
    <2> HIDE DEF NoQueue, Idle
    <2> QED
      BY <1>1, <2>1, <2>2 DEF TypeOK, QueueType, HandlerType, ClientPoints
  <1>3. Charged /\ Reported
    BY <1>1 DEF Charged, Reported
  <1>4. Served
    BY DEF Served
  <1> QED
    BY <1>2, <1>3, <1>4 DEF IInv

\* Loading creates the queue, closes an interrupted try, or changes nothing.
LEMMA LoadInv ==
    ASSUME IInv, NEW r \in Results, Load(r)
    PROVE  IInv'
  <1> USE DEF storeVars
  <1>1. queue \in QueueType
    BY DEF IInv, TypeOK, QueueType
  <1>2. /\ queue' \in QueueType /\ queue'.status \notin {None, "running"}
        /\ queue'.tries = queue.tries
        /\ queue.status # None => queue'.result = queue.result
        /\ queue'.status = "complete" => queue.status = "complete"
        /\ Reported'
    <2>1. CASE queue.status = None
      <3>1. queue' = [NoQueue EXCEPT !.status = "pending", !.result = r]
        BY <2>1 DEF Load, None
      <3>2. queue = NoQueue /\ reports' = {}
        BY <2>1 DEF IInv, Charged, Load
      <3>3. /\ queue'.status = "pending" /\ queue'.tries = 0 /\ queue'.failures = << >>
            /\ queue' = [status |-> "pending", result |-> r, tries |-> 0, failures |-> << >>]
        BY <3>1 DEF NoQueue
      <3>4. queue' \in QueueType
        BY <3>3, DeliveryAssumption DEF QueueType, Tries
      <3> QED
        BY <2>1, <3>2, <3>3, <3>4 DEF NoQueue, Reported, None
    <2>2. CASE queue.status = "running"
      <3>1. queue' = Failed(AfterTry, "dependency_unavailable") /\ reports' = reports
        BY <2>2 DEF Load, None
      <3>2. AfterTry \in {"retry", "exhausted"}
        BY DEF AfterTry
      <3> QED
        BY <2>2, <3>1, <3>2, FailedQueue DEF Codes, None
    <2>3. CASE queue.status \notin {None, "running"}
      <3>1. queue' = queue /\ reports' = reports
        BY <2>3 DEF Load
      <3> QED
        BY <1>1, <2>3, <3>1 DEF IInv, Reported
    <2> QED
      BY <2>1, <2>2, <2>3
  <1>3. proc' = "flush" /\ arg' = r /\ sent' = 0 /\ due' \in BOOLEAN
    BY DEF Load, IInv, TypeOK
  <1>4. TypeOK'
    <2>1. Len(queue'.failures) <= MaxTries
      BY <1>2, DeliveryAssumption DEF Reported, QueueType, Tries
    <2> QED
      BY <1>2, <1>3, <2>1, DeliveryAssumption
      DEF Load, IInv, TypeOK, QueueType, ClientPoints, Tries
  <1>5. Charged'
    BY <1>2, <1>3 DEF Load, IInv, Charged
  <1>6. Served'
    BY <1>2 DEF Load, IInv, Served, Stored, Row
  <1> QED
    BY <1>2, <1>4, <1>5, <1>6 DEF IInv

\* Flushing adds only reports that the queue file already holds.
LEMMA FlushInv ==
    ASSUME IInv, FlushOne \/ FlushFails \/ Flushed
    PROVE  IInv'
  <1> USE DEF queueVars, storeVars
  <1>1. queue \in QueueType
    BY DEF IInv, TypeOK, QueueType
  <1>2. /\ UNCHANGED <<queue, due, posts, net, handler, rows, calm>>
        /\ proc' \in {"flush", "reflush", "decide", "down"} /\ arg' \in {arg, None}
        /\ proc' = "decide" => queue.status # "complete"
    BY DEF FlushOne, FlushFails, Flushed, Flushing, GoTo, Return
  <1>3. \/ reports' = reports
        \/ /\ sent + 1 \in 1..Len(queue.failures)
           /\ reports' = reports \cup {queue.failures[sent + 1]}
    BY <1>1 DEF FlushOne, FlushFails, Flushed, IInv, TypeOK, QueueType, Tries
  <1>4. sent' \in Tries
    BY <1>1, DeliveryAssumption
    DEF FlushOne, FlushFails, Flushed, GoTo, Return, IInv, TypeOK, QueueType, Tries
  <1>5. reports' \subseteq Attempt
    <2>1. \A i \in 1..Len(queue.failures) : queue.failures[i] \in Attempt
      BY <1>1 DEF QueueType
    <2> QED
      BY <1>3, <2>1 DEF IInv, TypeOK
  <1>6. TypeOK'
    BY <1>2, <1>4, <1>5 DEF IInv, TypeOK, ClientPoints
  <1>7. Charged'
    <2>1. queue.status = None => Len(queue.failures) = 0
      BY DEF IInv, Charged, NoQueue
    <2>2. queue.status = None => reports' = {}
      BY <1>3, <2>1 DEF IInv, Charged
    <2> QED
      BY <1>2, <2>2 DEF IInv, Charged
  <1>8. Reported'
    BY <1>2, <1>3 DEF IInv, Reported
  <1>9. Served'
    BY <1>2 DEF IInv, Served, Stored, Row
  <1> QED
    BY <1>6, <1>7, <1>8, <1>9 DEF IInv

\* Reconcile with the store, charge, send.
LEMMA DecideInv ==
    ASSUME IInv, Decide \/ Post
    PROVE  IInv'
  <1> USE DEF storeVars, queueVars
  <1>1. queue \in QueueType
    BY DEF IInv, TypeOK, QueueType
  <1>2. CASE Decide /\ Committed /\ Complete /\ Return
    <2>1. /\ queue' \in QueueType /\ queue'.status = "complete" /\ queue'.tries = queue.tries
          /\ queue'.failures = queue.failures /\ queue'.result = queue.result
      BY <1>1, <1>2 DEF Complete, QueueType
    <2> QED
      BY <1>2, <2>1, DeliveryAssumption
      DEF Decide, Committed, Complete, Return, IInv, TypeOK, QueueType, Charged, Reported,
          Served, Stored, Row, ClientPoints, Tries, None
  <1>3. CASE Decide /\ ~Spent /\ Charge
    <2>1. queue.tries + 1 \in Tries
      BY <1>1, <1>3, DeliveryAssumption DEF Spent, QueueType, Tries
    <2>2. /\ queue' \in QueueType /\ queue'.status = "running"
          /\ queue'.tries = queue.tries + 1
          /\ queue'.failures = queue.failures /\ queue'.result = queue.result
      BY <1>1, <1>3, <2>1 DEF Charge, QueueType
    <2>3. proc' = "post" /\ sent' = 0
          /\ UNCHANGED <<arg, posts, net, handler, rows, reports, calm>> /\ due' = FALSE
      BY <1>3 DEF Decide, Charge, GoTo
    <2>4. TypeOK'
      <3>1. Len(queue'.failures) <= MaxTries
        BY <2>2 DEF IInv, TypeOK
      <3>2. 0 \in Tries
        BY DeliveryAssumption DEF Tries
      <3> QED
        BY <2>2, <2>3, <3>1, <3>2 DEF IInv, TypeOK, QueueType, ClientPoints
    <2>5. \A i \in 1..Len(queue.failures) :
             queue.failures[i].number \in Nat /\ queue.failures[i].number <= queue.tries
      <3>1. \A i \in 1..Len(queue.failures) : queue.failures[i] \in Attempt
        BY <1>1 DEF QueueType
      <3> QED
        BY <3>1, DeliveryAssumption DEF IInv, Reported, Attempt, Tries
    <2>6. Charged'
      BY <1>1, <2>2, <2>3, DeliveryAssumption DEF IInv, TypeOK, Charged, QueueType, Tries, None
    <2>7. Reported'
      BY <1>1, <2>2, <2>3, <2>5, DeliveryAssumption DEF IInv, Reported, QueueType, Tries
    <2>8. Served'
      BY <2>2, <2>3 DEF IInv, Served, Stored, Row, None
    <2> QED
      BY <2>4, <2>6, <2>7, <2>8 DEF IInv
  <1>4. CASE Decide /\ Return /\ UNCHANGED queueVars
    BY <1>4, DeliveryAssumption
    DEF Decide, Return, IInv, TypeOK, Charged, Reported, Served, Stored, Row, ClientPoints,
        Tries, None
  <1>5. CASE Post
    <2>1. queue.tries \in Tries \ {0} /\ posts + 1 <= queue.tries
      BY <1>1, <1>5, DeliveryAssumption
      DEF Post, IInv, TypeOK, Charged, Reported, QueueType, Tries
    <2>2. /\ proc' = "wait" /\ sent' = 0 /\ posts' = posts + 1 /\ net' = net \cup {queue.tries}
          /\ UNCHANGED <<arg, queue, due, handler, rows, reports, calm>>
      BY <1>5 DEF Post, GoTo
    <2>3. TypeOK'
      <3>1. posts' \in Nat
        BY <2>2 DEF IInv, TypeOK
      <3>2. net' \subseteq Tries
        BY <2>1, <2>2 DEF IInv, TypeOK
      <3>3. 0 \in Tries
        BY DeliveryAssumption DEF Tries
      <3> QED
        BY <2>2, <3>1, <3>2, <3>3 DEF IInv, TypeOK, ClientPoints
    <2>4. Charged'
      BY <1>5, <2>1, <2>2 DEF Post, IInv, Charged
    <2>5. Reported'
      BY <2>2 DEF IInv, Reported
    <2>6. Served'
      BY <1>5, <2>1, <2>2 DEF Post, IInv, Charged, Served, Stored, Row, None
    <2> QED
      BY <2>3, <2>4, <2>5, <2>6 DEF IInv
  <1> QED
    BY <1>2, <1>3, <1>4, <1>5 DEF Decide

\* What the client learns: that it waited too long, or the answer to its request.
LEMMA ReplyInv ==
    ASSUME IInv,
           \/ TimesOut
           \/ \E t \in Tries : TooBusy(t) \/ Refuse(t)
           \/ ReplySent
    PROVE  IInv'
  <1> USE DEF queueVars, clientVars, storeVars
  <1>1. CASE TimesOut
    BY <1>1, AnswerInv DEF TimesOut, Codes
  <1>2. ASSUME NEW t \in Tries, TooBusy(t) \/ Refuse(t)
        PROVE  IInv'
    <2> DEFINE code == IF TooBusy(t) THEN "dependency_unavailable" ELSE "invalid_evidence"
    <2>1. /\ code \in Codes /\ Reply(t, code) /\ net' \subseteq net
          /\ UNCHANGED <<posts, handler, rows, reports, calm>>
      BY <1>2 DEF TooBusy, Refuse, Codes
    <2>2. CASE proc = "wait" /\ t = queue.tries
      <3>1. Answer(code) /\ code # "committed"
        BY <2>1, <2>2 DEF Reply, Codes
      <3> HIDE DEF code
      <3> QED
        BY <2>1, <2>2, <3>1, AnswerInv
    <2>3. CASE ~(proc = "wait" /\ t = queue.tries)
      BY <2>1, <2>3 DEF Reply, IInv, TypeOK, Charged, Reported, Served, Stored, Row
    <2> QED
      BY <2>2, <2>3
  <1>3. CASE ReplySent
    <2>1. /\ handler.point = "reply" /\ handler' = Idle /\ Reply(handler.from, handler.code)
          /\ UNCHANGED <<posts, net, rows, reports, calm>>
      BY <1>3 DEF ReplySent
    <2>2. CASE proc = "wait" /\ handler.from = queue.tries
      <3>1. queue.tries # 0
        BY <2>2, DeliveryAssumption DEF IInv, TypeOK, Charged, Reported, Tries
      <3>2. handler.code \in Codes \cup {"committed"}
        BY <2>1 DEF IInv, TypeOK, Served, Replies
      <3>3. handler.code = "committed" => Stored(queue.result)
        BY <2>2, <3>1 DEF IInv, Served
      <3> QED
        BY <2>1, <2>2, <3>2, <3>3, AnswerInv DEF Reply
    <2>3. CASE ~(proc = "wait" /\ handler.from = queue.tries)
      <3>1. handler' \in HandlerType
        BY <2>1, DeliveryAssumption
        DEF HandlerType, Idle, HandlerPoints, Tries, Replies
      <3>2. UNCHANGED <<proc, arg, sent, queue, due>>
        BY <2>1, <2>3 DEF Reply
      <3>3. TypeOK'
        BY <2>1, <3>1, <3>2 DEF IInv, TypeOK, HandlerType
      <3> QED
        BY <2>1, <3>2, <3>3 DEF IInv, Charged, Reported, Served, Stored, Row, Idle, None
    <2> QED
      BY <2>2, <2>3
  <1> QED
    BY <1>1, <1>2, <1>3

\* The handler touches the store and its own request only.
LEMMA HandlerInv ==
    ASSUME IInv,
           \/ \E t \in Tries : Admit(t)
           \/ \E r \in Results : OthersPost(r)
           \/ Verify \/ VerifyFails \/ Insert \/ InsertFails \/ Incident \/ CommitTx
           \/ CommitFails
    PROVE  IInv'
  <1> USE DEF queueVars, clientVars, storeVars
  <1>1. handler \in HandlerType /\ queue \in QueueType /\ rows \subseteq Rows
    BY DEF IInv, TypeOK, HandlerType, QueueType
  <1>2. /\ UNCHANGED <<proc, arg, sent, queue, due, posts, reports, calm>>
        /\ net' \subseteq net
    BY DEF Admit, OthersPost, Verify, VerifyFails, Unavailable, Insert, InsertFails,
           Incident, CommitTx, CommitFails, Handle
  <1>3. /\ handler' \in HandlerType /\ rows' \subseteq Rows /\ rows \subseteq rows'
        /\ Served'
    <2> DEFINE Typed == handler' \in HandlerType /\ rows' \subseteq Rows /\ rows \subseteq rows'
    <2> USE <1>1, <1>2 DEF HandlerType, None
    <2>1. ASSUME NEW t \in Tries, Admit(t)
          PROVE  Typed /\ Served'
      <3>1. /\ rows' = rows /\ t # 0 /\ queue.status # None
            /\ handler' = [point |-> "verify", from |-> t, result |-> queue.result,
                           tx |-> {}, code |-> None]
        BY <2>1 DEF Admit, Idle, IInv, Served
      <3>2. Typed
        BY <3>1 DEF QueueType, HandlerPoints, Replies
      <3>3. Served'
        BY <3>1 DEF IInv, Served, Stored, Row
      <3> QED
        BY <3>2, <3>3
    <2>2. ASSUME NEW r \in Results, OthersPost(r)
          PROVE  Typed /\ Served'
      BY <2>2, DeliveryAssumption
      DEF OthersPost, Idle, IInv, Served, Stored, Row, Tries, HandlerPoints, Replies
    <2>3. CASE Verify
      <3>1. Typed
        BY <2>3, DeliveryAssumption DEF Verify, Handle, Respond, IInv, Served, HandlerPoints, Replies, Codes
      <3>2. /\ rows' = rows /\ handler'.from = handler.from /\ handler'.result = handler.result
            /\ handler'.tx = handler.tx /\ handler.tx = {}
            /\ \/ handler.result \in Valid /\ handler'.point = "insert" /\ handler'.code = None
               \/ handler'.point = "reply" /\ handler'.code = "invalid_evidence"
        BY <2>3 DEF Verify, Handle, Respond, IInv, Served
      <3>3. Served'
        BY <3>2 DEF IInv, Served, Stored, Row
      <3> QED
        BY <3>1, <3>3
    <2>4. CASE VerifyFails
      <3>1. Typed
        BY <2>4, DeliveryAssumption DEF VerifyFails, Unavailable, Handle, Respond, IInv, Served, HandlerPoints, Replies, Codes
      <3>2. Served'
        BY <2>4, DeliveryAssumption DEF VerifyFails, Unavailable, Handle, Respond, IInv, Served, Stored, Row
      <3> QED
        BY <3>1, <3>2
    <2>5. CASE Insert
      <3>1. [result |-> handler.result, incident |-> FALSE] \in Rows
        BY <2>5, DeliveryAssumption DEF Insert, Handle, IInv, Served, Rows
      <3>3. Typed
        <4>1. {[result |-> handler.result, incident |-> FALSE]} \in SUBSET Rows
          BY <3>1
        <4>2. rows' = rows
          BY <2>5 DEF Insert
        <4>3. \/ handler' = [handler EXCEPT !.point = "incident",
                                !.tx = {[result |-> handler.result, incident |-> FALSE]}]
              \/ handler' = [handler EXCEPT !.point = "commit"]
              \/ handler' = [handler EXCEPT !.point = "reply", !.code = "identity_conflict"]
          BY <2>5 DEF Insert, Handle, Respond
        <4> QED
          BY <4>1, <4>2, <4>3 DEF HandlerPoints, Replies, Codes
      <3>2. Served'
        <4>1. /\ rows' = rows /\ handler.point = "insert" /\ handler.tx = {}
              /\ handler.result \in Valid /\ handler.code = None
              /\ handler'.from = handler.from /\ handler'.result = handler.result
              /\ \/ rows = {} /\ handler'.point = "incident" /\ handler'.code = None
                 \/ /\ Stored(handler.result) /\ handler'.point = "commit"
                    /\ handler'.tx = {} /\ handler'.code = None
                 \/ handler'.point = "reply" /\ handler'.code = "identity_conflict"
          BY <2>5 DEF Insert, Handle, Respond, IInv, Served, Stored
        <4> QED
          BY <4>1 DEF IInv, Served, Stored, Row
      <3> QED
        BY <3>2, <3>3
    <2>6. CASE InsertFails
      <3>1. Typed
        BY <2>6, DeliveryAssumption DEF InsertFails, Unavailable, Handle, Respond, IInv, Served, HandlerPoints, Replies, Codes
      <3>2. Served'
        BY <2>6, DeliveryAssumption DEF InsertFails, Unavailable, Handle, Respond, IInv, Served, Stored, Row
      <3> QED
        BY <3>1, <3>2
    <2>7. CASE Incident
      <3>1. Row(handler.result) \in Rows
        BY <2>7, DeliveryAssumption DEF Incident, Handle, IInv, Served, Rows, Row
      <3>3. Typed
        BY <2>7, <3>1 DEF Incident, Handle, HandlerPoints, Row
      <3>2. Served'
        BY <2>7, DeliveryAssumption DEF Incident, Handle, IInv, Served, Stored, Row
      <3> QED
        BY <3>2, <3>3
    <2>8. CASE CommitTx
      <3>1. Typed
        BY <2>8, DeliveryAssumption DEF CommitTx, Handle, Respond, IInv, Served, HandlerPoints, Replies, Codes
      <3>2. /\ rows' = rows \cup handler.tx /\ handler'.from = handler.from
            /\ handler'.result = handler.result /\ handler'.tx = handler.tx
            /\ handler'.point = "reply" /\ handler'.code = "committed"
        BY <2>8 DEF CommitTx, Handle, Respond
      <3>3. \E row \in rows' : row.result = handler.result
        <4>1. \/ handler.tx = {Row(handler.result)}
              \/ Stored(handler.result)
          BY <2>8 DEF CommitTx, Handle, IInv, Served
        <4>2. Row(handler.result).result = handler.result
          BY DEF Row
        <4> QED
          BY <3>2, <4>1, <4>2 DEF Stored
      <3>4. Served'
        BY <3>2, <3>3 DEF IInv, Served, Stored, Row
      <3> QED
        BY <3>1, <3>4
    <2>9. CASE CommitFails
      <3>1. Typed
        BY <2>9, DeliveryAssumption DEF CommitFails, Handle, Respond, IInv, Served, HandlerPoints, Replies, Codes
      <3>2. Served'
        BY <2>9, DeliveryAssumption DEF CommitFails, Handle, Respond, IInv, Served, Stored, Row
      <3> QED
        BY <3>1, <3>2
    <2> QED
      BY <2>1, <2>2, <2>3, <2>4, <2>5, <2>6, <2>7, <2>8, <2>9
  <1> QED
    BY <1>2, <1>3 DEF IInv, TypeOK, HandlerType, Charged, Reported

\* Crashes, losses and time leave the queue file and the store as they are.
LEMMA WorldInv ==
    ASSUME IInv,
           Crash \/ ApiCrash \/ RequestLost \/ DeadlinePasses \/ CalmDown \/ UNCHANGED vars
    PROVE  IInv'
  <1> USE DEF queueVars, clientVars, storeVars
  <1>1. /\ UNCHANGED <<queue, posts, rows, reports>> /\ net' \subseteq net
        /\ proc' \in {proc, "down"} /\ arg' \in {arg, None} /\ sent' \in {sent, 0}
        /\ due' \in BOOLEAN /\ calm' \in BOOLEAN /\ handler' \in {handler, Idle}
    BY DEF Crash, ApiCrash, RequestLost, DeadlinePasses, CalmDown, vars, Return, IInv, TypeOK
  <1>2. handler' \in HandlerType
    BY <1>1, DeliveryAssumption
    DEF IInv, TypeOK, HandlerType, Idle, HandlerPoints, Tries, Replies
  <1>3. TypeOK'
    BY <1>1, <1>2, DeliveryAssumption DEF IInv, TypeOK, HandlerType, ClientPoints, Tries
  <1> QED
    BY <1>1, <1>3 DEF IInv, Charged, Reported, Served, Stored, Row, Idle, None

LEMMA NextInv == IInv /\ [Next]_vars => IInv'
  BY LoadInv, FlushInv, DecideInv, ReplyInv, HandlerInv, WorldInv
  DEF Next, Deliver, Api, World

LEMMA Invariance == Spec => []IInv
  BY InitInv, NextInv, PTL DEF Spec

----------------------------------------------------------------------------
(* Theorems *)

\* The queue file, the request on its way and the rows keep their types.
THEOREM DeliveryTypes == Spec => []TypeOK
  <1>1. IInv => TypeOK
    BY DEF IInv
  <1> QED
    BY <1>1, Invariance, PTL

\* Queue.Deliver saves the charged attempt before it posts: however often deliver
\* is killed and run again, no more requests leave it than attempts are on file, and
\* these are at most MaxTries.
THEOREM AttemptsBoundPosts == Spec => []PostsAreCharged
  <1>1. IInv => PostsAreCharged
    BY DeliveryAssumption DEF IInv, TypeOK, Charged, PostsAreCharged, Tries
  <1> QED
    BY <1>1, Invariance, PTL

\* flush tells the store only what the queue file says of a try, once and for all:
\* an interrupted try is closed exactly once, before the next one is charged.
THEOREM ReportsMatchTheQueue == Spec => []ReportsAreDurable
  <1>1. IInv => ReportsAreDurable
    <2> SUFFICES ASSUME IInv PROVE ReportsAreDurable
      OBVIOUS
    <2>1. DOMAIN queue.failures = 1..Len(queue.failures)
      BY DEF IInv, TypeOK
    <2> QED
      BY <2>1 DEF IInv, Reported, ReportsAreDurable
  <1> QED
    BY <1>1, Invariance, PTL

\* Ingest and its transaction implement ReceiptStore for every interleaving of
\* senders, crashes and lost confirmations.
THEOREM ApiImplementsStore == Spec => StoreCommitsOnce
  <1>1. Init => Store!Init
    BY DEF Init, Store!Init
  <1>2. IInv /\ [Next]_vars => [Store!Next]_rows
    <2> SUFFICES ASSUME IInv, [Next]_vars, rows' # rows
                 PROVE  Store!Next
      OBVIOUS
    <2>1. CommitTx \/ CommitFails
      BY DEF Next, Deliver, Api, World, Load, FlushOne, FlushFails, Flushed, Decide, Post,
             TimesOut, Admit, TooBusy, Refuse, Verify, VerifyFails, Unavailable, Insert,
             InsertFails, Incident, ReplySent, OthersPost, Crash, ApiCrash, RequestLost,
             DeadlinePasses, CalmDown, Handle, vars, storeVars
    <2>2. handler.point = "commit" /\ rows' = rows \cup handler.tx
      BY <2>1 DEF CommitTx, CommitFails, Handle
    <2>3. rows = {} /\ handler.tx = {Row(handler.result)} /\ handler.result \in Valid
      BY <2>2 DEF IInv, Served
    <2> QED
      BY <2>2, <2>3 DEF Store!Next, Store!Commit, Row
  <1> QED
    BY <1>1, <1>2, Invariance, PTL DEF Spec, StoreCommitsOnce, Store!Spec

\* What each step does to the queue file: its result is chosen once, a complete one is
\* not written again, and an exhausted one only by reconcile, when the store has the
\* result.
LEMMA QueueKept ==
    ASSUME IInv, [Next]_vars
    PROVE  \/ queue' = queue
           \/ queue.status = None
           \/ /\ queue'.result = queue.result /\ queue.status # "complete"
              /\ queue.status # "exhausted" \/ Committed
  <1> USE DEF queueVars, clientVars, storeVars
  <1>1. queue \in QueueType /\ AfterTry \in {"retry", "exhausted"}
    BY DEF IInv, TypeOK, QueueType, AfterTry
  <1>2. \A end, code : Failed(end, code).result = queue.result
    BY <1>1 DEF Failed, QueueType
  <1>3. ASSUME NEW code \in {"committed"} \cup Codes, Answer(code)
        PROVE  queue'.result = queue.result
    BY <1>1, <1>2, <1>3 DEF Answer, Complete, QueueType
  <1>4. CASE \E r \in Results : Load(r)
    BY <1>2, <1>4 DEF Load
  <1>5. CASE Decide
    BY <1>1, <1>5 DEF Decide, Complete, Charge, Spent, QueueType, IInv, Charged
  <1>6. CASE TimesOut
    BY <1>3, <1>6 DEF TimesOut, Codes, IInv, Charged
  <1>7. CASE \E t \in Tries : TooBusy(t) \/ Refuse(t)
    BY <1>3, <1>7 DEF TooBusy, Refuse, Reply, Codes, IInv, Charged
  <1>8. CASE ReplySent
    <2>1. handler.code \in {"committed"} \cup Codes
      BY <1>8 DEF ReplySent, IInv, TypeOK, Served, Replies
    <2> QED
      BY <1>3, <1>8, <2>1 DEF ReplySent, Reply, IInv, Charged
  <1>9. CASE UNCHANGED queue
    BY <1>9
  <1> QED
    BY <1>4, <1>5, <1>6, <1>7, <1>8, <1>9
    DEF Next, Deliver, Api, World, FlushOne, FlushFails, Flushed, Post, Admit, Verify,
        VerifyFails, Insert, InsertFails, Incident, CommitTx, CommitFails, Handle, OthersPost,
        Crash, ApiCrash, RequestLost, DeadlinePasses, CalmDown, vars

\* Committed rows stay.
LEMMA RowsGrow ==
    ASSUME IInv, [Next]_vars
    PROVE  rows \subseteq rows'
  BY DEF Next, Deliver, Api, World, Load, FlushOne, FlushFails, Flushed, Decide, Post,
         TimesOut, Admit, TooBusy, Refuse, Verify, VerifyFails, Unavailable, Insert,
         InsertFails, Incident, CommitTx, CommitFails, ReplySent, OthersPost, Crash, ApiCrash,
         RequestLost, DeadlinePasses, CalmDown, Handle, vars, storeVars

\* Queue.Deliver with the API behind it implements Ingestion: "complete" has its own
\* receipt, an exhausted queue starts no further attempt and only its own receipt ends
\* it, and that receipt is never lost.
THEOREM QueueKeepsItsPromise == Spec => DeliversAsPromised
  <1>1. Init => Promised!Init
    BY DEF Init, NoQueue, None, Promised!Init, Committed
  <1>2. IInv /\ IInv' /\ [Next]_vars => Promised!Next
    <2> SUFFICES ASSUME IInv, IInv', [Next]_vars PROVE Promised!Next
      OBVIOUS
    <2> DEFINE x == queue.status = "exhausted"
               c == queue.status = "complete"
    <2>1. queue.status = None => ~Committed
      <3>1. \A row \in rows : row.result \in Results
        BY DEF IInv, TypeOK, Rows
      <3> QED
        BY <3>1, DeliveryAssumption DEF IInv, Charged, NoQueue, Committed
    <2>2. Committed => Committed'
      BY <2>1, QueueKept, RowsGrow DEF Committed
    <2>3. x => x' \/ Committed'
      BY <2>2, QueueKept DEF None
    <2>4. c => c'
      BY QueueKept DEF None
    <2>5. c' => Committed'
      BY DEF IInv, Served, Stored, Committed
    <2>6. x' \in BOOLEAN /\ c' \in BOOLEAN /\ Committed' \in BOOLEAN
      BY DEF Committed
    <2> QED
      BY <2>2, <2>3, <2>4, <2>5, <2>6 DEF Promised!Next
  <1> QED
    BY <1>1, <1>2, Invariance, PTL DEF Spec, DeliversAsPromised, Promised!Spec
====
