---------------------------- MODULE WatchdogProofs ----------------------------
(***************************************************************************)
(* Theorems about Watchdog, for every number of attempts.  The inductive     *)
(* invariant adds to the types the shape of the state file, which attempt    *)
(* the point in Step works for, and that every success claimed anywhere -    *)
(* state, table or a report on its way - has its receipt.                    *)
(***************************************************************************)
EXTENDS Watchdog, TLAPS

Shaped ==
    /\ state \in [current : Report, history : Seq(Report)]
    /\ ValidState(state)
    /\ state.current.number = 0 => state.history = << >>
    /\ \A i \in 1..Len(state.history) :
          state.history[i].stage \in Stages /\ state.history[i].code # None

Charged ==
    /\ dispatches <= state.current.number
    /\ proc = "announce" => dispatches < state.current.number
    /\ proc \in {"announce", "collect", "finalize", "deliver"} =>
          state.current.status = "running"
    /\ proc = "reconcile" => state.current.status # "succeeded"
    /\ proc \in {"decide", "flushInterrupted"} =>
          state.current.status \in {"pending", "retry", "exhausted"}

Proven ==
    /\ state.current.status = "succeeded" => receipt
    /\ \A n \in 1..MaxAttempts : table[n] = "succeeded" => receipt
    /\ \A a \in late : Accepted(a)

IInv == TypeOK /\ Shaped /\ Charged /\ Proven

SnapshotType == [ok : BOOLEAN, published : BOOLEAN, exhausted : BOOLEAN]

LEMMA Snapshots ==
    ASSUME TypeOK
    PROVE  {snapshot, NoSnapshot, Inspected} \subseteq SnapshotType
  <1>1. snapshot \in SnapshotType
    BY DEF TypeOK, SnapshotType
  <1>2. NoSnapshot \in SnapshotType
    BY DEF SnapshotType, NoSnapshot
  <1>3. Inspected \in SnapshotType
    BY DEF TypeOK, SnapshotType, Inspected
  <1> QED
    BY <1>1, <1>2, <1>3

----------------------------------------------------------------------------
(* The state file and the reports made from it *)

\* a current report that ends an attempt, as validState wants it
Ended(c) ==
    /\ c \in Report /\ ~c.lease
    /\ \/ c.status = "succeeded" /\ c.stage = "complete" /\ c.code = None /\ ~c.next
       \/ /\ c.status = "retry" /\ c.number \in 1..(MaxAttempts - 1)
          /\ c.code # None /\ c.next /\ c.stage \in Stages
       \/ /\ c.status = "exhausted" /\ c.number > 0
          /\ c.code # None /\ ~c.next /\ c.stage \in Stages

LEMMA SavedShape ==
    ASSUME IInv, NEW c, Ended(c), c.number = state.current.number, Save(c)
    PROVE  /\ Shaped' /\ state'.current = c
           /\ c \in Report
  <1>1. /\ state' \in [current : Report, history : Seq(Report)]
        /\ state'.current = c /\ state'.history = state.history
    BY DEF IInv, Shaped, Save, Ended
  <1>2. ValidState(state')
    <2>1. /\ c.number > 0 => Len(state.history) = c.number - 1
          /\ \A i \in DOMAIN state.history :
                LET h == state.history[i]
                IN  h.number = i /\ h.status = "retry" /\ h.next /\ ~h.lease
      BY DEF IInv, Shaped, ValidState
    <2>2. CASE c.status = "succeeded"
      BY <1>1, <2>1, <2>2 DEF Ended, ValidState
    <2>3. CASE c.status = "retry"
      BY <1>1, <2>1, <2>3 DEF Ended, ValidState
    <2>4. CASE c.status = "exhausted"
      BY <1>1, <2>1, <2>4 DEF Ended, ValidState
    <2> QED
      BY <2>2, <2>3, <2>4 DEF Ended
  <1> QED
    BY <1>1, <1>2 DEF IInv, Shaped, Ended

\* Conclude saves what Load accepts, whatever ended the attempt.
LEMMA ConcludeInv ==
    ASSUME IInv, NEW stage \in Stages, NEW permanent \in BOOLEAN, NEW exhausted \in BOOLEAN,
           state.current.status = "running", Conclude(stage, permanent, exhausted)
    PROVE  /\ Shaped' /\ state'.current.number = state.current.number
           /\ state'.current.status \in {"retry", "exhausted"}
           /\ proc' = "flushSaved" /\ sent' = 0 /\ snapshot' = NoSnapshot /\ due' \in BOOLEAN
  <1> DEFINE code == IF exhausted THEN "stage_exhausted"
                     ELSE IF permanent THEN "invalid_evidence" ELSE "dependency_unavailable"
             c == [state.current EXCEPT !.lease = FALSE, !.stage = stage, !.code = code]
             over == permanent \/ exhausted \/ c.number >= MaxAttempts
             e == [c EXCEPT !.status = IF over THEN "exhausted" ELSE "retry", !.next = ~over]
  <1>1. /\ Save(e) /\ due' = over
        /\ proc' = "flushSaved" /\ sent' = 0 /\ snapshot' = NoSnapshot
    BY DEF Conclude, GoTo
  <1>2. code \in {"stage_exhausted", "invalid_evidence", "dependency_unavailable"}
    OBVIOUS
  <1>3. /\ c \in Report /\ c.number = state.current.number /\ c.code = code /\ c.stage = stage
        /\ ~c.lease /\ c.number \in 1..MaxAttempts
    <2>1. state.current \in Report /\ state.current.number > 0
      BY DEF IInv, Shaped, ValidState
    <2>2. state.current.number \in 1..MaxAttempts
      BY <2>1, WatchdogAssumption DEF Report
    <2> HIDE DEF code
    <2>3. c \in Report
      BY <1>2, <2>1 DEF Report
    <2> QED
      BY <2>1, <2>2, <2>3 DEF Report
  <1> HIDE DEF c, code
  <1>4. over \in BOOLEAN
    OBVIOUS
  <1>5. ~over => c.number \in 1..(MaxAttempts - 1)
    BY <1>3, WatchdogAssumption
  <1> HIDE DEF over
  <1>6. /\ e \in Report /\ e.number = c.number /\ e.code = code /\ e.stage = stage
        /\ ~e.lease /\ e.status = (IF over THEN "exhausted" ELSE "retry") /\ e.next = ~over
    BY <1>3, <1>4 DEF Report
  <1> HIDE DEF e
  <1>7. Ended(e)
    BY <1>2, <1>3, <1>5, <1>6, WatchdogAssumption DEF Ended, None, Report
  <1> QED
    BY <1>1, <1>3, <1>4, <1>6, <1>7, SavedShape

\* Succeeded ends any attempt, also none.
LEMMA SucceededShape ==
    ASSUME IInv, Save(Succeeded(state.current))
    PROVE  /\ Shaped' /\ state'.current.number = state.current.number
           /\ state'.current.status = "succeeded"
  <1> DEFINE c == Succeeded(state.current)
  <1>1. Ended(c) /\ c.number = state.current.number /\ c.status = "succeeded"
    BY DEF IInv, Shaped, Report, Succeeded, Ended, None
  <1> QED
    BY <1>1, SavedShape

\* An interrupted attempt is closed: retried, or exhausted if it was the last.
LEMMA InterruptedShape ==
    ASSUME IInv, state.current.status = "running", Save(Interrupted(state.current))
    PROVE  /\ Shaped' /\ state'.current.number = state.current.number
           /\ state'.current.status \in {"retry", "exhausted"}
  <1> DEFINE c == Interrupted(state.current)
  <1>1. /\ state.current \in Report /\ state.current.number \in 1..MaxAttempts
        /\ state.current.next /\ state.current.stage \in Stages
    BY WatchdogAssumption DEF IInv, Shaped, Report, Stages, ValidState
  <1>2. CASE state.current.number >= MaxAttempts
    <2>1. /\ c \in Report /\ c.number = state.current.number /\ c.status = "exhausted"
          /\ c.code = "worker_interrupted" /\ ~c.lease /\ ~c.next
          /\ c.stage = state.current.stage
      BY <1>1, <1>2 DEF Interrupted, Report
    <2>2. Ended(c)
      BY <1>1, <2>1, WatchdogAssumption DEF Ended, None
    <2> QED
      BY <2>1, <2>2, SavedShape
  <1>3. CASE ~(state.current.number >= MaxAttempts)
    <2>1. /\ c \in Report /\ c.number = state.current.number /\ c.status = "retry"
          /\ c.code = "worker_interrupted" /\ ~c.lease /\ c.next
          /\ c.stage = state.current.stage
      BY <1>1, <1>3 DEF Interrupted, Report
    <2>2. Ended(c)
      BY <1>1, <1>3, <2>1, WatchdogAssumption DEF Ended, None
    <2> QED
      BY <2>1, <2>2, SavedShape
  <1> QED
    BY <1>2, <1>3

\* The running report is announced without its retry time.
LEMMA SendableReport ==
    ASSUME IInv, state.current.number > 0
    PROVE  /\ Sendable(state.current) \in Report /\ ValidRecovery(Sendable(state.current))
           /\ Sendable(state.current).number = state.current.number
           /\ Sendable(state.current).status = state.current.status
  <1> DEFINE c == state.current
  <1>1. c \in Report /\ c.number \in 1..MaxAttempts
    BY WatchdogAssumption DEF IInv, Shaped, Report
  <1>2. CASE c.status = "running"
    <2>1. Sendable(c) = [c EXCEPT !.next = FALSE]
      BY <1>2 DEF Sendable
    <2> QED
      BY <1>1, <1>2, <2>1 DEF IInv, Shaped, ValidState, ValidRecovery, Report
  <1>3. CASE c.status # "running"
    <2>1. Sendable(c) = c
      BY <1>3 DEF Sendable
    <2>2. c.status = "succeeded" => c.stage = "complete" /\ c.code = None /\ ~c.next /\ ~c.lease
      BY DEF IInv, Shaped, ValidState
    <2>3. c.status = "retry" => /\ c.number < MaxAttempts /\ c.code # None /\ ~c.lease
                                /\ c.next /\ c.stage \in Stages
      BY WatchdogAssumption DEF IInv, Shaped, ValidState
    <2>4. c.status = "exhausted" => /\ c.code # None /\ ~c.lease /\ ~c.next
                                    /\ c.stage \in Stages
      BY DEF IInv, Shaped, ValidState
    <2>5. c.status \in {"succeeded", "retry", "exhausted"}
      <3>1. c.status = "pending" => c.number = 0
        BY DEF IInv, Shaped, ValidState
      <3> QED
        BY <1>1, <1>3, <3>1 DEF Report
    <2>6. ValidRecovery(c)
      BY <1>1, <2>2, <2>3, <2>4, <2>5 DEF ValidRecovery
    <2> QED
      BY <1>1, <2>1, <2>6
  <1> QED
    BY <1>2, <1>3

\* Every report a flush replays is one validRecovery accepts.
LEMMA FlushReports ==
    ASSUME IInv
    PROVE  /\ ToFlush \in Seq(Report) /\ Len(ToFlush) <= MaxAttempts
           /\ \A i \in 1..Len(ToFlush) :
                 /\ ToFlush[i] \in Report /\ ValidRecovery(ToFlush[i])
                 /\ ToFlush[i].status = "succeeded" =>
                       state.current.status = "succeeded" /\ receipt
  <1> DEFINE h == state.history  c == state.current
  <1>1. h \in Seq(Report) /\ c \in Report /\ c.number \in 0..MaxAttempts
    BY DEF IInv, Shaped, Report
  <1>2. \A i \in 1..Len(h) : h[i] \in Report
    BY <1>1
  <1>3. CASE c.number = 0
    <2>1. ToFlush = h \o << >> /\ h = << >>
      BY <1>3 DEF ToFlush, IInv, Shaped
    <2> QED
      BY <1>1, <2>1, WatchdogAssumption
  <1>4. CASE c.number > 0
    <2> DEFINE s == Sendable(c)
    <2>1. ToFlush = h \o <<s>>
      BY <1>4 DEF ToFlush
    <2>2. /\ s \in Report /\ ValidRecovery(s)
          /\ s.status = "succeeded" => c.status = "succeeded" /\ receipt
      BY <1>4, SendableReport DEF IInv, Proven
    <2>3. Len(h) = c.number - 1
      BY <1>4 DEF IInv, Shaped, ValidState
    <2> HIDE DEF s
    <2>4. /\ ToFlush \in Seq(Report) /\ Len(ToFlush) = Len(h) + 1
          /\ \A i \in 1..Len(h) : ToFlush[i] = h[i]
          /\ ToFlush[Len(h) + 1] = s
      BY <1>1, <2>1, <2>2
    <2>5. \A i \in 1..Len(h) :
             h[i].number \in 1..MaxAttempts /\ h[i].number < MaxAttempts /\ h[i].status = "retry"
             /\ h[i].next /\ ~h[i].lease /\ h[i].stage \in Stages /\ h[i].code # None
      BY <1>1, <1>4, <2>3, WatchdogAssumption DEF IInv, Shaped, ValidState
    <2>6. \A i \in 1..Len(h) : ValidRecovery(h[i])
      BY <2>5 DEF ValidRecovery
    <2>7. Len(ToFlush) <= MaxAttempts
      BY <1>1, <2>3, <2>4, WatchdogAssumption
    <2>8. ASSUME NEW i \in 1..Len(ToFlush)
          PROVE  /\ ToFlush[i] \in Report /\ ValidRecovery(ToFlush[i])
                 /\ ToFlush[i].status = "succeeded" => c.status = "succeeded" /\ receipt
      <3>1. Len(h) \in Nat
        BY <1>1
      <3>2. CASE i \in 1..Len(h)
        BY <1>2, <2>4, <2>5, <2>6, <3>2
      <3>3. CASE i = Len(h) + 1
        BY <2>2, <2>4, <3>3
      <3> QED
        BY <2>4, <3>1, <3>2, <3>3
    <2> QED
      BY <2>4, <2>7, <2>8
  <1> QED
    BY <1>1, <1>3, <1>4

\* A report that is applied, lost or delayed leaves the table and the delayed
\* reports truthful.
LEMMA ReportInv ==
    ASSUME IInv, NEW a \in Report, ValidRecovery(a), receipt' = receipt,
           ReportOK(a) \/ ReportFails(a)
    PROVE  /\ table' \in [1..MaxAttempts -> Outcomes] /\ late' \subseteq Report
           /\ \A n \in 1..MaxAttempts : table'[n] = "succeeded" => receipt'
           /\ \A b \in late' : Accepted(b)'
  <1>1. a.number \in 1..MaxAttempts /\ a.status \in Outcomes
    BY DEF ValidRecovery, Outcomes
  <1>2. CASE Accepted(a) /\ Upsert(a) /\ late' = late
    BY <1>1, <1>2 DEF Upsert, Accepted, IInv, TypeOK, Proven, Outcomes
  <1>3. CASE UNCHANGED <<table, late>>
    BY <1>3 DEF Accepted, IInv, TypeOK, Proven
  <1>4. CASE Accepted(a) /\ late' = late \cup {a} /\ table' = table
    BY <1>4 DEF Accepted, IInv, TypeOK, Proven
  <1> QED
    BY <1>2, <1>3, <1>4 DEF ReportOK, ReportFails

----------------------------------------------------------------------------
(* The initial states and every step keep IInv *)

LEMMA InitInv == Init => IInv
  <1> SUFFICES ASSUME Init PROVE IInv
    OBVIOUS
  <1> USE DEF Init
  <1>1. Pending \in Report /\ Pending.number = 0 /\ Pending.status = "pending"
        /\ ~Pending.next /\ ~Pending.lease /\ Pending.stage = "collect"
    BY WatchdogAssumption DEF Pending, Report, Stages, None
  <1>2. /\ state \in [current : Report, history : Seq(Report)]
        /\ state.current = Pending /\ state.history = << >>
    BY <1>1
  <1>3. ValidState(state)
    <2>1. DOMAIN state.history = {} /\ ~(state.current.number > 0)
      BY <1>1, <1>2
    <2> HIDE DEF Init
    <2> QED
      BY <1>1, <1>2, <2>1 DEF ValidState, Stages
  <1>4. Shaped
    BY <1>1, <1>2, <1>3 DEF Shaped
  <1>5. 0 \in 0..MaxAttempts
    BY WatchdogAssumption
  <1>6. TypeOK
    BY <1>2, <1>5 DEF TypeOK, Points, NoSnapshot, Outcomes
  <1>7. Charged /\ Proven
    BY <1>1, <1>2 DEF Charged, Proven, None
  <1> QED
    BY <1>4, <1>6, <1>7 DEF IInv

\* Loading and flushing never touch the state file.
LEMMA FlushInv ==
    ASSUME IInv, Load \/ FlushOne \/ FlushEnds
    PROVE  IInv'
  <1> USE DEF stateVars, stageVars
  <1>1. /\ UNCHANGED <<state, due, dispatches, run, fin, delivery, receipt, calm>>
        /\ snapshot' \in {snapshot, NoSnapshot}
    BY DEF Load, FlushOne, FlushEnds, AfterFlush, GoTo, Return
  <1>2. /\ proc' \in Points /\ sent' \in 0..MaxAttempts
        /\ proc' \notin {"announce", "collect", "finalize", "deliver"}
        /\ proc' \in {"decide", "flushInterrupted"} => proc = "flushInterrupted"
        /\ proc' = "reconcile" => state.current.status # "succeeded"
    BY FlushReports, WatchdogAssumption
    DEF Load, FlushOne, FlushEnds, Flushing, AfterFlush, GoTo, Return, Points, IInv, TypeOK
  <1>3. /\ table' \in [1..MaxAttempts -> Outcomes] /\ late' \subseteq Report
        /\ \A n \in 1..MaxAttempts : table'[n] = "succeeded" => receipt'
        /\ \A b \in late' : Accepted(b)'
    <2>1. CASE FlushOne
      <3> DEFINE a == ToFlush[sent + 1]
      <3>1. sent + 1 \in 1..Len(ToFlush) /\ (ReportOK(a) \/ ReportFails(a))
        BY <2>1, FlushReports DEF FlushOne, IInv, TypeOK
      <3>2. a \in Report /\ ValidRecovery(a)
        BY <3>1, FlushReports
      <3> HIDE DEF a
      <3> QED
        BY <1>1, <3>1, <3>2, ReportInv
    <2>2. CASE Load \/ FlushEnds
      BY <1>1, <2>2 DEF Load, FlushEnds, IInv, TypeOK, Proven, Accepted
    <2> QED
      BY <2>1, <2>2
  <1>4. TypeOK'
    <2>1. snapshot' \in SnapshotType
      BY <1>1, Snapshots DEF IInv
    <2> QED
      BY <1>1, <1>2, <1>3, <2>1 DEF IInv, TypeOK, SnapshotType
  <1>5. Shaped' /\ Charged'
    BY <1>1, <1>2 DEF IInv, Shaped, Charged
  <1>6. Proven'
    BY <1>1, <1>3 DEF IInv, Proven
  <1> QED
    BY <1>4, <1>5, <1>6 DEF IInv

\* The receipt ends the run; an interrupted attempt is closed before the next is
\* decided on.
LEMMA ReconcileInv ==
    ASSUME IInv, Reconcile
    PROVE  IInv'
  <1> USE DEF stateVars, stageVars
  <1>1. UNCHANGED <<dispatches, run, fin, delivery, receipt, table, late, calm>>
    BY DEF Reconcile
  <1>3. /\ Shaped' /\ state'.current.number = state.current.number
        /\ state'.current.status = "succeeded" => receipt
        /\ proc' \in {"flushSaved", "flushInterrupted", "decide"} /\ sent' = 0
        /\ proc' # "flushSaved" => state'.current.status \in {"pending", "retry", "exhausted"}
        /\ snapshot' \in {snapshot, NoSnapshot, Inspected} /\ due' \in BOOLEAN
    <2>1. CASE Visible /\ Save(Succeeded(state.current)) /\ due' = TRUE /\ GoTo("flushSaved")
      BY <2>1, SucceededShape DEF Visible, GoTo
    <2>2. CASE /\ state.current.status = "running" /\ Save(Interrupted(state.current))
               /\ proc' = "flushInterrupted" /\ sent' = 0
               /\ due' = (due \/ state.current.number >= MaxAttempts)
               /\ snapshot' \in {Inspected, NoSnapshot}
      BY <2>2, InterruptedShape
    <2>3. CASE /\ state.current.status # "running" /\ proc' = "decide" /\ UNCHANGED stateVars
               /\ sent' = 0 /\ snapshot' \in {Inspected, NoSnapshot}
      <3>1. state.current.status \in {"pending", "retry", "exhausted", "succeeded"}
        BY <2>3 DEF IInv, Shaped, Report
      <3> QED
        BY <2>3, <3>1 DEF Reconcile, IInv, TypeOK, Shaped, Charged, Proven
    <2> QED
      BY <2>1, <2>2, <2>3 DEF Reconcile
  <1>4. 0 \in 0..MaxAttempts
    BY WatchdogAssumption
  <1>5. TypeOK'
    <2>1. snapshot' \in SnapshotType
      BY <1>3, Snapshots DEF IInv
    <2> QED
      BY <1>1, <1>3, <1>4, <2>1 DEF IInv, TypeOK, Shaped, SnapshotType, Points
  <1>6. Charged' /\ Proven'
    BY <1>1, <1>3 DEF IInv, Charged, Proven, Accepted
  <1> QED
    BY <1>3, <1>5, <1>6 DEF IInv

\* The next attempt is charged on file, with the one before it in the history.
LEMMA DecideInv ==
    ASSUME IInv, Decide
    PROVE  IInv'
  <1> USE DEF stateVars, stageVars
  <1>1. UNCHANGED <<dispatches, run, fin, delivery, receipt, table, late, calm>>
    BY DEF Decide
  <1>2. CASE Return /\ UNCHANGED stateVars
    <2>1. snapshot' \in SnapshotType /\ 0 \in 0..MaxAttempts
      BY <1>2, WatchdogAssumption DEF Return, SnapshotType, NoSnapshot
    <2>2. TypeOK'
      BY <1>1, <1>2, <2>1 DEF Return, IInv, TypeOK, SnapshotType, Points
    <2> QED
      BY <1>1, <1>2, <2>2 DEF Return, IInv, Shaped, Charged, Proven, Accepted
  <1>3. CASE ~Spent /\ due' = FALSE /\ GoTo("announce") /\ state' = NextAttempt
    <2> DEFINE c == state.current  h == state.history
               n == [Pending EXCEPT !.number = c.number + 1, !.status = "running",
                                    !.next = TRUE, !.lease = TRUE]
    <2>1. /\ c \in Report /\ h \in Seq(Report) /\ c.number + 1 \in 1..MaxAttempts
          /\ c.status # "exhausted" /\ c.number \in Nat
      BY <1>3, WatchdogAssumption DEF IInv, Shaped, Report, Spent
    <2>2. /\ n \in Report /\ n.number = c.number + 1 /\ n.status = "running" /\ n.next
          /\ n.lease /\ n.stage = "collect" /\ n.code = None
      <3>1. Pending \in Report /\ Pending.stage = "collect" /\ Pending.code = None
        BY WatchdogAssumption DEF Pending, Report, Stages
      <3>2. c.number + 1 \in 0..MaxAttempts
        BY <2>1
      <3> QED
        BY <3>1, <3>2 DEF Report
    <2>3. /\ state'.current = n
          /\ state'.history = IF c.number > 0 THEN Append(h, c) ELSE h
          /\ state' = [current |-> n, history |-> state'.history]
      BY <1>3 DEF NextAttempt
    <2> HIDE DEF n
    <2>4. /\ state'.history \in Seq(Report) /\ Len(state'.history) = c.number
          /\ \A i \in 1..Len(state'.history) :
                /\ state'.history[i].number = i /\ state'.history[i].status = "retry"
                /\ state'.history[i].next /\ ~state'.history[i].lease
                /\ state'.history[i].stage \in Stages /\ state'.history[i].code # None
      <3>1. CASE c.number = 0
        BY <2>3, <3>1 DEF IInv, Shaped
      <3>2. CASE c.number > 0
        <4>1. c.status = "retry"
          <5>1. c.status \in {"pending", "retry", "exhausted"}
            BY DEF Decide, IInv, Charged
          <5>2. c.status = "pending" => c.number = 0
            BY DEF IInv, Shaped, ValidState
          <5> QED
            BY <2>1, <3>2, <5>1, <5>2
        <4>2. c.next /\ ~c.lease /\ c.code # None /\ c.stage \in Stages
          BY <4>1 DEF IInv, Shaped, ValidState
        <4>3. /\ Len(h) = c.number - 1
              /\ \A i \in 1..Len(h) :
                    /\ h[i].number = i /\ h[i].status = "retry" /\ h[i].next /\ ~h[i].lease
                    /\ h[i].stage \in Stages /\ h[i].code # None
          BY <2>1, <3>2 DEF IInv, Shaped, ValidState
        <4> DEFINE g == Append(h, c)
        <4>4. /\ g \in Seq(Report) /\ Len(g) = c.number /\ g[c.number] = c
              /\ \A i \in 1..Len(h) : g[i] = h[i]
          BY <2>1, <4>3
        <4>5. state'.history = g
          BY <2>3, <3>2
        <4> HIDE DEF g
        <4>6. \A i \in 1..Len(g) : i \in 1..Len(h) \/ i = c.number
          BY <2>1, <4>3, <4>4
        <4>7. ASSUME NEW i \in 1..Len(g)
              PROVE  /\ g[i].number = i /\ g[i].status = "retry" /\ g[i].next /\ ~g[i].lease
                     /\ g[i].stage \in Stages /\ g[i].code # None
          <5>1. CASE i \in 1..Len(h)
            <6>1. g[i] = h[i]
              BY <4>4, <5>1
            <6> QED
              BY <4>3, <5>1, <6>1
          <5>2. CASE i = c.number
            BY <4>1, <4>2, <4>4, <5>2
          <5> QED
            BY <4>6, <5>1, <5>2
        <4> QED
          BY <4>4, <4>5, <4>7
      <3> QED
        BY <2>1, <3>1, <3>2
    <2>5. state' \in [current : Report, history : Seq(Report)]
      BY <2>2, <2>3, <2>4
    <2>6. ValidState(state')
      <3>1. DOMAIN state'.history = 1..Len(state'.history)
        BY <2>4
      <3>2. n.number > 0 /\ Len(state'.history) = n.number - 1 /\ n.stage \in Stages
        BY <2>1, <2>2, <2>4 DEF Stages
      <3> QED
        BY <2>2, <2>3, <2>4, <3>1, <3>2 DEF ValidState
    <2>7. Shaped'
      <3>1. state'.current.number # 0
        BY <2>1, <2>2, <2>3
      <3> HIDE DEF c, h
      <3> QED
        BY <2>4, <2>5, <2>6, <3>1 DEF Shaped
    <2>8. 0 \in 0..MaxAttempts
      BY WatchdogAssumption
    <2>9. TypeOK'
      <3>1. state'.current \in Report /\ state'.history \in Seq(Report)
        BY <2>5
      <3>2. due' = FALSE /\ proc' = "announce" /\ sent' = 0 /\ snapshot' = snapshot
        BY <1>3 DEF GoTo
      <3>3. proc' \in Points /\ sent' \in 0..MaxAttempts
        BY <2>8, <3>2 DEF Points
      <3> HIDE DEF c, h
      <3> QED
        BY <1>1, <3>1, <3>2, <3>3 DEF IInv, TypeOK
    <2>10. Charged' /\ Proven'
      BY <1>1, <1>3, <2>1, <2>2, <2>3 DEF GoTo, IInv, TypeOK, Charged, Proven, Accepted
    <2> QED
      BY <2>7, <2>9, <2>10 DEF IInv
  <1> QED
    BY <1>2, <1>3 DEF Decide

\* Recover is called for the attempt on file.
LEMMA AnnounceInv ==
    ASSUME IInv, Announce
    PROVE  IInv'
  <1> USE DEF stateVars, stageVars
  <1>1. /\ UNCHANGED <<state, due, run, fin, delivery, receipt, calm, snapshot>>
        /\ proc' = "collect" /\ sent' = 0 /\ dispatches' = dispatches + 1
        /\ proc = "announce"
    BY DEF Announce, GoTo
  <1>2. state.current.number > 0 /\ state.current.number \in Nat
    BY <1>1 DEF IInv, TypeOK, Charged, Report
  <1>3. /\ table' \in [1..MaxAttempts -> Outcomes] /\ late' \subseteq Report
        /\ \A n \in 1..MaxAttempts : table'[n] = "succeeded" => receipt'
        /\ \A b \in late' : Accepted(b)'
    BY <1>1, <1>2, SendableReport, ReportInv DEF Announce
  <1>4. TypeOK'
    <2>1. 0 \in 0..MaxAttempts /\ dispatches' \in Nat
      BY <1>1, WatchdogAssumption DEF IInv, TypeOK
    <2> QED
      BY <1>1, <1>3, <2>1 DEF IInv, TypeOK, Points
  <1>5. Shaped'
    BY <1>1 DEF IInv, Shaped
  <1>6. Charged'
    BY <1>1, <1>2 DEF IInv, TypeOK, Charged
  <1>7. Proven'
    BY <1>1, <1>3 DEF IInv, Proven
  <1> QED
    BY <1>4, <1>5, <1>6, <1>7 DEF IInv

FinType == [archived : BOOLEAN, published : BOOLEAN, exhausted : BOOLEAN]

\* What a run of the finalizer leaves is a state of the finalizer.
LEMMA FinalizerType ==
    ASSUME IInv, FinalizerOK \/ FinalizerFails
    PROVE  fin' \in FinType
  <1>1. fin \in FinType
    BY DEF IInv, TypeOK, FinType
  <1>2. CASE FinalizerOK
    BY <1>2 DEF FinalizerOK, FinType
  <1>3. CASE fin' = fin
    BY <1>1, <1>3
  <1>4. CASE Finalization!Next
    BY <1>4 DEF Finalization!Next, Finalization!Works, FinType
  <1> QED
    BY <1>2, <1>3, <1>4 DEF FinalizerFails

\* A run of deliver never loses a receipt.
LEMMA DeliveryType ==
    ASSUME IInv, DeliverOK \/ DeliverFails
    PROVE  delivery' \in BOOLEAN /\ receipt' \in BOOLEAN /\ (receipt => receipt')
  BY DEF DeliverOK, DeliverFails, Ingesting!Next

\* Recover's stages: the state file changes only when the attempt ends, and the
\* receipt never disappears.
LEMMA RecoverInv ==
    ASSUME IInv, Collect \/ Finalize \/ Deliver
    PROVE  IInv'
  <1> USE DEF stateVars, stageVars, stepVars
  <1>1. /\ UNCHANGED <<dispatches, table, late, calm>>
        /\ proc \in {"collect", "finalize", "deliver"} /\ state.current.status = "running"
    BY DEF Collect, Finalize, Deliver, IInv, Charged
  <1>2. /\ run' \in {"open", "ready", "invalid"} /\ delivery' \in BOOLEAN
        /\ receipt' \in BOOLEAN /\ (receipt => receipt')
    BY DeliveryType DEF Collect, Finalize, Deliver, IInv, TypeOK
  <1>3. fin' \in FinType
    BY FinalizerType DEF Collect, Finalize, Deliver, IInv, TypeOK, FinType
  <1>4. \/ /\ UNCHANGED <<state, due>> /\ proc' \in {"collect", "finalize", "deliver"}
           /\ sent' \in {0, sent} /\ snapshot' \in {snapshot, NoSnapshot}
        \/ /\ Save(Succeeded(state.current)) /\ receipt' /\ due' = TRUE /\ GoTo("flushSaved")
        \/ \E stage \in Stages, permanent, exhausted \in BOOLEAN :
              Conclude(stage, permanent, exhausted)
    <2>1. CASE Collect
      BY <2>1 DEF Collect, GoTo, Stages
    <2>2. CASE Finalize
      <3>1. fin'.exhausted \in BOOLEAN
        BY <1>3 DEF FinType
      <3> QED
        BY <2>2, <3>1 DEF Finalize, GoTo, Stages
    <2>3. CASE Deliver
      BY <1>2, <2>3 DEF Deliver, GoTo, Stages
    <2> QED
      BY <2>1, <2>2, <2>3
  <1>5. /\ Shaped' /\ state'.current.number = state.current.number
        /\ state'.current.status = "succeeded" => receipt'
        /\ sent' \in {0, sent} /\ snapshot' \in {snapshot, NoSnapshot} /\ due' \in BOOLEAN
        /\ \/ proc' \in {"collect", "finalize", "deliver"} /\ state'.current.status = "running"
           \/ proc' = "flushSaved"
    <2>1. CASE /\ UNCHANGED <<state, due>> /\ proc' \in {"collect", "finalize", "deliver"}
               /\ sent' \in {0, sent} /\ snapshot' \in {snapshot, NoSnapshot}
      BY <1>1, <2>1 DEF IInv, TypeOK, Shaped
    <2>2. CASE Save(Succeeded(state.current)) /\ receipt' /\ due' = TRUE /\ GoTo("flushSaved")
      BY <2>2, SucceededShape DEF GoTo
    <2>3. CASE \E stage \in Stages, permanent, exhausted \in BOOLEAN :
                  Conclude(stage, permanent, exhausted)
      BY <1>1, <2>3, ConcludeInv
    <2> QED
      BY <1>4, <2>1, <2>2, <2>3
  <1>6. TypeOK'
    <2>1. sent' \in 0..MaxAttempts
      BY <1>5, WatchdogAssumption DEF IInv, TypeOK
    <2>2. state'.current \in Report /\ state'.history \in Seq(Report)
      BY <1>5 DEF Shaped
    <2>3. proc' \in Points
      BY <1>5 DEF Points
    <2>4. snapshot' \in SnapshotType
      BY <1>5, Snapshots DEF IInv
    <2> QED
      BY <1>1, <1>2, <1>3, <1>5, <2>1, <2>2, <2>3, <2>4
      DEF IInv, TypeOK, FinType, SnapshotType
  <1>7. Charged'
    BY <1>1, <1>5 DEF IInv, Charged
  <1>8. Proven'
    <2>1. \A n \in 1..MaxAttempts : table'[n] = "succeeded" => receipt'
      BY <1>1, <1>2 DEF IInv, Proven
    <2>2. \A a \in late' : Accepted(a)'
      BY <1>1, <1>2 DEF IInv, Proven, Accepted
    <2> QED
      BY <1>5, <2>1, <2>2 DEF Proven
  <1> QED
    BY <1>5, <1>6, <1>7, <1>8 DEF IInv

\* Crashes, other workers, late reports and time.
LEMMA WorldInv ==
    ASSUME IInv,
           \/ Crash \/ OthersFinalize \/ OthersDeliver \/ LateReport \/ DeadlinePasses
           \/ CalmDown \/ UNCHANGED vars
    PROVE  IInv'
  <1> USE DEF stateVars, stageVars, stepVars
  <1>1. /\ UNCHANGED <<state, dispatches, run>>
        /\ \/ UNCHANGED <<proc, sent, snapshot>>
           \/ proc' = "down" /\ sent' = 0 /\ snapshot' = NoSnapshot
        /\ due' \in BOOLEAN /\ calm' \in BOOLEAN
    BY DEF Crash, OthersFinalize, OthersDeliver, LateReport, DeadlinePasses, CalmDown, vars,
           Return, IInv, TypeOK
  <1>2. delivery' \in BOOLEAN /\ receipt' \in BOOLEAN /\ (receipt => receipt')
    BY DeliveryType
    DEF Crash, OthersFinalize, OthersDeliver, LateReport, DeadlinePasses, CalmDown, vars, IInv,
        TypeOK
  <1>3. fin' \in FinType
    BY FinalizerType
    DEF Crash, OthersFinalize, OthersDeliver, LateReport, DeadlinePasses, CalmDown, vars, IInv,
        TypeOK, FinType
  <1>4. /\ table' \in [1..MaxAttempts -> Outcomes] /\ late' \subseteq Report
        /\ \A n \in 1..MaxAttempts : table'[n] = "succeeded" => receipt'
        /\ \A b \in late' : Accepted(b)'
    <2>1. CASE LateReport
      <3>1. PICK a \in late : late' = late \ {a} /\ Upsert(a)
        BY <2>1 DEF LateReport
      <3>2. /\ Accepted(a) /\ a.number \in 1..MaxAttempts /\ a.status \in Outcomes
            /\ receipt' = receipt
        BY <2>1 DEF LateReport, IInv, Proven, Accepted, ValidRecovery, Outcomes
      <3> QED
        BY <3>1, <3>2 DEF Upsert, Accepted, IInv, TypeOK, Proven, Outcomes
    <2>2. CASE ~LateReport
      <3>1. UNCHANGED <<table, late>>
        BY <2>2 DEF Crash, OthersFinalize, OthersDeliver, DeadlinePasses, CalmDown, vars
      <3> QED
        BY <1>2, <3>1 DEF Accepted, IInv, TypeOK, Proven
    <2> QED
      BY <2>1, <2>2
  <1>5. TypeOK'
    <2>1. snapshot' \in SnapshotType
      BY <1>1, Snapshots DEF IInv
    <2>2. sent' \in 0..MaxAttempts
      BY <1>1, WatchdogAssumption DEF IInv, TypeOK
    <2> QED
      BY <1>1, <1>2, <1>3, <1>4, <2>1, <2>2 DEF IInv, TypeOK, SnapshotType, FinType, Points
  <1>6. Shaped' /\ Charged'
    BY <1>1 DEF IInv, Shaped, Charged
  <1>7. Proven'
    BY <1>1, <1>2, <1>4 DEF IInv, Proven
  <1> QED
    BY <1>5, <1>6, <1>7 DEF IInv

LEMMA NextInv == IInv /\ [Next]_vars => IInv'
  BY FlushInv, ReconcileInv, DecideInv, AnnounceInv, RecoverInv, WorldInv DEF Next, Step

LEMMA Invariance == Spec => []IInv
  BY InitInv, NextInv, PTL DEF Spec

----------------------------------------------------------------------------
(* Theorems *)

\* The state file, the snapshot, the stages and the table keep their types.
THEOREM WatchdogTypes == Spec => []TypeOK
  <1>1. IInv => TypeOK
    BY DEF IInv
  <1> QED
    BY <1>1, Invariance, PTL

\* Every state Step saves passes validState, and every report replayed from it
\* passes validRecovery at the API, after any crash and for any attempt budget.
THEOREM StateStaysUsable == Spec => []StateIsUsable
  <1>1. IInv => StateIsUsable
    <2> SUFFICES ASSUME IInv PROVE StateIsUsable
      OBVIOUS
    <2>1. DOMAIN ToFlush = 1..Len(ToFlush)
      BY FlushReports
    <2> QED
      BY <2>1, FlushReports DEF StateIsUsable, IInv, Shaped
  <1> QED
    BY <1>1, Invariance, PTL

\* Store.Recovery keeps a reported outcome against late and repeated reports; only
\* success replaces it.
THEOREM OutcomesStand == Spec => OutcomeStands
  <1> DEFINE Stands ==
        \A n \in 1..MaxAttempts :
          /\ table[n] = "succeeded" => table'[n] = "succeeded"
          /\ table[n] \in {"retry", "exhausted"} => table'[n] \in {table[n], "succeeded"}
  <1>1. IInv /\ [Next]_vars => [Stands]_vars
    <2> SUFFICES ASSUME IInv, Next PROVE Stands
      BY DEF vars, stepVars, stateVars, stageVars
    <2>1. table' = table \/ \E a \in Report : Upsert(a)
      <3> USE DEF stateVars, stageVars, stepVars
      <3>1. CASE FlushOne
        <4>1. sent + 1 \in 1..Len(ToFlush)
          BY <3>1, FlushReports DEF FlushOne, IInv, TypeOK
        <4>2. ToFlush[sent + 1] \in Report
          BY <4>1, FlushReports
        <4> QED
          BY <3>1, <4>2 DEF FlushOne, ReportOK, ReportFails
      <3>2. CASE Announce
        <4>1. state.current.number > 0
          BY <3>2 DEF Announce, IInv, TypeOK, Charged, Report
        <4>2. Sendable(state.current) \in Report
          BY <4>1, SendableReport
        <4> QED
          BY <3>2, <4>2 DEF Announce, ReportOK, ReportFails
      <3>3. CASE LateReport
        BY <3>3 DEF LateReport, IInv, TypeOK
      <3> QED
        BY <3>1, <3>2, <3>3
        DEF Next, Step, Load, FlushEnds, Reconcile, Decide, Collect, Finalize, Deliver,
            Crash, OthersFinalize, OthersDeliver, DeadlinePasses, CalmDown
    <2> QED
      BY <2>1 DEF Upsert, IInv, TypeOK, Outcomes, None
  <1> QED
    BY <1>1, Invariance, PTL DEF Spec, OutcomeStands

----------------------------------------------------------------------------
(* The watchdog implements Pipeline *)

\* the milestones are reached in order; with IInv this is inductive
Forward == (receipt => fin.published) /\ (fin.published => fin.archived)

\* a success in the table or on its way there is that of the state file
Sincere ==
    /\ \A n \in 1..MaxAttempts : table[n] = "succeeded" => state.current.status = "succeeded"
    /\ \A a \in late : a.status = "succeeded" => state.current.status = "succeeded"

\* What a stage does to the milestones, whoever runs it: the promises of Publication
\* and Ingestion carry over.
LEMMA StagesForward ==
    ASSUME IInv, Forward, [Next]_vars
    PROVE  /\ Forward'
           /\ fin.archived => fin'.archived
           /\ fin.published => fin'.published
           /\ receipt => receipt'
  <1> USE DEF stateVars, stageVars, stepVars
  <1>1. CASE UNCHANGED <<fin, receipt>>
    BY <1>1 DEF Forward
  <1>2. CASE (FinalizerOK \/ FinalizerFails) /\ UNCHANGED receipt
    <2>1. CASE FinalizerOK
      BY <1>2, <2>1 DEF FinalizerOK, Forward
    <2>2. CASE Finalization!Next
      BY <1>2, <2>2 DEF Finalization!Next, Finalization!Keeps, Forward
    <2>3. CASE UNCHANGED fin
      BY <1>2, <2>3, <1>1
    <2> QED
      BY <1>2, <2>1, <2>2, <2>3 DEF FinalizerFails
  <1>3. CASE (DeliverOK \/ DeliverFails) /\ UNCHANGED fin
    BY <1>3 DEF DeliverOK, DeliverFails, Ingesting!Next, Forward
  <1> QED
    BY <1>1, <1>2, <1>3
    DEF Next, Step, Load, FlushOne, FlushEnds, Reconcile, Decide, Announce, Collect, Finalize,
        Deliver, Crash, OthersFinalize, OthersDeliver, LateReport, DeadlinePasses, CalmDown,
        vars

\* Only Decide charges, and only while the run has not succeeded; success stays.
LEMMA AttemptsForward ==
    ASSUME IInv, [Next]_vars
    PROVE  /\ state.current.status = "succeeded" => state'.current.status = "succeeded"
           /\ \/ state'.current.number = state.current.number
              \/ /\ state.current.status # "succeeded"
                 /\ state'.current.number = state.current.number + 1
                 /\ state'.current.status # "succeeded"
                 /\ UNCHANGED <<dispatches, fin, receipt, table>>
  <1> USE DEF stateVars, stageVars, stepVars
  <1>1. CASE UNCHANGED state
    BY <1>1
  <1>2. CASE Save(Succeeded(state.current))
    BY <1>2, SucceededShape
  <1>3. CASE state.current.status = "running" /\ Save(Interrupted(state.current))
    BY <1>3, InterruptedShape
  <1>4. ASSUME state.current.status = "running", NEW stage \in Stages,
               NEW permanent \in BOOLEAN, NEW exhausted \in BOOLEAN,
               Conclude(stage, permanent, exhausted)
        PROVE  state'.current.number = state.current.number
    BY <1>4, ConcludeInv
  <1>5. CASE Decide
    <2>1. state.current.status # "succeeded"
      BY <1>5 DEF Decide, IInv, Charged
    <2>2. CASE state' = NextAttempt
      <3>1. state'.current.number = state.current.number + 1
            /\ state'.current.status = "running"
        BY <2>2 DEF NextAttempt, Pending
      <3> QED
        BY <1>5, <2>1, <3>1 DEF Decide
    <2> QED
      BY <1>5, <2>1, <2>2 DEF Decide
  <1>6. CASE Collect
    <2>1. state.current.status = "running"
      BY <1>6 DEF Collect, IInv, Charged
    <2> QED
      BY <1>1, <1>4, <1>6, <2>1 DEF Collect, Stages
  <1>7. CASE Finalize
    <2>1. state.current.status = "running"
      BY <1>7 DEF Finalize, IInv, Charged
    <2>2. FinalizerFails => fin'.exhausted \in BOOLEAN
      BY FinalizerType DEF FinType
    <2> QED
      BY <1>1, <1>4, <1>7, <2>1, <2>2 DEF Finalize, Stages
  <1>8. CASE Deliver
    <2>1. state.current.status = "running" /\ delivery' \in BOOLEAN
      BY <1>8, DeliveryType DEF Deliver, IInv, Charged
    <2> QED
      BY <1>2, <1>4, <1>8, <2>1 DEF Deliver, Stages
  <1> QED
    BY <1>1, <1>2, <1>3, <1>5, <1>6, <1>7, <1>8
    DEF Next, Step, Load, FlushOne, FlushEnds, Reconcile, Announce, Crash, OthersFinalize,
        OthersDeliver, LateReport, DeadlinePasses, CalmDown, vars

\* Only Announce dispatches, for an attempt that is running and not yet dispatched.
LEMMA DispatchesForward ==
    ASSUME IInv, [Next]_vars
    PROVE  \/ UNCHANGED dispatches
           \/ /\ Announce /\ UNCHANGED <<state, fin, receipt>>
              /\ state.current.status = "running" /\ dispatches < state.current.number
              /\ dispatches' = dispatches + 1
  <1> USE DEF stateVars, stageVars, stepVars
  <1>1. CASE Announce
    BY <1>1 DEF Announce, IInv, Charged
  <1> QED
    BY <1>1
    DEF Next, Step, Load, FlushOne, FlushEnds, Reconcile, Decide, Collect, Finalize, Deliver,
        Crash, OthersFinalize, OthersDeliver, LateReport, DeadlinePasses, CalmDown, vars

\* Success enters the table only by a report made from a state file that says so; and
\* it stays there.  The report of a running attempt changes no success.
LEMMA ReportsForward ==
    ASSUME IInv, Sincere, [Next]_vars
    PROVE  /\ Sincere'
           /\ \A n \in 1..MaxAttempts : table[n] = "succeeded" => table'[n] = "succeeded"
           /\ Announce => \A n \in 1..MaxAttempts :
                             table'[n] = "succeeded" => table[n] = "succeeded"
  <1> USE DEF stateVars, stageVars, stepVars
  <1>1. state.current.status = "succeeded" => state'.current.status = "succeeded"
    BY AttemptsForward
  <1>2. ASSUME NEW a \in Report, a.status = "succeeded" => state.current.status = "succeeded",
               table' = table \/ Upsert(a), late' \subseteq late \cup {a}
        PROVE  /\ Sincere'
               /\ \A n \in 1..MaxAttempts : table[n] = "succeeded" => table'[n] = "succeeded"
               /\ a.status # "succeeded" =>
                     \A n \in 1..MaxAttempts : table'[n] = "succeeded" => table[n] = "succeeded"
    <2>1. \A n \in 1..MaxAttempts :
             /\ table[n] = "succeeded" => table'[n] = "succeeded"
             /\ table'[n] = "succeeded" => table[n] = "succeeded" \/ a.status = "succeeded"
      BY <1>2 DEF Upsert, IInv, TypeOK, None
    <2> QED
      BY <1>1, <1>2, <2>1 DEF Sincere
  <1>3. CASE UNCHANGED <<table, late>>
    BY <1>1, <1>3 DEF Sincere
  <1>4. CASE FlushOne
    <2>1. sent + 1 \in 1..Len(ToFlush)
      BY <1>4, FlushReports DEF FlushOne, IInv, TypeOK
    <2>2. /\ ToFlush[sent + 1] \in Report
          /\ ToFlush[sent + 1].status = "succeeded" => state.current.status = "succeeded"
      BY <2>1, FlushReports
    <2>3. (table' = table \/ Upsert(ToFlush[sent + 1]))
          /\ late' \subseteq late \cup {ToFlush[sent + 1]}
      BY <1>4 DEF FlushOne, ReportOK, ReportFails
    <2>4. ~Announce
      BY <1>4 DEF FlushOne, Flushing, Announce
    <2> QED
      BY <1>2, <2>2, <2>3, <2>4
  <1>5. CASE Announce
    <2> DEFINE a == Sendable(state.current)
    <2>1. state.current.number > 0 /\ state.current.status = "running"
      BY <1>5 DEF Announce, IInv, TypeOK, Charged, Report
    <2>2. a \in Report /\ a.status = "running"
      BY <2>1, SendableReport
    <2>3. (table' = table \/ Upsert(a)) /\ late' \subseteq late \cup {a}
      BY <1>5 DEF Announce, ReportOK, ReportFails
    <2> HIDE DEF a
    <2> QED
      BY <1>2, <2>2, <2>3
  <1>6. CASE LateReport
    <2>1. PICK a \in late : late' = late \ {a} /\ Upsert(a)
      BY <1>6 DEF LateReport
    <2>2. a \in Report /\ (a.status = "succeeded" => state.current.status = "succeeded")
      BY DEF IInv, TypeOK, Sincere
    <2>3. CASE ~Announce
      BY <1>2, <2>1, <2>2, <2>3
    <2>4. CASE Announce
      BY <1>5, <2>4
    <2> QED
      BY <2>3, <2>4
  <1> QED
    BY <1>3, <1>4, <1>5, <1>6
    DEF Next, Step, Load, FlushEnds, Reconcile, Decide, Collect, Finalize, Deliver,
        Crash, OthersFinalize, OthersDeliver, DeadlinePasses, CalmDown, vars

\* Engine.Step over any finalizer and any delivery that keep their promises implements
\* Pipeline: archive, publication, receipt, success and its report are reached in this
\* order and stay; at most MaxAttempts attempts are charged, each dispatches Recover at
\* most once, wherever the watchdog is killed, and none does after success.
THEOREM RunImplementsPipeline == Spec => RunAdvances
  <1> DEFINE success == state.current.status = "succeeded"
             reported == \E n \in 1..MaxAttempts : table[n] = "succeeded"
             done == [archived |-> fin.archived, published |-> fin.published,
                      received |-> receipt, succeeded |-> success, reported |-> reported]
  <1>1. Init => Forward /\ Sincere
    <2>1. Init => \A n \in 1..MaxAttempts : table[n] # "succeeded"
      BY DEF Init, None
    <2> QED
      BY <2>1 DEF Init, Forward, Sincere
  <1>2. IInv /\ Forward /\ Sincere /\ [Next]_vars => Forward' /\ Sincere'
    BY StagesForward, ReportsForward
  <1>3. Init => Run!Init
    <2> SUFFICES ASSUME Init PROVE Run!Init
      OBVIOUS
    <2>1. state.current.number = 0 /\ state.current.status = "pending"
      BY DEF Init, Pending
    <2>2. fin.archived = FALSE /\ fin.published = FALSE /\ receipt = FALSE /\ dispatches = 0
      BY DEF Init
    <2>3. success = FALSE
      BY <2>1
    <2>4. reported = FALSE
      BY DEF Init, None
    <2> QED
      BY <2>1, <2>2, <2>3, <2>4 DEF Run!Init
  <1>4. IInv /\ IInv' /\ Forward /\ Sincere /\ [Next]_vars => Run!Next
    <2> SUFFICES ASSUME IInv, IInv', Forward, Sincere, [Next]_vars PROVE Run!Next
      OBVIOUS
    <2>1. fin \in FinType /\ fin' \in FinType /\ receipt \in BOOLEAN /\ receipt' \in BOOLEAN
          /\ state.current.number \in Nat /\ state'.current.number \in 0..MaxAttempts
      BY WatchdogAssumption DEF IInv, TypeOK, FinType, Report
    <2>2. CASE state'.current.number = state.current.number /\ UNCHANGED dispatches
      <3>1. done' \in Run!Milestones
        BY <2>1 DEF Run!Milestones, FinType
      <3>2. Run!Ordered(done')
        <4>1. success' => receipt'
          BY DEF IInv, Proven
        <4>2. reported' => success'
          BY ReportsForward DEF Sincere
        <4>3. (receipt' => fin'.published) /\ (fin'.published => fin'.archived)
          BY StagesForward DEF Forward
        <4> HIDE DEF success, reported
        <4> QED
          BY <4>1, <4>2, <4>3 DEF Run!Ordered
      <3>3. \A m \in DOMAIN done : done[m] => done'[m]
        <4>1. SUFFICES ASSUME NEW m \in {"archived", "published", "received", "succeeded",
                                         "reported"},
                              done[m]
                       PROVE  done'[m]
          OBVIOUS
        <4>2. CASE m = "reported"
          <5>1. reported => reported'
            BY ReportsForward
          <5> HIDE DEF success, reported
          <5> QED
            BY <4>1, <4>2, <5>1
        <4>3. CASE m = "succeeded"
          <5>1. success => success'
            BY AttemptsForward
          <5> HIDE DEF success, reported
          <5> QED
            BY <4>1, <4>3, <5>1
        <4>4. CASE m = "received"
          BY <4>1, <4>4, StagesForward
        <4>5. CASE m = "published"
          BY <4>1, <4>5, StagesForward
        <4>6. CASE m = "archived"
          BY <4>1, <4>6, StagesForward
        <4> QED
          BY <4>2, <4>3, <4>4, <4>5, <4>6
      <3> QED
        BY <2>2, <3>1, <3>2, <3>3 DEF Run!Next, Run!Advance, Run!Forward
    <2>3. CASE /\ ~success /\ ~success'
               /\ state'.current.number = state.current.number + 1
               /\ UNCHANGED <<dispatches, fin, receipt, table>>
      <3>1. state.current.number < MaxAttempts
        BY <2>1, <2>3, WatchdogAssumption
      <3>2. ~done.succeeded /\ done' = done
        BY <2>3
      <3> QED
        BY <2>3, <3>1, <3>2 DEF Run!Next, Run!Charge
    <2>4. CASE /\ Announce /\ UNCHANGED <<state, fin, receipt>>
               /\ state.current.status = "running" /\ dispatches < state.current.number
               /\ dispatches' = dispatches + 1
      <3>1. ~success /\ success' = success
        BY <2>4
      <3>2. reported' = reported
        BY <2>4, ReportsForward
      <3>3. ~done.succeeded /\ done' = done
        <4> HIDE DEF success, reported
        <4> QED
          BY <2>4, <3>1, <3>2
      <3> QED
        BY <2>4, <3>3 DEF Run!Next, Run!Dispatch
    <2> QED
      BY <2>2, <2>3, <2>4, AttemptsForward, DispatchesForward
  <1> QED
    BY <1>1, <1>2, <1>3, <1>4, Invariance, PTL DEF Spec, RunAdvances, Run!Spec
====
