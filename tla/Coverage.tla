------------------------------ MODULE Coverage ------------------------------
(***************************************************************************)
(* What a receipt says.  The coordinator derives trusted observations from  *)
(* its final ledger and the collector's result; the finalizer merges them   *)
(* with the job's own evidence into a receipt and its verdict; a reader of  *)
(* the archive derives the receipt again from the archived files.  Digests, *)
(* identities and canonical form are comparisons that hold or do not; the   *)
(* texts of reasons, references and timestamps are left out.                *)
(***************************************************************************)

Components == {"workspace", "credentials", "resources", "logs", "runner_disposal"}
Statuses == {"verified", "failed", "unsupported", "unobservable"}
Observations == [status : Statuses, observer : {"trusted", "job", "none"}]

Unobserved == [status |-> "unobservable", observer |-> "none"]
Trusted(status) == [status |-> status, observer |-> "trusted"]

----------------------------------------------------------------------------
(* The inputs *)

Uids == {"cluster", "resource", "runner", "job", "pod", "role", "binding"}

\* the completed ledger: UIDs it knows, objects it saw absent, what it collected
Ledgers == [known : SUBSET Uids, absent : SUBSET {"resource", "runner", "role", "binding"},
            accepted : BOOLEAN, collected : BOOLEAN, logsComplete : BOOLEAN]

Inspected == {"workspace", "credentials", "logs"}

\* the collector's result; `bound' and `agrees' are its comparisons with the ledger
Collectors == [present : BOOLEAN, bound : BOOLEAN, agrees : BOOLEAN,
               started : BOOLEAN, terminated : BOOLEAN,
               findings : [Inspected -> {"verified", "failed", "unobservable"}]]

\* the frozen input files; `same' compares with the digests in the ledger, `exact'
\* with the bytes derived from it, and `bound' is the evidence's identity
Inputs == [evidence : [present : BOOLEAN, unreadable : BOOLEAN, same : BOOLEAN,
                       bound : BOOLEAN, verdict : {"pass", "partial", "fail"},
                       coverage : [Components -> Observations]],
           observations : [present : BOOLEAN, exact : BOOLEAN, collector : Collectors],
           log : [present : BOOLEAN, same : BOOLEAN]]

----------------------------------------------------------------------------
(* The coordinator: evidence of the job and trusted observations *)

Failing(coverage) == \E k \in Components : coverage[k].status = "failed"

\* the job may neither claim trust nor speak of its logs and its own disposal
ValidateEvidence(e) ==
    /\ e.bound /\ e.verdict # "pass"
    /\ \A k \in Components :
         /\ e.coverage[k].observer # "trusted"
         /\ e.coverage[k].observer = "none" => e.coverage[k].status = "unobservable"
         /\ k \in {"logs", "runner_disposal"} => e.coverage[k].status = "unobservable"
    /\ e.verdict = "fail" <=> Failing(e.coverage)

\* Result.Validate of the collector
ValidResult(c) ==
    /\ c.findings["logs"] = "verified" => c.started /\ c.terminated
    /\ (\E k \in {"workspace", "credentials"} : c.findings[k] # "unobservable") => c.terminated

Disposed(l) ==
    /\ {"cluster", "runner", "job", "pod", "role", "binding"} \subseteq l.known
    /\ {"runner", "role", "binding"} \subseteq l.absent

ResourcesAbsent(l) == "resource" \in l.absent /\ {"resource", "cluster"} \subseteq l.known

\* whether observations of this ledger and this result exist at all
Derivable(l, c) ==
    IF c.present
    THEN /\ ValidResult(c) /\ c.bound /\ (c.terminated => c.agrees)
         /\ c.findings["logs"] = "verified" <=> l.logsComplete
    ELSE ~l.collected /\ ~l.logsComplete

\* credentials count as gone only when the runner's token and RBAC are gone too
Found(l, c, k) ==
    IF ~c.present THEN Unobserved
    ELSE IF k = "credentials" /\ c.findings[k] = "verified" /\ ~Disposed(l)
         THEN Trusted("unobservable")
    ELSE Trusted(c.findings[k])

Derived(l, c) ==
    [k \in Components |->
        IF k \in Inspected THEN Found(l, c, k)
        ELSE IF \/ k = "resources" /\ ResourcesAbsent(l)
                \/ k = "runner_disposal" /\ Disposed(l)
             THEN Trusted("verified") ELSE Unobserved]

ValidateObservations(l, o) == o.present /\ o.exact /\ Derivable(l, o.collector)

----------------------------------------------------------------------------
(* The finalizer: the receipt *)

Verdict(coverage) ==
    IF Failing(coverage) THEN "fail"
    ELSE IF \A k \in Components : coverage[k] = Trusted("verified") THEN "pass"
    ELSE "partial"

Accepted(l, e) == e.present /\ l.accepted /\ e.same /\ ValidateEvidence(e)

EvidenceStatus(l, e) ==
    IF Accepted(l, e) THEN "accepted-untrusted"
    ELSE IF e.present \/ e.unreadable THEN "invalid" ELSE "missing"

\* what the job said, where its evidence was accepted
Claimed(l, in) ==
    [k \in Components |-> IF Accepted(l, in.evidence) THEN in.evidence.coverage[k]
                          ELSE Unobserved]

\* a trusted observation replaces the job's, unless the job admits a failure
Merged(l, in) ==
    LET seen == Derived(l, in.observations.collector)
    IN  [k \in Components |->
           IF /\ ValidateObservations(l, in.observations)
              /\ Claimed(l, in)[k].status # "failed"
              /\ seen[k].observer = "trusted" \/ Claimed(l, in)[k].observer = "none"
           THEN seen[k] ELSE Claimed(l, in)[k]]

LogArchived(in) == in.log.present /\ in.log.same

\* logs without their bytes and a workspace without evidence are not observed
Reported(l, in) ==
    [k \in Components |->
        IF /\ Merged(l, in)[k].status # "failed"
           /\ \/ k = "logs" /\ ~LogArchived(in)
              \/ k = "workspace" /\ ~Accepted(l, in.evidence)
        THEN Unobserved ELSE Merged(l, in)[k]]

Archived(in) ==
    {"run.json"} \cup (IF in.evidence.present THEN {"cleanup-evidence.json"} ELSE {})
                 \cup (IF in.observations.present THEN {"observations.json"} ELSE {})

BuildReceipt(l, in) ==
    [known |-> l.known, evidence |-> EvidenceStatus(l, in.evidence),
     coverage |-> Reported(l, in), objects |-> Archived(in),
     log |-> in.log.present, verdict |-> Verdict(Reported(l, in))]

----------------------------------------------------------------------------
(* Its readers: Receipt.Validate and ValidateArchived *)

ValidateCoverage(coverage) ==
    \A k \in Components :
      /\ coverage[k] \in Observations
      /\ coverage[k].observer = "none" => coverage[k].status = "unobservable"

Validate(r) ==
    /\ r.evidence \in {"accepted-untrusted", "missing", "invalid"}
    /\ ValidateCoverage(r.coverage) /\ r.verdict = Verdict(r.coverage)
    /\ "run.json" \in r.objects
    /\ r.objects \subseteq {"run.json", "observations.json", "cleanup-evidence.json"}
    /\ r.evidence = "accepted-untrusted" => "cleanup-evidence.json" \in r.objects
    /\ r.coverage["logs"].status = "verified" => r.log
    /\ r.verdict = "pass" =>
         /\ r.evidence = "accepted-untrusted" /\ r.log
         /\ {"cluster", "resource", "runner", "job", "pod"} \subseteq r.known
         /\ "observations.json" \in r.objects

\* the archive cannot say that a file was unreadable: the receipt's status does
Rebuilt(l, in, r) ==
    BuildReceipt(l, [in EXCEPT !.evidence.unreadable =
                        ~in.evidence.present /\ r.evidence = "invalid"])

\* `in' holds the files fetched from the archive, `l' the archived ledger
ValidateArchived(l, in, r) ==
    /\ r.objects = Archived(in) /\ r.log = in.log.present
    /\ Validate(Rebuilt(l, in, r)) /\ Rebuilt(l, in, r) = r
=============================================================================
