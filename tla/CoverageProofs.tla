--------------------------- MODULE CoverageProofs ---------------------------
(***************************************************************************)
(* Theorems about the receipts that Coverage builds, for every ledger and   *)
(* every set of input files.                                                *)
(***************************************************************************)
EXTENDS Coverage, TLAPS

----------------------------------------------------------------------------
(* Types *)

(* Every observation the coordinator derives is an observation, and only a   *)
(* trusted one says more than "unobservable".                                *)
LEMMA DerivedType ==
    ASSUME NEW l \in Ledgers, NEW c \in Collectors, NEW k \in Components
    PROVE  /\ Derived(l, c)[k] \in Observations
           /\ Derived(l, c)[k] = Unobserved \/ Derived(l, c)[k].observer = "trusted"
<1>1. \A s \in Statuses : Trusted(s) \in Observations /\ Trusted(s).observer = "trusted"
  BY DEF Trusted, Observations
<1>2. Unobserved \in Observations
  BY DEF Unobserved, Observations, Statuses
<1>3. \A j \in Inspected : c.findings[j] \in Statuses
  BY DEF Collectors, Statuses
<1>4. CASE k \in Inspected
  <2>1. Derived(l, c)[k] = Found(l, c, k)
    BY <1>4 DEF Derived
  <2> QED
    BY <1>4, <2>1, <1>1, <1>2, <1>3 DEF Found, Statuses
<1>5. CASE k \notin Inspected
  <2>1. Derived(l, c)[k] \in {Trusted("verified"), Unobserved}
    BY <1>5 DEF Derived
  <2> QED
    BY <2>1, <1>1, <1>2 DEF Statuses
<1> QED
  BY <1>4, <1>5

(* What the job may claim: an observation, never a trusted one, and only      *)
(* "unobservable" of its logs and its own disposal.                           *)
LEMMA ClaimedType ==
    ASSUME NEW l \in Ledgers, NEW in \in Inputs, NEW k \in Components
    PROVE  /\ Claimed(l, in)[k] \in Observations
           /\ Claimed(l, in)[k].observer # "trusted"
           /\ Claimed(l, in)[k].observer = "none" =>
                Claimed(l, in)[k].status = "unobservable"
           /\ k \in {"logs", "runner_disposal"} =>
                Claimed(l, in)[k].status = "unobservable"
<1>1. CASE Accepted(l, in.evidence)
  <2>1. Claimed(l, in)[k] = in.evidence.coverage[k]
    BY <1>1 DEF Claimed
  <2>2. in.evidence.coverage[k] \in Observations
    BY DEF Inputs
  <2> QED
    BY <1>1, <2>1, <2>2 DEF Accepted, ValidateEvidence
<1>2. CASE ~Accepted(l, in.evidence)
  <2>1. Claimed(l, in)[k] = Unobserved
    BY <1>2 DEF Claimed
  <2> QED
    BY <2>1 DEF Unobserved, Observations, Statuses
<1> QED
  BY <1>1, <1>2

(* A merged observation comes from the coordinator, in valid observations, or *)
(* from the job.                                                              *)
LEMMA MergedOrigin ==
    ASSUME NEW l \in Ledgers, NEW in \in Inputs, NEW k \in Components
    PROVE  \/ /\ ValidateObservations(l, in.observations)
              /\ Merged(l, in)[k] = Derived(l, in.observations.collector)[k]
           \/ Merged(l, in)[k] = Claimed(l, in)[k]
BY DEF Merged

(* The receipt's observations are well-formed: nobody attests nothing.        *)
LEMMA ReportedType ==
    ASSUME NEW l \in Ledgers, NEW in \in Inputs
    PROVE  ValidateCoverage(Reported(l, in))
<1> SUFFICES ASSUME NEW k \in Components
             PROVE  /\ Reported(l, in)[k] \in Observations
                    /\ Reported(l, in)[k].observer = "none" =>
                         Reported(l, in)[k].status = "unobservable"
  BY DEF ValidateCoverage
<1>1. in.observations.collector \in Collectors
  BY DEF Inputs
<1>2. /\ Unobserved \in Observations
      /\ Unobserved.status = "unobservable" /\ Unobserved.observer # "trusted"
  BY DEF Unobserved, Observations, Statuses
<1>3. Reported(l, in)[k] \in {Unobserved, Merged(l, in)[k]}
  BY DEF Reported
<1>4. Reported(l, in)[k] \in {Unobserved, Claimed(l, in)[k],
                              Derived(l, in.observations.collector)[k]}
  BY <1>3, MergedOrigin
<1> QED
  BY <1>1, <1>2, <1>4, ClaimedType, DerivedType

----------------------------------------------------------------------------
(* Passing and failing *)

(* A verdict "pass" is one about trusted, verified observations.              *)
LEMMA PassMeansTrusted ==
    ASSUME NEW coverage, Verdict(coverage) = "pass"
    PROVE  \A k \in Components : coverage[k] = Trusted("verified")
BY DEF Verdict

(* In a receipt that reports a trusted verified component, the coordinator    *)
(* derived it, from observations that are valid, and nothing blanked it.      *)
LEMMA TrustedOrigin ==
    ASSUME NEW l \in Ledgers, NEW in \in Inputs, NEW k \in Components,
           Reported(l, in)[k] = Trusted("verified")
    PROVE  /\ ValidateObservations(l, in.observations)
           /\ Derived(l, in.observations.collector)[k] = Trusted("verified")
           /\ k = "logs" => LogArchived(in)
           /\ k = "workspace" => Accepted(l, in.evidence)
<1>1. Trusted("verified") # Unobserved /\ Trusted("verified").observer = "trusted"
      /\ Trusted("verified").status # "failed"
  BY DEF Trusted, Unobserved
<1>2. Merged(l, in)[k] = Trusted("verified")
  BY <1>1 DEF Reported
<1>3. Claimed(l, in)[k] # Trusted("verified")
  BY <1>1, ClaimedType
<1> QED
  BY <1>1, <1>2, <1>3, MergedOrigin DEF Reported

(* A passing receipt is earned: the job's evidence was accepted and admits no *)
(* failure, the coordinator saw namespaces and RBAC gone under UIDs it had    *)
(* recorded, and a collector bound to this run watched the guard start and    *)
(* end and found logs, workspace and credentials as they should be.           *)
THEOREM PassIsEarned ==
    ASSUME NEW l \in Ledgers, NEW in \in Inputs, BuildReceipt(l, in).verdict = "pass"
    PROVE  /\ Accepted(l, in.evidence) /\ ~Failing(in.evidence.coverage)
           /\ LogArchived(in) /\ ResourcesAbsent(l) /\ Disposed(l)
           /\ ValidateObservations(l, in.observations)
           /\ LET c == in.observations.collector
              IN  /\ c.present /\ c.bound /\ c.started /\ c.terminated /\ c.agrees
                  /\ \A k \in Inspected : c.findings[k] = "verified"
<1> DEFINE c == in.observations.collector
<1>1. Verdict(Reported(l, in)) = "pass"
  BY DEF BuildReceipt
<1>2. \A k \in Components : Reported(l, in)[k] = Trusted("verified")
  BY <1>1, PassMeansTrusted
<1>3. \A k \in Components :
         /\ ValidateObservations(l, in.observations)
         /\ Derived(l, c)[k] = Trusted("verified")
         /\ k = "logs" => LogArchived(in)
         /\ k = "workspace" => Accepted(l, in.evidence)
  BY <1>2, TrustedOrigin
<1>4. /\ Accepted(l, in.evidence) /\ LogArchived(in)
      /\ ValidateObservations(l, in.observations)
  BY <1>3 DEF Components
<1>5. Trusted("verified") # Unobserved /\ Trusted("verified") # Trusted("unobservable")
  BY DEF Trusted, Unobserved
<1>6. ResourcesAbsent(l)
  <2>1. Derived(l, c)["resources"] = Trusted("verified")
    BY <1>3 DEF Components
  <2>2. Derived(l, c)["resources"] =
          IF ResourcesAbsent(l) THEN Trusted("verified") ELSE Unobserved
    BY DEF Derived, Components, Inspected
  <2> QED
    BY <2>1, <2>2, <1>5
<1>7. Disposed(l)
  <2>1. Derived(l, c)["runner_disposal"] = Trusted("verified")
    BY <1>3 DEF Components
  <2>2. Derived(l, c)["runner_disposal"] =
          IF Disposed(l) THEN Trusted("verified") ELSE Unobserved
    BY DEF Derived, Components, Inspected
  <2> QED
    BY <2>1, <2>2, <1>5
<1>8. \A k \in Inspected : Found(l, c, k) = Trusted("verified")
  <2>1. \A k \in Inspected : k \in Components /\ Derived(l, c)[k] = Found(l, c, k)
    BY DEF Derived, Components, Inspected
  <2> QED
    BY <2>1, <1>3
<1>9. c.present
  BY <1>8, <1>5 DEF Found, Inspected
<1>10. \A k \in Inspected : c.findings[k] = "verified"
  <2>1. \A k \in Inspected : Trusted(c.findings[k]) = Trusted("verified")
    BY <1>7, <1>8, <1>9 DEF Found
  <2>2. \A s : Trusted(s).status = s
    BY DEF Trusted
  <2> QED
    BY <2>1, <2>2
<1>11. c.bound /\ c.started /\ c.terminated /\ c.agrees
  BY <1>4, <1>9, <1>10 DEF ValidateObservations, Derivable, ValidResult, Inspected
<1>12. ~Failing(in.evidence.coverage)
  <2> SUFFICES ASSUME NEW k \in Components, in.evidence.coverage[k].status = "failed"
               PROVE  FALSE
    BY DEF Failing
  <2>1. Claimed(l, in)[k].status = "failed"
    BY <1>4 DEF Claimed
  <2>2. Merged(l, in)[k] = Claimed(l, in)[k]
    BY <2>1 DEF Merged
  <2>3. Reported(l, in)[k].status = "failed"
    BY <2>1, <2>2 DEF Reported
  <2> QED
    BY <2>3, <1>2 DEF Trusted
<1> QED
  BY <1>4, <1>6, <1>7, <1>9, <1>10, <1>11, <1>12

(* No failure is lost: one that the job admits in accepted evidence and one   *)
(* that the collector found both make the verdict "fail", whatever the other  *)
(* observer says and whatever file is missing.                                *)
THEOREM FailureShows ==
    ASSUME NEW l \in Ledgers, NEW in \in Inputs,
           \/ Accepted(l, in.evidence) /\ Failing(in.evidence.coverage)
           \/ /\ ValidateObservations(l, in.observations)
              /\ Failing(Derived(l, in.observations.collector))
    PROVE  BuildReceipt(l, in).verdict = "fail"
<1> DEFINE seen == Derived(l, in.observations.collector)
<1>1. SUFFICES Failing(Reported(l, in))
  BY DEF BuildReceipt, Verdict
<1>2. \A k \in Components : Merged(l, in)[k].status = "failed" => Failing(Reported(l, in))
  BY DEF Reported, Failing
<1>3. CASE Accepted(l, in.evidence) /\ Failing(in.evidence.coverage)
  <2>1. PICK k \in Components : in.evidence.coverage[k].status = "failed"
    BY <1>3 DEF Failing
  <2>2. Claimed(l, in)[k].status = "failed"
    BY <1>3, <2>1 DEF Claimed
  <2>3. Merged(l, in)[k].status = "failed"
    BY <2>2 DEF Merged
  <2> QED
    BY <2>3, <1>2
<1>4. CASE ValidateObservations(l, in.observations) /\ Failing(seen)
  <2>1. PICK k \in Components : seen[k].status = "failed"
    BY <1>4 DEF Failing
  <2>2. seen[k].observer = "trusted"
    <3>1. in.observations.collector \in Collectors
      BY DEF Inputs
    <3>2. Unobserved.status # "failed"
      BY DEF Unobserved
    <3> QED
      BY <2>1, <3>1, <3>2, DerivedType
  <2>3. Merged(l, in)[k].status = "failed"
    BY <1>4, <2>1, <2>2 DEF Merged
  <2> QED
    BY <2>3, <1>2
<1> QED
  BY <1>3, <1>4

----------------------------------------------------------------------------
(* The finalizer's and the readers' checks agree *)

(* Verified logs are always archived, whoever verified them.                  *)
LEMMA VerifiedLogsArchived ==
    ASSUME NEW l \in Ledgers, NEW in \in Inputs,
           Reported(l, in)["logs"].status = "verified"
    PROVE  in.log.present
<1>1. "logs" \in Components
  BY DEF Components
<1>2. Unobserved.status # "verified"
  BY DEF Unobserved
<1> QED
  BY <1>1, <1>2 DEF Reported, LogArchived

(* Whatever the coordinator left behind, the receipt built from it passes     *)
(* Receipt.Validate: the finalizer never exhausts its attempts on a receipt   *)
(* that it cannot publish.                                                    *)
THEOREM BuiltReceiptIsValid ==
    ASSUME NEW l \in Ledgers, NEW in \in Inputs
    PROVE  Validate(BuildReceipt(l, in))
<1> DEFINE r == BuildReceipt(l, in)
<1>1. /\ r.evidence = EvidenceStatus(l, in.evidence)
      /\ r.coverage = Reported(l, in) /\ r.objects = Archived(in)
      /\ r.log = in.log.present /\ r.known = l.known
      /\ r.verdict = Verdict(r.coverage)
  BY DEF BuildReceipt
<1> HIDE DEF r
<1>2. r.evidence \in {"accepted-untrusted", "missing", "invalid"}
  BY <1>1 DEF EvidenceStatus
<1>3. ValidateCoverage(r.coverage)
  BY <1>1, ReportedType
<1>4. /\ "run.json" \in r.objects
      /\ r.objects \subseteq {"run.json", "observations.json", "cleanup-evidence.json"}
  BY <1>1 DEF Archived
<1>5. r.evidence = "accepted-untrusted" => "cleanup-evidence.json" \in r.objects
  <2> SUFFICES ASSUME r.evidence = "accepted-untrusted" PROVE in.evidence.present
    BY <1>1 DEF Archived
  <2>1. Accepted(l, in.evidence)
    BY <1>1 DEF EvidenceStatus
  <2> QED
    BY <2>1 DEF Accepted
<1>6. r.coverage["logs"].status = "verified" => r.log
  BY <1>1, VerifiedLogsArchived
<1>7. ASSUME r.verdict = "pass"
      PROVE  /\ r.evidence = "accepted-untrusted" /\ r.log
             /\ {"cluster", "resource", "runner", "job", "pod"} \subseteq r.known
             /\ "observations.json" \in r.objects
  <2>1. /\ Accepted(l, in.evidence) /\ LogArchived(in) /\ ResourcesAbsent(l)
        /\ Disposed(l) /\ ValidateObservations(l, in.observations)
    BY <1>7, PassIsEarned DEF r
  <2>2. r.evidence = "accepted-untrusted"
    BY <1>1, <2>1 DEF EvidenceStatus
  <2>3. {"cluster", "resource", "runner", "job", "pod"} \subseteq r.known
    BY <1>1, <2>1 DEF ResourcesAbsent, Disposed
  <2>4. r.log /\ "observations.json" \in r.objects
    BY <1>1, <2>1 DEF LogArchived, ValidateObservations, Archived
  <2> QED
    BY <2>2, <2>3, <2>4
<1>8. Validate(r)
  BY <1>1, <1>2, <1>3, <1>4, <1>5, <1>6, <1>7 DEF Validate
<1> QED
  BY <1>8 DEF r

(* A reader of the archive always agrees: although the archive does not hold  *)
(* the finalizer's notes on unreadable files, rebuilding the receipt from the *)
(* archived ones gives the receipt that was signed.                           *)
THEOREM ArchiveAgrees ==
    ASSUME NEW l \in Ledgers, NEW in \in Inputs
    PROVE  ValidateArchived(l, in, BuildReceipt(l, in))
<1> DEFINE r == BuildReceipt(l, in)
           noted == ~in.evidence.present /\ r.evidence = "invalid"
           other == [in EXCEPT !.evidence.unreadable = noted]
<1>1. /\ r.objects = Archived(in) /\ r.log = in.log.present
      /\ r.evidence = EvidenceStatus(l, in.evidence)
  BY DEF BuildReceipt
<1>2. /\ other.observations = in.observations /\ other.log = in.log
      /\ other.evidence = [in.evidence EXCEPT !.unreadable = noted]
  BY DEF Inputs
<1>3. /\ other.evidence.present = in.evidence.present
      /\ other.evidence.same = in.evidence.same /\ other.evidence.bound = in.evidence.bound
      /\ other.evidence.verdict = in.evidence.verdict
      /\ other.evidence.coverage = in.evidence.coverage
      /\ other.evidence.unreadable = noted
  BY <1>2 DEF Inputs
<1>4. other \in Inputs
  BY DEF Inputs
<1>5. Rebuilt(l, in, r) = BuildReceipt(l, other)
  BY DEF Rebuilt
<1> HIDE DEF other, r
<1>6. Accepted(l, other.evidence) = Accepted(l, in.evidence)
  BY <1>3 DEF Accepted, ValidateEvidence
<1>7. EvidenceStatus(l, other.evidence) = EvidenceStatus(l, in.evidence)
  BY <1>1, <1>3, <1>6 DEF EvidenceStatus
<1>8. Claimed(l, other) = Claimed(l, in)
  BY <1>3, <1>6 DEF Claimed
<1>9. Merged(l, other) = Merged(l, in)
  BY <1>2, <1>8 DEF Merged
<1>10. Reported(l, other) = Reported(l, in)
  BY <1>2, <1>6, <1>9 DEF Reported, LogArchived
<1>11. Archived(other) = Archived(in)
  BY <1>2, <1>3 DEF Archived
<1>12. BuildReceipt(l, other) = r
  BY <1>2, <1>7, <1>10, <1>11 DEF BuildReceipt, r
<1>13. Validate(Rebuilt(l, in, r))
  BY <1>4, <1>5, BuiltReceiptIsValid
<1> QED
  BY <1>1, <1>5, <1>12, <1>13 DEF ValidateArchived, r
=============================================================================
