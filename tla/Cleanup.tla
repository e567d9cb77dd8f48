------------------------------- MODULE Cleanup -------------------------------
(***************************************************************************)
(* proofctl and the part of the cluster it cleans: one job namespace, its   *)
(* claims and the volumes provisioned for them.  Every proofctl command is  *)
(* a process that locks the context file, loads it, works on its copy and   *)
(* saves it at the end, so that a killed process loses what it recorded.    *)
(* Claims stand for every namespaced kind, which Inventory lists alike.     *)
(***************************************************************************)
EXTENDS Naturals

CONSTANTS
    MaxClaims,    \* claims the job may create, each a UID of its own
    Names,        \* names among which these claims are distributed
    Procs,        \* proofctl processes that may be alive at the same time
    MaxTroubles   \* failing calls, kills and interventions from outside

ASSUME CleanupAssumption ==
    /\ MaxClaims \in Nat /\ Names \in Nat \ {0} /\ MaxTroubles \in Nat
    /\ Procs # {} /\ "none" \notin Procs

Claims == 1..MaxClaims
Name(c) == c % Names
Components == {"workspace", "credentials", "resources"}

\* the recorded state of NewState; a volume is named after the claim it serves
Fresh == [claims |-> {}, volumes |-> {}, complete |-> FALSE, attempts |-> 0,
          coverage |-> [k \in Components |-> "unobservable"]]
Absent == [kind |-> "absent", state |-> Fresh]
Reserved == [kind |-> "reserved", state |-> Fresh]
Off == [cmd |-> "none", pc |-> "off", mem |-> Fresh, found |-> {},
        again |-> FALSE, absent |-> FALSE, ok |-> TRUE]

VARIABLES
    scoped,      \* the namespace was assigned by the coordinator
    namespace,   \* "none", "left", "active", "terminating" or "gone"
    claims,      \* "never", "live" or "gone"
    volumes,     \* "none", "labelled", "unlabelled" or "gone"
    context,     \* the file at --state
    lock,        \* the process that holds the flock next to it
    procs,       \* the proofctl processes
    troubles     \* failing calls, kills and interventions so far

cleanupVars == <<scoped, namespace, claims, volumes, context, lock, procs, troubles>>
cluster == <<scoped, namespace, claims, volumes>>

State == [claims : SUBSET Claims, volumes : SUBSET Claims, complete : BOOLEAN,
          attempts : Nat,
          coverage : [Components -> {"unobservable", "verified", "failed"}]]

CleanupTypeOK ==
    /\ scoped \in BOOLEAN
    /\ namespace \in {"none", "left", "active", "terminating", "gone"}
    /\ claims \in [Claims -> {"never", "live", "gone"}]
    /\ volumes \in [Claims -> {"none", "labelled", "unlabelled", "gone"}]
    /\ context \in [kind : {"absent", "reserved", "saved"}, state : State]
    /\ lock \in Procs \cup {"none"}
    /\ procs \in [Procs ->
         [cmd : {"none", "begin", "inventory", "cleanup", "receipt"},
          pc : {"off", "start", "begin", "wipe", "list", "volumes", "delete",
                "remove", "check", "verify", "save", "exit", "dying"},
          mem : State, found : SUBSET Claims, again : BOOLEAN, absent : BOOLEAN,
          ok : BOOLEAN]]
    /\ troubles \in 0..MaxTroubles

CleanupInit ==
    /\ scoped \in BOOLEAN
    /\ namespace = IF scoped THEN "active" ELSE "none"
    /\ claims = [c \in Claims |-> "never"] /\ volumes = [c \in Claims |-> "none"]
    /\ context = Absent /\ lock = "none" /\ procs = [p \in Procs |-> Off]
    /\ troubles = 0

Trouble == troubles < MaxTroubles /\ troubles' = troubles + 1
\* the step may fail, at the price of one trouble
MayFail(fails) == IF fails THEN Trouble ELSE UNCHANGED troubles

LiveVolume(c) == volumes[c] \in {"labelled", "unlabelled"}
ResourcesGone == namespace = "gone" /\ \A c \in Claims : ~LiveVolume(c)

----------------------------------------------------------------------------
(* The cluster: the job's own calls, the provisioner, garbage collection *)

ClaimCreated(c) ==
    /\ namespace = "active" /\ claims[c] = "never"
    /\ \A d \in Claims : claims[d] = "live" => Name(d) # Name(c)
    /\ claims' = [claims EXCEPT ![c] = "live"]
    /\ UNCHANGED <<scoped, namespace, volumes, context, lock, procs, troubles>>

\* a volume appears while its claim exists; admission labels it, or did not run
Provisioned(c, kind) ==
    /\ claims[c] = "live" /\ volumes[c] = "none"
    /\ volumes' = [volumes EXCEPT ![c] = kind]
    /\ UNCHANGED <<scoped, namespace, claims, context, lock, procs, troubles>>

ClaimDeleted(c) ==
    /\ claims[c] = "live" /\ claims' = [claims EXCEPT ![c] = "gone"]
    /\ UNCHANGED <<scoped, namespace, volumes, context, lock, procs, troubles>>

NamespaceCollected ==
    /\ namespace = "terminating" /\ \A c \in Claims : claims[c] # "live"
    /\ namespace' = "gone"
    /\ UNCHANGED <<scoped, claims, volumes, context, lock, procs, troubles>>

\* the provisioner deletes a released volume, at once, late or never
Reclaimed(c) ==
    /\ LiveVolume(c) /\ claims[c] = "gone"
    /\ volumes' = [volumes EXCEPT ![c] = "gone"]
    /\ UNCHANGED <<scoped, namespace, claims, context, lock, procs, troubles>>

\* a deletion from elsewhere, or the late one of a process that was killed
DeletedElsewhere ==
    /\ namespace = "active" /\ Trouble /\ namespace' = "terminating"
    /\ UNCHANGED <<scoped, claims, volumes, context, lock, procs>>

ClusterStep ==
    \/ \E c \in Claims : ClaimDeleted(c) \/ Reclaimed(c)
                         \/ \E k \in {"labelled", "unlabelled"} : Provisioned(c, k)
    \/ NamespaceCollected \/ DeletedElsewhere

----------------------------------------------------------------------------
(* The commands: lock, load, work, save *)

Spawned(p, cmd) == procs' = [procs EXCEPT ![p] = [Off EXCEPT !.cmd = cmd, !.pc = "start"]]
Ended(p, ok, out) ==
    procs' = [procs EXCEPT ![p] = [Off EXCEPT !.pc = "exit", !.mem = out, !.ok = ok]]
Goes(p, pc) == procs' = [procs EXCEPT ![p].pc = pc]

\* the process cannot lock, load or connect: it changes nothing and exits 1
Refused(p) ==
    /\ procs[p].pc = "start"
    /\ \/ /\ \/ lock # "none"
             \/ procs[p].cmd = "begin" /\ context # Absent
             \/ procs[p].cmd # "begin" /\ context.kind # "saved"
          /\ UNCHANGED troubles
       \/ Trouble
    /\ Ended(p, FALSE, Fresh)
    /\ UNCHANGED <<cluster, context, lock>>

\* O_EXCL reserves the context path before anything is created
Reserves(p) ==
    /\ procs[p].pc = "start" /\ procs[p].cmd = "begin" /\ lock = "none"
    /\ context = Absent /\ context' = Reserved
    /\ lock' = p /\ Goes(p, "begin")
    /\ UNCHANGED <<cluster, troubles>>

LoadsUnlocked(p) ==
    /\ procs[p].pc = "start" /\ context.kind = "saved"
    /\ procs[p].cmd \in {"inventory", "cleanup"} /\ lock' = p
    /\ procs' = [procs EXCEPT ![p].mem = context.state,
         ![p].pc = IF procs[p].cmd = "inventory" THEN "list" ELSE "wipe"]
    /\ UNCHANGED <<cluster, context, troubles>>

Loads(p) ==
    /\ procs[p].pc = "start" /\ lock = "none" /\ context.kind = "saved"
    /\ procs[p].cmd \in {"inventory", "cleanup"} /\ lock' = p
    /\ procs' = [procs EXCEPT ![p].mem = context.state,
         ![p].pc = IF procs[p].cmd = "inventory" THEN "list" ELSE "wipe"]
    /\ UNCHANGED <<cluster, context, troubles>>

\* `receipt' prints the evidence of the loaded state and saves nothing
Receipt(p) ==
    /\ procs[p].pc = "start" /\ lock = "none" /\ context.kind = "saved"
    /\ procs[p].cmd = "receipt" /\ Ended(p, TRUE, context.state)
    /\ UNCHANGED <<cluster, context, lock, troubles>>

\* no namespace of this context yet; "left" is one whose create was applied although
\* its answer was lost: it stays behind under a name that nobody recorded
Unnamed == ~scoped /\ namespace \in {"none", "left"}

\* BeginAssigned only reads the assigned namespace; Begin creates a fresh one, and
\* what an earlier Begin has left is not followed any further
Begin(p) ==
    /\ procs[p].pc = "begin"
    /\ \/ scoped /\ namespace = "active"
       \/ Unnamed
    /\ namespace' = "active" /\ Goes(p, "save")
    /\ UNCHANGED <<scoped, claims, volumes, context, lock, troubles>>

BeginFails(p) ==
    /\ procs[p].pc = "begin"
    /\ MayFail(Unnamed \/ namespace = "active")
    /\ \/ UNCHANGED namespace
       \/ Unnamed /\ namespace' = "left"
    /\ context' = Absent /\ lock' = "none" /\ Ended(p, FALSE, Fresh)
    /\ UNCHANGED <<scoped, claims, volumes>>

\* a failing Save leaves the old file, or the new one when only the sync failed
Save(p) ==
    /\ procs[p].pc = "save" /\ lock' = "none"
    /\ \/ /\ context' = [kind |-> "saved", state |-> procs[p].mem]
          /\ \E fails \in BOOLEAN :
               MayFail(fails) /\ Ended(p, procs[p].ok /\ ~fails, Fresh)
       \/ Trouble /\ UNCHANGED context /\ Ended(p, FALSE, Fresh)
    /\ UNCHANGED cluster

----------------------------------------------------------------------------
(* Inventory, RemoveResources and Cleanup *)

\* a failure stays visible whatever a later attempt finds
Record(s, component, status) ==
    IF s.coverage[component] = "failed" THEN s
    ELSE [s EXCEPT !.coverage[component] = status]

Outcome(fails) == IF fails THEN "failed" ELSE "verified"

\* resources that could not be confirmed absent taint the credentials too
ResourcesRecorded(s, fails) ==
    LET recorded == Record(s, "resources", Outcome(fails))
    IN  IF fails THEN Record(recorded, "credentials", "failed") ELSE recorded

\* the resource part of `cleanup', or all of `inventory', is over
ResourcesEnd(p, fails, mem) ==
    procs' = [procs EXCEPT ![p] =
        [Off EXCEPT !.pc = "save", !.ok = procs[p].ok /\ ~fails,
            !.cmd = procs[p].cmd,
            !.mem = IF procs[p].cmd = "inventory" THEN mem
                    ELSE ResourcesRecorded(mem, fails)]]

Wipe(p) ==
    /\ procs[p].pc = "wipe"
    /\ \E failing \in {{}, {"workspace"}, {"credentials"}, {"workspace", "credentials"}} :
         /\ MayFail(failing # {})
         /\ LET counted == [procs[p].mem EXCEPT !.attempts = @ + 1]
                first == Record(counted, "workspace", Outcome("workspace" \in failing))
            IN  procs' = [procs EXCEPT ![p].pc = "list", ![p].ok = failing = {},
                    ![p].mem = Record(first, "credentials",
                                      Outcome("credentials" \in failing))]
    /\ UNCHANGED <<cluster, context, lock>>

\* an assigned job may no longer list its namespace once it is terminating
ListClaims(p) ==
    /\ procs[p].pc = "list"
    /\ LET listed == namespace = "active" \/ (namespace = "terminating" /\ ~scoped)
       IN  procs' = [procs EXCEPT ![p].pc = "volumes", ![p].mem.complete = FALSE,
               ![p].found = IF listed THEN {c \in Claims : claims[c] = "live"} ELSE {}]
    /\ UNCHANGED <<cluster, context, lock, troubles>>

\* a volume nobody labelled, a volume of an unrecorded claim, a replaced claim
Unsupported(recorded) ==
    \/ \E c \in Claims : \/ volumes[c] = "unlabelled"
                         \/ volumes[c] = "labelled" /\ c \notin recorded
    \/ \E c, d \in recorded : c # d /\ Name(c) = Name(d)

ListVolumes(p) ==
    /\ procs[p].pc = "volumes"
    /\ LET mem == procs[p].mem
           recorded == mem.claims \cup procs[p].found
           all == mem.volumes \cup {c \in Claims : volumes[c] = "labelled"}
           next == [mem EXCEPT !.claims = recorded, !.volumes = all, !.complete = TRUE]
       IN  CASE Unsupported(recorded) -> ResourcesEnd(p, TRUE, mem)
             [] OTHER ->
                  IF procs[p].cmd = "inventory" THEN ResourcesEnd(p, FALSE, next)
                  ELSE procs' = [procs EXCEPT ![p].mem = next, ![p].found = {},
                         ![p].pc = IF procs[p].again THEN "verify" ELSE "delete",
                         ![p].absent = procs[p].again /\ next.claims = mem.claims
                                       /\ next.volumes = mem.volumes]
    /\ UNCHANGED <<cluster, context, lock, troubles>>

\* Check, then delete the namespace by its UID
DeleteNamespace(p) ==
    /\ procs[p].pc = "delete" /\ Goes(p, "remove")
    /\ namespace' = IF namespace = "active" THEN "terminating" ELSE namespace
    /\ UNCHANGED <<scoped, claims, volumes, context, lock, troubles>>

\* deleteRef of the recorded volumes; one whose claim's name is in use is left alone
DeleteVolumes(p) ==
    /\ procs[p].pc = "remove" /\ Goes(p, "check")
    /\ LET claimed(c) == \E d \in Claims : claims[d] = "live" /\ Name(d) = Name(c)
       IN  volumes' = [c \in Claims |->
             IF ~scoped /\ c \in procs[p].mem.volumes /\ LiveVolume(c) /\ ~claimed(c)
             THEN "gone" ELSE volumes[c]]
    /\ UNCHANGED <<scoped, namespace, claims, context, lock, troubles>>

CheckNamespaceOnce(p) ==
    /\ procs[p].pc = "check"
    /\ procs' = [procs EXCEPT ![p].pc = "verify", ![p].absent = namespace = "gone"]
    /\ UNCHANGED <<cluster, context, lock, troubles>>

\* an absent namespace is inventoried once more: the record must not have grown
CheckNamespace(p) ==
    /\ procs[p].pc = "check"
    /\ procs' = [procs EXCEPT ![p].again = namespace = "gone", ![p].absent = FALSE,
                              ![p].pc = IF namespace = "gone" THEN "list" ELSE "verify"]
    /\ UNCHANGED <<cluster, context, lock, troubles>>

\* every recorded reference is looked up again, by name and UID
Verify(p) ==
    /\ procs[p].pc = "verify"
    /\ LET mem == procs[p].mem
           replaced == ~scoped /\ \E c \in mem.claims, d \in Claims :
                         c # d /\ claims[d] = "live" /\ Name(c) = Name(d)
           absent == /\ procs[p].absent /\ \A c \in mem.volumes : ~LiveVolume(c)
                     /\ scoped \/ \A c \in mem.claims : claims[c] # "live"
       IN  IF replaced \/ absent THEN ResourcesEnd(p, replaced, mem) ELSE Goes(p, "remove")
    /\ UNCHANGED <<cluster, context, lock, troubles>>

Calling(p) == procs[p].pc \in {"list", "volumes", "delete", "remove", "check", "verify"}

\* the call under way fails, by itself or because deadline or interrupt cancelled it
Deadline(p) ==
    /\ Calling(p)
    /\ ResourcesEnd(p, TRUE, [procs[p].mem EXCEPT !.complete = @ /\ procs[p].pc # "list"])
    /\ UNCHANGED <<cluster, context, lock, troubles>>

Command(p) ==
    \/ Refused(p) \/ Reserves(p) \/ Loads(p) \/ Receipt(p) \/ Begin(p)
    \/ BeginFails(p) \/ Save(p) \/ Wipe(p) \/ ListClaims(p) \/ ListVolumes(p)
    \/ DeleteNamespace(p) \/ DeleteVolumes(p) \/ CheckNamespace(p) \/ Verify(p)
    \/ Deadline(p)

\* a killed process keeps its lock until the kernel has reaped it
Killed(p) == procs' = [procs EXCEPT ![p] = [Off EXCEPT !.pc = "dying"]]

Reaped(p) ==
    /\ procs[p].pc = "dying" /\ procs' = [procs EXCEPT ![p] = Off]
    /\ lock' = IF lock = p THEN "none" ELSE lock
    /\ UNCHANGED <<cluster, context, troubles>>
=============================================================================
