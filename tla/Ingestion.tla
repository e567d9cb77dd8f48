----------------------------- MODULE Ingestion -----------------------------
(***************************************************************************)
(* What the delivery of one result promises to those who run it and read    *)
(* its queue: a receipt in the evidence store stays there, "complete" means  *)
(* that this receipt is there, once and for all, and an exhausted queue      *)
(* starts no further attempt.  Only a receipt, which may still arrive late,  *)
(* ends exhaustion.                                                         *)
(***************************************************************************)
VARIABLES
    complete,   \* the queue's status is "complete"
    exhausted,  \* the queue's status is "exhausted"
    receipt     \* the store has the receipt of this result

Init == ~complete /\ ~exhausted /\ ~receipt

Next ==
    /\ complete' \in BOOLEAN /\ exhausted' \in BOOLEAN /\ receipt' \in BOOLEAN
    /\ receipt => receipt'
    /\ complete' => receipt'
    /\ complete => complete'
    /\ exhausted => exhausted' \/ receipt'

Spec == Init /\ [][Next]_<<complete, exhausted, receipt>>
=============================================================================
