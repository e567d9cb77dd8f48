---------------------------- MODULE ReceiptStore ----------------------------
(***************************************************************************)
(* What the evidence API promises about one job identity: at most one       *)
(* receipt is ever stored, it is one that verified, and receipt and incident *)
(* appear together, once and for all.                                       *)
(***************************************************************************)
CONSTANTS
    Valid,     \* results that verify
    Failing    \* results whose verdict is not "pass"

VARIABLE rows  \* committed receipts, each with or without an incident

Init == rows = {}

Commit(r) ==
    /\ rows = {}
    /\ rows' = {[result |-> r, incident |-> r \in Failing]}

Next == \E r \in Valid : Commit(r)

Spec == Init /\ [][Next]_rows
=============================================================================
