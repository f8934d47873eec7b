----------------------------- MODULE MCTxServer -----------------------------
(***************************************************************************)
(* TxServer alone for TLC: on_tick is called with every batch of at most   *)
(* MaxBatch requests, legal for a client or not.                           *)
(***************************************************************************)
EXTENDS TxServer, TLC

CONSTANTS
    MaxBatch,   \* messages on_tick gets at once
    MaxClock,   \* timestamps
    MaxPuts     \* puts of one transaction

MCBatches == UNION {[1..n -> Requests] : n \in 1..MaxBatch}

Bounds ==
    /\ clock <= MaxClock
    /\ \A x \in TxIDs : Len(transactions[x].puts) <= MaxPuts

Symmetry == Permutations(TxIDs) \union Permutations(Keys)
=============================================================================
