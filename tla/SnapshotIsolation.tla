-------------------------- MODULE SnapshotIsolation --------------------------
(***************************************************************************)
(* What the transaction server promises, without clock, timestamps,        *)
(* versions or messages: write-write snapshot isolation with the first     *)
(* committer winning.  A transaction sees the transactions committed when  *)
(* it began; it commits exactly if no other transaction that wrote one of  *)
(* its keys has committed since, and then becomes the last writer of all   *)
(* of its keys at once; otherwise it is rolled back and leaves no trace.   *)
(***************************************************************************)
CONSTANTS TxIDs, Keys, NoTx

VARIABLES
    status,     \* of each transaction: idle, active, committed, aborted
    seen,       \* the transactions in its snapshot
    writes,     \* the keys it has put
    latest      \* of each key: the committed transaction that wrote it last

vars == <<status, seen, writes, latest>>

Committed == {x \in TxIDs : status[x] = "committed"}

\* The transactions x has not seen that wrote one of its keys.
Rivals(x) == {y \in Committed \ seen[x] : writes[y] \intersect writes[x] # {}}

Init ==
    /\ status = [x \in TxIDs |-> "idle"]
    /\ seen = [x \in TxIDs |-> {}]
    /\ writes = [x \in TxIDs |-> {}]
    /\ latest = [k \in Keys |-> NoTx]

Begin(x) ==
    /\ status[x] = "idle"
    /\ status' = [status EXCEPT ![x] = "active"]
    /\ seen' = [seen EXCEPT ![x] = Committed]
    /\ UNCHANGED <<writes, latest>>

Write(x, k) ==
    /\ status[x] = "active"
    /\ writes' = [writes EXCEPT ![x] = @ \union {k}]
    /\ UNCHANGED <<status, seen, latest>>

Commit(x) ==
    /\ status[x] = "active"
    /\ Rivals(x) = {}
    /\ status' = [status EXCEPT ![x] = "committed"]
    /\ latest' = [k \in Keys |-> IF k \in writes[x] THEN x ELSE latest[k]]
    /\ UNCHANGED <<seen, writes>>

Abort(x) ==
    /\ status[x] = "active"
    /\ Rivals(x) # {}
    /\ status' = [status EXCEPT ![x] = "aborted"]
    /\ UNCHANGED <<seen, writes, latest>>

Next == \E x \in TxIDs :
    \/ Begin(x)
    \/ \E k \in Keys : Write(x, k)
    \/ Commit(x)
    \/ Abort(x)

Spec == Init /\ [][Next]_vars
=============================================================================
