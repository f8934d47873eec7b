----------------------------- MODULE MCTxClient -----------------------------
(***************************************************************************)
(* TxClient alone for TLC: the clients are answered anything at any time,  *)
(* at most MaxBatch messages per on_tick.                                  *)
(***************************************************************************)
EXTENDS TxClient

CONSTANTS
    k1, k2, v1,
    other,      \* another server
    MaxBatch,   \* messages on_tick gets at once
    MaxClock    \* timestamps

\* One client with two transactions.
MCTxsOf == [c \in Clients |-> <<"a", "b">>]
MCClientTxs == {"a", "b"}

\* One server, none, or two.
MCDiscoveries == {<<Server>>, <<>>, <<Server, other>>}

PutAt(earliest_ts, key) == [earliest_ts |-> earliest_ts, key |-> key, value |-> v1]

\* One put, or two of which the second has to wait; commit at once or later.
MCTxSpecs ==
    {[earliest_start_ts |-> start, earliest_commit_ts |-> commit,
      puts |-> puts, action |-> "COMMIT"] :
        start \in {0, 3}, commit \in {0, 9},
        puts \in {<<PutAt(0, k1)>>, <<PutAt(0, k1), PutAt(6, k2)>>}}

Answers ==
    [type : {"MSG_START_ACK"}, source : {Server}, destination : Clients,
     txid : TxIDs, read_ts : {1}]
    \union
    [type : {"MSG_PUT_REPLY"}, source : {Server}, destination : Clients,
     txid : TxIDs, msg_id : MsgIDs]
    \union
    [type : {"MSG_COMMIT_ACK"}, source : {Server}, destination : Clients,
     txid : TxIDs, commit_ts : {2}]
    \union
    [type : {"MSG_ROLLED_BACK_BY_SERVER"}, source : {Server},
     destination : Clients, txid : TxIDs, conflict_txid : {2}]

MCReplyBatches == UNION {[1..n -> Answers] : n \in 0..MaxBatch}

Bounds == clock <= MaxClock
=============================================================================
