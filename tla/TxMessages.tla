----------------------------- MODULE TxMessages -----------------------------
(***************************************************************************)
(* The messages of the transaction protocol (src/src/tx/msg).              *)
(*                                                                         *)
(* A message is a record: the envelope (type, source, destination) with    *)
(* the fields of its payload beside it.  Of the ids the Generator stamps   *)
(* on messages only those of MSG_PUT are ever read (a MSG_PUT_REPLY quotes *)
(* the id of the put it answers), so only MSG_PUT carries msg_id.          *)
(***************************************************************************)
EXTENDS Integers, Sequences

CONSTANTS
    Server,     \* ActorID of the one server the Discovery knows
    Clients,    \* ActorIDs of the clients
    TxIDs,      \* ids Generator::get_next_tx_id() hands out
    MsgIDs,     \* ids Generator::get_next_msg_id() hands out
    Keys,
    Values

\* The undefined values of types.h.
UNDEFINED_TX_ID == -1
UNDEFINED_TS == -1

ASSUME UndefinedTxIsNoTx == UNDEFINED_TX_ID \notin TxIDs

Timestamps == Nat \union {UNDEFINED_TS}

-----------------------------------------------------------------------------
(* The constructors, one per CreateMsg* function, and the Message{} of the *)
(* default constructor, for which get_txid_from_msg_payload has no txid.   *)

MsgUndefined(source, destination) ==
    [type |-> "MSG_UNDEFINED", source |-> source, destination |-> destination,
     txid |-> UNDEFINED_TX_ID]

MsgStart(source, destination, txid) ==
    [type |-> "MSG_START", source |-> source, destination |-> destination,
     txid |-> txid]

MsgStartAck(source, destination, txid, read_ts) ==
    [type |-> "MSG_START_ACK", source |-> source, destination |-> destination,
     txid |-> txid, read_ts |-> read_ts]

MsgPut(source, destination, txid, key, value, msg_id) ==
    [type |-> "MSG_PUT", source |-> source, destination |-> destination,
     txid |-> txid, key |-> key, value |-> value, msg_id |-> msg_id]

MsgPutReply(source, destination, txid, msg_id) ==
    [type |-> "MSG_PUT_REPLY", source |-> source, destination |-> destination,
     txid |-> txid, msg_id |-> msg_id]

MsgCommit(source, destination, txid) ==
    [type |-> "MSG_COMMIT", source |-> source, destination |-> destination,
     txid |-> txid]

MsgCommitAck(source, destination, txid, commit_ts) ==
    [type |-> "MSG_COMMIT_ACK", source |-> source, destination |-> destination,
     txid |-> txid, commit_ts |-> commit_ts]

MsgRolledBackByServer(source, destination, txid, conflict_txid) ==
    [type |-> "MSG_ROLLED_BACK_BY_SERVER", source |-> source,
     destination |-> destination, txid |-> txid,
     conflict_txid |-> conflict_txid]

-----------------------------------------------------------------------------
(* What the server may be sent, and what it may answer. *)

Requests ==
    {MsgUndefined(c, Server) : c \in Clients}
    \union
    [type : {"MSG_START", "MSG_COMMIT"}, source : Clients,
     destination : {Server}, txid : TxIDs]
    \union
    [type : {"MSG_PUT"}, source : Clients, destination : {Server},
     txid : TxIDs, key : Keys, value : Values, msg_id : MsgIDs]

Replies ==
    [type : {"MSG_START_ACK"}, source : {Server}, destination : Clients,
     txid : TxIDs, read_ts : Nat]
    \union
    [type : {"MSG_PUT_REPLY"}, source : {Server}, destination : Clients,
     txid : TxIDs, msg_id : MsgIDs]
    \union
    [type : {"MSG_COMMIT_ACK"}, source : {Server}, destination : Clients,
     txid : TxIDs, commit_ts : Nat]
    \union
    [type : {"MSG_ROLLED_BACK_BY_SERVER"}, source : {Server},
     destination : Clients, txid : TxIDs, conflict_txid : TxIDs]
=============================================================================
