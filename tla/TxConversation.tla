--------------------------- MODULE TxConversation ---------------------------
(***************************************************************************)
(* What holds between the actors of TxSystem at every step: the invariant  *)
(* behind its properties.                                                  *)
(*                                                                         *)
(* Client and server of a transaction hold one conversation.  Its requests *)
(* are numbered: MSG_START is 1, the puts follow in the order of the spec, *)
(* MSG_COMMIT is the last; each has one reply of the same number.  Three   *)
(* numbers, which the states of the two sides determine, say how far it    *)
(* has come: what the client has Sent, what the server has Handled, and    *)
(* the answers the client has Taken.  Whatever the order in which actors   *)
(* are called and transactions are ticked, there are at most two requests  *)
(* and two replies on their way, one ready in this tick and one for the    *)
(* next, and they are the ones the other side is waiting for.              *)
(***************************************************************************)
EXTENDS TxSystem

Elements(seq) == {seq[i] : i \in DOMAIN seq}

\* What was sent in the last tick and not yet handed over, and what has been
\* sent in this one.
Incoming == Run!InInboxes \union (IF phase = "deliver" THEN Run!InQueue ELSE {})
Outgoing == IF phase = "deliver" THEN {} ELSE Run!InQueue

\* The client that holds t.
ClientOf(t) == CHOOSE c \in Clients : t \in Elements(TxsOf[c])

\* The client whose on_tick is running will tick t yet.
Unticked(t) ==
    /\ on_tick_of \in Clients
    /\ \E k \in DOMAIN TxsOf[on_tick_of] : k >= next_tx /\ TxsOf[on_tick_of][k] = t

-----------------------------------------------------------------------------
(* The messages of transaction t that are on their way, ready to be read   *)
(* in this tick or sent to be read in the next.                            *)

\* The requests, and the replies, of t among some messages.
RequestsOf(t, msgs) ==
    {m \in msgs : m.txid = client_transactions[t].txid /\ m.destination = Server}
RepliesOf(t, msgs) ==
    {m \in msgs : m.txid = client_transactions[t].txid /\ m.destination # Server}

ReadyRequests(t) == RequestsOf(t, Incoming \union {batch[i] : i \in todo})
SentRequests(t) == RequestsOf(t, Outgoing \union Elements(outbox))
ReadyReplies(t) ==
    RepliesOf(t, Incoming \union (IF Unticked(t) THEN Elements(received) ELSE {}))
SentReplies(t) == RepliesOf(t, Outgoing \union Elements(scheduled))

-----------------------------------------------------------------------------
(* How far the conversation has come. *)

Sent(t) ==
    LET tx == client_transactions[t]
    IN  CASE tx.state = "NOT_STARTED" -> 0
          [] tx.state = "START_SENT"  -> 1
          [] tx.state = "OPEN"        -> Len(tx.requests) + 1
          [] OTHER                    -> Len(tx.requests) + 2

Handled(t) ==
    IF ~Known(t) \/ ServerTx(t).state = "NOT_STARTED" THEN 0
    ELSE IF ServerTx(t).state = "OPEN" THEN Len(ServerTx(t).puts) + 1
    ELSE Len(ServerTx(t).puts) + 2

Taken(t) ==
    LET tx == client_transactions[t]
    IN  CASE tx.state \in {"NOT_STARTED", "START_SENT"} -> 0
          [] tx.state \in {"OPEN", "COMMIT_SENT"}       -> tx.completed_puts + 1
          [] OTHER                                      -> tx.completed_puts + 2

\* Request number n of t.
Request(t, n) ==
    LET tx == client_transactions[t]
        c  == ClientOf(t)
    IN  IF n = 1 THEN MsgStart(c, Server, tx.txid)
        ELSE IF n - 1 \in DOMAIN tx.requests
        THEN MsgPut(c, Server, tx.txid, tx.requests[n - 1].key, tx.requests[n - 1].value,
                    tx.requests[n - 1].msg_id)
        ELSE MsgCommit(c, Server, tx.txid)

\* m answers request number n of t, and what it says is so.
IsReply(t, n, m) ==
    LET tx == client_transactions[t]
        c  == ClientOf(t)
    IN  IF n = 1 THEN m = MsgStartAck(Server, c, tx.txid, ServerTx(t).read_ts)
        ELSE IF n - 1 \in DOMAIN tx.requests
        THEN m = MsgPutReply(Server, c, tx.txid, tx.requests[n - 1].msg_id)
        ELSE \/ /\ ServerTx(t).state = "COMMITTED"
                /\ m = MsgCommitAck(Server, c, tx.txid, ServerTx(t).commit_ts)
             \/ /\ ServerTx(t).state = "ROLLED_BACK_BY_SERVER"
                /\ \E x \in Srv!Committed : m = MsgRolledBackByServer(Server, c, tx.txid, x)

Count(msgs) == IF msgs = {} THEN 0 ELSE 1

\* The requests on their way are those the server has not handled yet, the
\* next one first.
RequestsInOrder(t) ==
    /\ \A m \in ReadyRequests(t) : m = Request(t, Handled(t) + 1)
    /\ \A m \in SentRequests(t) : m = Request(t, Sent(t))
    /\ Sent(t) = Handled(t) + Count(ReadyRequests(t)) + Count(SentRequests(t))

\* The replies on their way are those the client has not taken yet, the next
\* one first; and what is still to be handled in this tick is not answered.
RepliesInOrder(t) ==
    /\ \A m \in ReadyReplies(t) : IsReply(t, Taken(t) + 1, m)
    /\ \A m \in SentReplies(t) : IsReply(t, Handled(t), m)
    /\ \A m, o \in ReadyReplies(t) : m = o
    /\ \A m, o \in SentReplies(t) : m = o
    /\ Handled(t) = Taken(t) + Count(ReadyReplies(t)) + Count(SentReplies(t))
    /\ ReadyRequests(t) # {} => SentReplies(t) = {}

-----------------------------------------------------------------------------
(* What the two sides hold. *)

\* The server holds the first of the client's puts, and the client has
\* completed the first of those.
SamePuts(t) ==
    LET tx == client_transactions[t]
    IN  /\ \A i \in DOMAIN tx.requests :
             tx.requests[i].status = "REQUEST_COMPLETED" <=> i <= tx.completed_puts
        /\ Known(t) =>
             /\ Len(ServerTx(t).puts) <= Len(tx.requests)
             /\ \A i \in DOMAIN ServerTx(t).puts :
                  ServerTx(t).puts[i]
                    = [key |-> tx.requests[i].key, value |-> tx.requests[i].value]

\* The server decides on request only, and what the client knows of a verdict
\* is what the server has decided.
SameVerdict(t) ==
    LET tx == client_transactions[t]
    IN  /\ tx.state \in {"COMMIT_SENT"} \union Cli!Ended => tx.spec.action = "COMMIT"
        /\ Known(t) /\ ServerTx(t).state \in {"COMMITTED", "ROLLED_BACK_BY_SERVER"} =>
             /\ tx.state \in {"COMMIT_SENT"} \union Cli!Ended
             /\ Len(ServerTx(t).puts) = Len(tx.requests)
        /\ tx.read_ts = IF tx.state \in {"NOT_STARTED", "START_SENT"} THEN UNDEFINED_TS
                        ELSE ServerTx(t).read_ts
        /\ tx.state = "COMMITTED" => ServerTx(t).state = "COMMITTED"
        /\ tx.commit_ts = IF tx.state = "COMMITTED" THEN ServerTx(t).commit_ts
                          ELSE UNDEFINED_TS
        /\ tx.state # "ROLLED_BACK_BY_SERVER" => tx.conflict_txid = UNDEFINED_TX_ID
        /\ tx.state = "ROLLED_BACK_BY_SERVER" =>
             /\ ServerTx(t).state = "ROLLED_BACK_BY_SERVER"
             /\ tx.conflict_txid \in Srv!Committed

Conversation(t) ==
    /\ RequestsInOrder(t)
    /\ RepliesInOrder(t)
    /\ SamePuts(t)
    /\ SameVerdict(t)

\* Every transaction holds its conversation.
Conversations == \A t \in ClientTxs : Conversation(t)

-----------------------------------------------------------------------------
(* Whose turn it is. *)

InFlight ==
    Incoming \union Outgoing \union {batch[i] : i \in todo} \union Elements(scheduled)
    \union Elements(outbox) \union Elements(received)

\* Nobody speaks but transactions that have started, and the server knows of
\* no others.
NoStrangers ==
    /\ \A m \in InFlight : \E t \in ClientTxs : Known(t) /\ m.txid = client_transactions[t].txid
    /\ \A x \in TxIDs : transactions[x].state # "NOT_STARTED"
         => \E t \in ClientTxs : client_transactions[t].txid = x

\* The actor whose on_tick is running is the one whose turn it is.
OneRuns ==
    /\ active <=> phase = "on_tick" /\ actors[turn] = Server
    /\ \A c \in Clients : on_tick_of = c <=> phase = "on_tick" /\ actors[turn] = c
    /\ ~active => batch = <<>> /\ todo = {} /\ scheduled = <<>>
    /\ on_tick_of = Cli!NoClient => received = <<>> /\ outbox = <<>>
    /\ NoFailure
    /\ discovery = <<Server>>

\* The actors that have still to return from on_tick in this tick have sent
\* nothing yet.
SilentBefore ==
    phase \in {"call", "on_tick"} =>
        \A k \in DOMAIN actors : k >= turn => \A m \in Outgoing : m.source # actors[k]

\* The server is to handle one message of a transaction, and sends one.
OneMessageEach ==
    /\ \A i, j \in todo : batch[i].txid = batch[j].txid => i = j
    /\ \A i, j \in DOMAIN scheduled : scheduled[i].txid = scheduled[j].txid => i = j

=============================================================================
