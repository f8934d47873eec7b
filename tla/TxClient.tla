------------------------------ MODULE TxClient ------------------------------
(***************************************************************************)
(* The client actors: Client::on_tick, one ClientTx per TxSpec, its        *)
(* TxParticipant and RequestsManager, and the Generator of ids             *)
(* (src/src/tx/client, src/src/tx/generator, src/src/tx/discovery).        *)
(*                                                                         *)
(* on_tick ticks the transactions of the client one after the other, each  *)
(* with a fresh timestamp and with the messages received for it, and sends *)
(* what they scheduled.  Discovery finds a server only if it knows exactly *)
(* one, which is coordinator and only participant of every transaction, so *)
(* a ClientTx has at most one TxParticipant and its fields are kept in the *)
(* record of the ClientTx.                                                 *)
(***************************************************************************)
EXTENDS TxMessages, FiniteSetsExt

CONSTANTS
    ClientTxs,      \* the ClientTx objects of all clients
    TxsOf,          \* Client::transactions_ of each client, in their order
    TxSpecs,        \* the TxSpec a ClientTx may be constructed with
    Discoveries,    \* the actor_ids_ the Discovery may be constructed with
    ReplyBatches    \* what on_tick may be called with when nobody is modelled
                    \* but the clients: sequences of replies

Action == {"UNDEFINED", "COMMIT", "ROLLBACK"}
ClientTxPut == [earliest_ts : Timestamps, key : Keys, value : Values]

\* gets are left out: nothing reads them.
TxSpec == [earliest_start_ts : Timestamps, earliest_commit_ts : Timestamps,
           puts : Seq(ClientTxPut), action : Action]

\* Each ClientTx belongs to one client, which holds it once.
ASSUME TxsOfAssumption ==
    /\ TxsOf \in [Clients -> Seq(ClientTxs)]
    /\ \A c, d \in Clients : \A i \in DOMAIN TxsOf[c], j \in DOMAIN TxsOf[d] :
         TxsOf[c][i] = TxsOf[d][j] => c = d /\ i = j

ASSUME TxSpecsAssumption == TxSpecs \subseteq TxSpec
ASSUME ReplyBatchesAssumption == ReplyBatches \subseteq Seq(Replies)

VARIABLES
    clock,                  \* Clock::tm_
    discovery,              \* Discovery::actor_ids_
    client_transactions,    \* the ClientTx objects
    on_tick_of,             \* the client whose on_tick is running
    received,               \* the messages on_tick was called with
    next_tx,                \* the position of the next transaction to tick
    outbox,                 \* the messages on_tick has scheduled so far
    next_tx_id,             \* Generator: the last txid handed out
    next_msg_id,            \* Generator: the last msg_id handed out to a put
    client_failure          \* an exception or assert has ended the program

clientVars == <<discovery, client_transactions, on_tick_of, received, next_tx, outbox,
                next_tx_id, next_msg_id, client_failure>>
vars == <<clock, clientVars>>

NoClient == UNDEFINED_TX_ID     \* UNDEFINED_ACTOR_ID has the same value

ASSUME UndefinedActorIsNoClient == NoClient \notin Clients

-----------------------------------------------------------------------------
(* ClientTx *)

ClientTXState == {"NOT_STARTED", "START_SENT", "OPEN", "COMMIT_SENT",
                  "COMMITTED", "ROLLED_BACK_BY_SERVER"}
TxParticipantState == {"NONE", "START_MSG_SENT", "TX_OPEN"}

NewClientTx(spec) ==
    [spec |-> spec, state |-> "NOT_STARTED", txid |-> UNDEFINED_TX_ID,
     conflict_txid |-> UNDEFINED_TX_ID, read_ts |-> UNDEFINED_TS,
     commit_ts |-> UNDEFINED_TS, next_put |-> 0,
     participant |-> "NONE",    \* TxParticipant::state_, NONE: no participant
     requests |-> <<>>,         \* RequestsManager::puts_table_status_, each
                                \* with its key in table_scheduled_puts_
     completed_puts |-> 0]

\* progress_state; nothing follows COMMITTED.
Progress(state) ==
    CASE state = "NOT_STARTED" -> "START_SENT"
      [] state = "START_SENT"  -> "OPEN"
      [] state = "OPEN"        -> "COMMIT_SENT"
      [] OTHER                 -> "COMMITTED"

Ended == {"COMMITTED", "ROLLED_BACK_BY_SERVER"}

Init ==
    /\ clock = 0
    /\ discovery \in Discoveries
    /\ client_transactions \in
         {[t \in ClientTxs |-> NewClientTx(specs[t])] : specs \in [ClientTxs -> TxSpecs]}
    /\ on_tick_of = NoClient
    /\ received = <<>>
    /\ next_tx = 1
    /\ outbox = <<>>
    /\ next_tx_id = 0
    /\ next_msg_id = 0
    /\ client_failure = FALSE

\* The runtime calls on_tick of a client.
OnTick(c, msgs) ==
    /\ on_tick_of = NoClient
    /\ ~client_failure
    /\ on_tick_of' = c
    /\ received' = msgs
    /\ next_tx' = 1
    /\ UNCHANGED <<clock, discovery, client_transactions, outbox, next_tx_id,
                   next_msg_id, client_failure>>

-----------------------------------------------------------------------------
(* ClientTx::tick of transaction t, at timestamp ts. *)

ts == clock + 1

\* Transaction t is the one on_tick is at; the tick takes a timestamp.
Ticks(t) ==
    /\ on_tick_of \in Clients
    /\ ~client_failure
    /\ next_tx \in DOMAIN TxsOf[on_tick_of]
    /\ t = TxsOf[on_tick_of][next_tx]
    /\ clock' = ts
    /\ next_tx' = next_tx + 1
    /\ UNCHANGED <<discovery, on_tick_of, received>>

\* Mutant of Mine: the messages of the client's other transactions as well.
MineOrOthers(t) == {i \in DOMAIN received : client_transactions[t].txid # UNDEFINED_TX_ID}

\* The positions of messages_per_tx of t: none before it has an id.
Mine(t) == {i \in DOMAIN received : /\ client_transactions[t].txid # UNDEFINED_TX_ID
                                    /\ received[i].txid = client_transactions[t].txid}

\* coordinator_actor_id_, and what get_by_key says of every key, once a
\* transaction has started.
coordinator == discovery[1]

\* What TxParticipant::process_incoming gets.
Replied(t, type) ==
    {i \in Mine(t) : received[i].type = type /\ received[i].source = coordinator}

\* Mutant of LastOf: the first one counts.
FirstOf(positions) == received[Min(positions)]

\* Of several messages the last one counts.
LastOf(positions) == received[Max(positions)]

Becomes(t, tx) == client_transactions' = [client_transactions EXCEPT ![t] = tx]

ThrowsAndEnds ==
    /\ client_failure' = TRUE
    /\ UNCHANGED <<client_transactions, outbox, next_tx_id, next_msg_id>>

NothingSent == UNCHANGED <<outbox, next_tx_id, next_msg_id, client_failure>>

\* NOT_STARTED, and too early to start.
DelayStart(t) ==
    /\ Ticks(t)
    /\ client_transactions[t].state = "NOT_STARTED"
    /\ ts < client_transactions[t].spec.earliest_start_ts
    /\ NothingSent
    /\ UNCHANGED client_transactions

\* NOT_STARTED, and time to start.
Starts(t) ==
    /\ Ticks(t)
    /\ client_transactions[t].state = "NOT_STARTED"
    /\ ts >= client_transactions[t].spec.earliest_start_ts

\* Mutant of WithParticipant: the txid is read before the message is created.
WithParticipantBeforeId(tx) == [tx EXCEPT !.txid = next_tx_id, !.participant = "START_MSG_SENT"]

\* schedule_start_msg: the txid is the one the new MSG_START has drawn.
WithParticipant(tx) == [tx EXCEPT !.txid = next_tx_id + 1, !.participant = "START_MSG_SENT"]

\* configure_coordinator
SendStart(t) ==
    /\ Starts(t)
    /\ Len(discovery) = 1
    /\ next_tx_id' = next_tx_id + 1
    /\ Becomes(t, [WithParticipant(client_transactions[t]) EXCEPT !.state = Progress(@)])
    /\ outbox' = Append(outbox, MsgStart(on_tick_of, coordinator, next_tx_id + 1))
    /\ UNCHANGED <<next_msg_id, client_failure>>

\* std::invalid_argument in Discovery::get_random.
StartWithoutServer(t) ==
    /\ Starts(t)
    /\ Len(discovery) # 1
    /\ ThrowsAndEnds

AwaitStartAck(t) ==
    /\ Ticks(t)
    /\ client_transactions[t].state = "START_SENT"
    /\ Replied(t, "MSG_START_ACK") = {}
    /\ Replied(t, "MSG_PUT_REPLY") = {}
    /\ NothingSent
    /\ UNCHANGED client_transactions

\* process_replies_start_sent
Opened(t) == [client_transactions[t] EXCEPT
    !.participant = "TX_OPEN", !.read_ts = LastOf(Replied(t, "MSG_START_ACK")).read_ts]

\* The participant opens, and the transaction with it in the same tick.
ReceiveStartAck(t) ==
    /\ Ticks(t)
    /\ client_transactions[t].state = "START_SENT"
    /\ Replied(t, "MSG_START_ACK") # {}
    /\ Replied(t, "MSG_PUT_REPLY") = {}
    /\ Becomes(t, [Opened(t) EXCEPT !.state = Progress(@)])
    /\ NothingSent

\* std::logic_error in TxParticipant::process_replies_start_sent.
PutReplyBeforeStartAck(t) ==
    /\ Ticks(t)
    /\ client_transactions[t].state = "START_SENT"
    /\ Replied(t, "MSG_PUT_REPLY") # {}
    /\ ThrowsAndEnds

\* Mutant of CompleteRequests: a put is counted each time it is answered.
CountReplies(t) ==
    LET tx == client_transactions[t]
        ids == {received[i].msg_id : i \in Replied(t, "MSG_PUT_REPLY")}
        answered == {i \in DOMAIN tx.requests : tx.requests[i].msg_id \in ids}
    IN  [tx EXCEPT
          !.requests = [i \in DOMAIN @ |->
              IF i \in answered THEN [@[i] EXCEPT !.status = "REQUEST_COMPLETED"]
              ELSE @[i]],
          !.completed_puts = @ + Cardinality(answered)]

\* The positions of the requests the MSG_PUT_REPLYs complete: unknown ids and
\* puts that are completed already do not count.
Answered(t) ==
    LET tx  == client_transactions[t]
        ids == {received[i].msg_id : i \in Replied(t, "MSG_PUT_REPLY")}
    IN  {i \in DOMAIN tx.requests : /\ tx.requests[i].msg_id \in ids
                                    /\ tx.requests[i].status = "REQUEST_START"}

\* RequestsManager::complete_request for each MSG_PUT_REPLY.
CompleteRequests(t) ==
    LET tx == client_transactions[t]
    IN  [tx EXCEPT
          !.requests = [i \in DOMAIN tx.requests |->
              IF i \in Answered(t)
              THEN [tx.requests[i] EXCEPT !.status = "REQUEST_COMPLETED"]
              ELSE tx.requests[i]],
          !.completed_puts = tx.completed_puts + Cardinality(Answered(t))]

\* Mutant of CanPut: the last put of the spec is missed.
CanPutButLast(tx) ==
    /\ tx.next_put + 1 < Len(tx.spec.puts)
    /\ ts >= tx.spec.puts[tx.next_put + 1].earliest_ts

\* Is it time for the next put of the spec?
CanPut(tx) ==
    /\ tx.next_put < Len(tx.spec.puts)
    /\ ts >= tx.spec.puts[tx.next_put + 1].earliest_ts

\* add_put, and prepare_msg at the end of the tick: the request is started.
AddPut(tx) ==
    LET put == tx.spec.puts[tx.next_put + 1]
    IN  [tx EXCEPT !.next_put = @ + 1,
           !.requests = Append(@, [status |-> "REQUEST_START", key |-> put.key,
                                   value |-> put.value, msg_id |-> next_msg_id + 1])]

\* schedule_requests: the message of the put that was added last.
PutMsg(tx) ==
    LET put == tx.spec.puts[tx.next_put]
    IN  MsgPut(on_tick_of, coordinator, tx.txid, put.key, put.value, next_msg_id + 1)

\* Mutant of CanCommit: all puts are sent.
CanCommitUnanswered(tx) ==
    /\ tx.next_put = Len(tx.spec.puts)
    /\ ts >= tx.spec.earliest_commit_ts
    /\ tx.spec.action = "COMMIT"

\* All puts are answered and the spec wants the commit now.
CanCommit(tx) ==
    /\ tx.completed_puts = Len(tx.spec.puts)
    /\ ts >= tx.spec.earliest_commit_ts
    /\ tx.spec.action = "COMMIT"

\* OPEN: take the answers, start at most one put, then maybe commit.
TickOpen(t) ==
    /\ Ticks(t)
    /\ client_transactions[t].state = "OPEN"
    /\ LET acked == CompleteRequests(t)
           added == IF CanPut(acked) THEN AddPut(acked) ELSE acked
           done  == IF CanCommit(added) THEN [added EXCEPT !.state = Progress(@)]
                    ELSE added
       IN  /\ Becomes(t, done)
           /\ outbox' = outbox
                \o (IF CanCommit(added)
                    THEN <<MsgCommit(on_tick_of, coordinator, added.txid)>> ELSE <<>>)
                \o (IF CanPut(acked) THEN <<PutMsg(added)>> ELSE <<>>)
           /\ next_msg_id' = IF CanPut(acked) THEN next_msg_id + 1 ELSE next_msg_id
    /\ UNCHANGED <<next_tx_id, client_failure>>

AwaitVerdict(t) ==
    /\ Ticks(t)
    /\ client_transactions[t].state = "COMMIT_SENT"
    /\ Mine(t) = {}
    /\ NothingSent
    /\ UNCHANGED client_transactions

VerdictTypes == {"MSG_COMMIT_ACK", "MSG_ROLLED_BACK_BY_SERVER"}

Verdicts(positions, type) == {i \in positions : received[i].type = type}

\* Each verdict overwrites the one before: a MSG_COMMIT_ACK makes a transaction
\* COMMITTED that was rolled back, too.
AfterVerdicts(tx, positions) ==
    LET acks      == Verdicts(positions, "MSG_COMMIT_ACK")
        rollbacks == Verdicts(positions, "MSG_ROLLED_BACK_BY_SERVER")
    IN  [tx EXCEPT
          !.state = IF positions = {} THEN @
                    ELSE IF LastOf(positions).type = "MSG_COMMIT_ACK" THEN "COMMITTED"
                    ELSE "ROLLED_BACK_BY_SERVER",
          !.commit_ts = IF acks = {} THEN @ ELSE LastOf(acks).commit_ts,
          !.conflict_txid = IF rollbacks = {} THEN @ ELSE LastOf(rollbacks).conflict_txid]

\* process_replies_commit_sent
ReceiveVerdict(t) ==
    /\ Ticks(t)
    /\ client_transactions[t].state = "COMMIT_SENT"
    /\ Mine(t) # {}
    /\ \A i \in Mine(t) : received[i].type \in VerdictTypes
    /\ Becomes(t, AfterVerdicts(client_transactions[t], Mine(t)))
    /\ NothingSent

\* The verdicts before the first message that is none.
VerdictsFirst(t) ==
    {i \in Mine(t) : \A j \in Mine(t) : j <= i => received[j].type \in VerdictTypes}

\* std::logic_error in process_replies_commit_sent: the participant has taken
\* its replies by then, and the transaction the verdicts that came first.
ReplyAfterCommit(t) ==
    /\ Ticks(t)
    /\ client_transactions[t].state = "COMMIT_SENT"
    /\ \E i \in Mine(t) : received[i].type \notin VerdictTypes
    /\ Becomes(t, AfterVerdicts(CompleteRequests(t), VerdictsFirst(t)))
    /\ client_failure' = TRUE
    /\ UNCHANGED <<outbox, next_tx_id, next_msg_id>>

\* An ended transaction only keeps its table of requests.
TickEnded(t) ==
    /\ Ticks(t)
    /\ client_transactions[t].state \in Ended
    /\ Becomes(t, CompleteRequests(t))
    /\ NothingSent

\* on_tick hands what was scheduled to the runtime and returns.
Send ==
    /\ on_tick_of \in Clients
    /\ ~client_failure
    /\ next_tx = Len(TxsOf[on_tick_of]) + 1
    /\ on_tick_of' = NoClient
    /\ received' = <<>>
    /\ outbox' = <<>>
    /\ UNCHANGED <<clock, discovery, client_transactions, next_tx, next_tx_id,
                   next_msg_id, client_failure>>

\* What ClientTx::export_results tells of a transaction: of its puts, those
\* that are completed, each at its position.
export_results(t) ==
    LET tx   == client_transactions[t]
        done == {i \in DOMAIN tx.requests : tx.requests[i].status = "REQUEST_COMPLETED"}
    IN  [state |-> tx.state, txid |-> tx.txid, conflict_txid |-> tx.conflict_txid,
         read_ts |-> tx.read_ts, commit_ts |-> tx.commit_ts,
         puts |-> [i \in done |-> [key |-> tx.requests[i].key, value |-> tx.requests[i].value]]]

ClientStep == \E t \in ClientTxs :
    \/ DelayStart(t)
    \/ SendStart(t)
    \/ StartWithoutServer(t)
    \/ AwaitStartAck(t)
    \/ ReceiveStartAck(t)
    \/ PutReplyBeforeStartAck(t)
    \/ TickOpen(t)
    \/ AwaitVerdict(t)
    \/ ReceiveVerdict(t)
    \/ ReplyAfterCommit(t)
    \/ TickEnded(t)

Next ==
    \/ \E c \in Clients, msgs \in ReplyBatches : OnTick(c, msgs)
    \/ ClientStep
    \/ Send

Spec == Init /\ [][Next]_vars

-----------------------------------------------------------------------------
(* Properties of the clients, whatever they are answered. *)

ClientTypeOK ==
    /\ clock \in Nat
    /\ \A t \in ClientTxs :
         LET tx == client_transactions[t]
         IN  /\ tx.state \in ClientTXState
             /\ tx.participant \in TxParticipantState
             /\ tx.txid \in (1..next_tx_id) \union {UNDEFINED_TX_ID}
             /\ tx.read_ts \in Timestamps /\ tx.commit_ts \in Timestamps
             /\ Len(tx.requests) = tx.next_put
             /\ tx.next_put \in 0..Len(tx.spec.puts)
             /\ tx.completed_puts \in 0..tx.next_put
    /\ on_tick_of \in Clients \union {NoClient}
    /\ client_failure \in BOOLEAN

\* A transaction asks for the commit only when every put of its spec has been
\* sent, in the order of the spec, and answered: a repeated, late or foreign
\* MSG_PUT_REPLY never makes up for a missing one.
CommitAfterEveryPut ==
    \A t \in ClientTxs :
        LET tx == client_transactions[t]
        IN  tx.state \in {"COMMIT_SENT"} \union Ended =>
              /\ Len(tx.requests) = Len(tx.spec.puts)
              /\ \A i \in DOMAIN tx.requests :
                   /\ tx.requests[i].status = "REQUEST_COMPLETED"
                   /\ tx.requests[i].key = tx.spec.puts[i].key
                   /\ tx.requests[i].value = tx.spec.puts[i].value

\* A transaction sends at most one message per tick.  The heap of the runtime
\* does not keep the order of messages sent in one tick, so more would let a
\* commit overtake a put.
OneMessagePerTick ==
    \A i, j \in DOMAIN outbox : outbox[i].txid = outbox[j].txid => i = j

\* The loop of process_replies_commit_sent, message by message.
AfterVerdict(tx, msg) ==
    IF msg.type = "MSG_COMMIT_ACK"
    THEN [tx EXCEPT !.commit_ts = msg.commit_ts, !.state = Progress(@)]
    ELSE [tx EXCEPT !.state = "ROLLED_BACK_BY_SERVER", !.conflict_txid = msg.conflict_txid]

VerdictLoop(t) ==
    LET tx[i \in 0..Len(received)] ==
          IF i = 0 THEN client_transactions[t]
          ELSE IF i \in Mine(t) THEN AfterVerdict(tx[i - 1], received[i]) ELSE tx[i - 1]
    IN  tx[Len(received)]

\* AfterVerdicts computes what the loop of process_replies_commit_sent computes,
\* for every sequence of verdicts a transaction may get at once.
VerdictsAgree ==
    \A t \in ClientTxs :
        /\ client_transactions[t].state = "COMMIT_SENT"
        /\ Mine(t) # {}
        /\ \A i \in Mine(t) : received[i].type \in VerdictTypes
        => AfterVerdicts(client_transactions[t], Mine(t)) = VerdictLoop(t)

=============================================================================
