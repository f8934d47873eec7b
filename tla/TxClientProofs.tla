--------------------------- MODULE TxClientProofs ---------------------------
(***************************************************************************)
(* Proofs about TxClient, for any clients, transactions and specs, and     *)
(* whatever the clients are answered.                                      *)
(*                                                                         *)
(* CommitAfterEveryPut is about requests, CanCommit only compares a        *)
(* counter with the length of the spec.  The invariant ties them together: *)
(* completed_puts is the number of completed requests (CountIsRight), the  *)
(* requests are the first puts of the spec (RequestsAreSpec), and whoever  *)
(* has asked for the commit has completed as many as there are.  That a    *)
(* transaction sends at most one message per tick follows from the same    *)
(* counter, and from ids that are never given twice.                       *)
(***************************************************************************)
EXTENDS TxClient, FiniteSetTheorems, Recursion, TLAPS

Request == [status : {"REQUEST_START", "REQUEST_COMPLETED"}, key : Keys, value : Values,
            msg_id : Nat]

ClientTx ==
    [spec : TxSpecs, state : ClientTXState, txid : Nat \union {UNDEFINED_TX_ID},
     conflict_txid : TxIDs \union {UNDEFINED_TX_ID}, read_ts : Timestamps,
     commit_ts : Timestamps, next_put : Nat, participant : TxParticipantState,
     requests : Seq(Request), completed_puts : Nat]

\* What a client sends.
ClientMessages ==
    [type : {"MSG_START", "MSG_COMMIT"}, source : Clients, destination : {coordinator},
     txid : Nat]
    \union
    [type : {"MSG_PUT"}, source : Clients, destination : {coordinator},
     txid : Nat, key : Keys, value : Values, msg_id : Nat]

Types ==
    /\ clock \in Nat
    /\ client_transactions \in [ClientTxs -> ClientTx]
    /\ on_tick_of \in Clients \union {NoClient}
    /\ received \in Seq(Replies)
    /\ next_tx \in Nat \ {0}
    /\ outbox \in Seq(ClientMessages)
    /\ next_tx_id \in Nat
    /\ next_msg_id \in Nat
    /\ client_failure \in BOOLEAN

\* The positions of the requests that are answered.
Completed(tx) == {i \in DOMAIN tx.requests : tx.requests[i].status = "REQUEST_COMPLETED"}

\* The requests of a transaction are the first puts of its spec.
RequestsAreSpec(tx) ==
    /\ Len(tx.requests) = tx.next_put
    /\ tx.next_put <= Len(tx.spec.puts)
    /\ \A i \in DOMAIN tx.requests :
         /\ tx.requests[i].key = tx.spec.puts[i].key
         /\ tx.requests[i].value = tx.spec.puts[i].value

\* The counter is the number of requests that are answered.
CountIsRight(tx) == tx.completed_puts = Cardinality(Completed(tx))

\* What a transaction has in which state.
ClientLifeCycle(tx) ==
    /\ tx.state = "NOT_STARTED" <=> tx.txid = UNDEFINED_TX_ID
    /\ tx.state = "NOT_STARTED" <=> tx.participant = "NONE"
    /\ tx.state = "START_SENT" <=> tx.participant = "START_MSG_SENT"
    /\ tx.state \in {"NOT_STARTED", "START_SENT"} => tx.requests = <<>>
    /\ tx.state \in {"COMMIT_SENT"} \union Ended => tx.completed_puts = Len(tx.spec.puts)

\* Ids come from the Generator, each once.
IdsUnique ==
    /\ \A t \in ClientTxs : client_transactions[t].txid # UNDEFINED_TX_ID
         => client_transactions[t].txid \in 1..next_tx_id
    /\ \A t, u \in ClientTxs :
         /\ client_transactions[t].txid = client_transactions[u].txid
         /\ client_transactions[t].txid # UNDEFINED_TX_ID
         => t = u
    /\ \A t \in ClientTxs : \A i \in DOMAIN client_transactions[t].requests :
         client_transactions[t].requests[i].msg_id \in 1..next_msg_id
    /\ \A t, u \in ClientTxs : \A i \in DOMAIN client_transactions[t].requests,
                                  j \in DOMAIN client_transactions[u].requests :
         client_transactions[t].requests[i].msg_id = client_transactions[u].requests[j].msg_id
         => t = u /\ i = j

\* Messages come from transactions that have been ticked.
OutboxOfTicked ==
    /\ on_tick_of = NoClient => outbox = <<>>
    /\ \A i \in DOMAIN outbox :
         \E k \in DOMAIN TxsOf[on_tick_of] :
            /\ k < next_tx
            /\ outbox[i].txid = client_transactions[TxsOf[on_tick_of][k]].txid
            /\ outbox[i].txid # UNDEFINED_TX_ID

CInv ==
    /\ Types
    /\ \A t \in ClientTxs : /\ RequestsAreSpec(client_transactions[t])
                            /\ CountIsRight(client_transactions[t])
                            /\ ClientLifeCycle(client_transactions[t])
    /\ IdsUnique
    /\ OutboxOfTicked
    /\ OneMessagePerTick

-----------------------------------------------------------------------------
(* Lemmas about the operators of TxClient. *)

\* The answered requests are finitely many, at most as many as there are.
LEMMA CompletedFinite ==
  ASSUME NEW tx \in ClientTx
  PROVE  /\ IsFiniteSet(Completed(tx))
         /\ Cardinality(Completed(tx)) \in Nat
         /\ Cardinality(Completed(tx)) <= Len(tx.requests)
         /\ Cardinality(Completed(tx)) = Len(tx.requests) => Completed(tx) = DOMAIN tx.requests
<1> DEFINE n == Len(tx.requests)
<1>1. n \in Nat /\ DOMAIN tx.requests = 1..n
  BY DEF ClientTx
<1>2. IsFiniteSet(1..n) /\ Cardinality(1..n) = n
  BY <1>1, FS_Interval
<1>3. Completed(tx) \subseteq 1..n
  BY <1>1 DEF Completed
<1>4. IsFiniteSet(Completed(tx)) /\ Cardinality(Completed(tx)) <= n
      /\ (Cardinality(Completed(tx)) = n => Completed(tx) = 1..n)
  BY <1>2, <1>3, FS_Subset, FS_CardinalityType
<1>5. Cardinality(Completed(tx)) \in Nat
  BY <1>4, FS_CardinalityType
<1> QED BY <1>1, <1>4, <1>5

\* What becomes of the requests when some are answered.
LEMMA CompletedRequests ==
  ASSUME NEW requests \in Seq(Request), NEW answered \in SUBSET DOMAIN requests
  PROVE  LET new == [i \in DOMAIN requests |->
                        IF i \in answered
                        THEN [requests[i] EXCEPT !.status = "REQUEST_COMPLETED"]
                        ELSE requests[i]]
         IN  /\ new \in Seq(Request)
             /\ DOMAIN new = DOMAIN requests
             /\ Len(new) = Len(requests)
             /\ \A i \in DOMAIN requests :
                  /\ new[i].key = requests[i].key
                  /\ new[i].value = requests[i].value
                  /\ new[i].msg_id = requests[i].msg_id
                  /\ new[i].status = IF i \in answered THEN "REQUEST_COMPLETED"
                                     ELSE requests[i].status
<1>1. \A i \in DOMAIN requests : requests[i] \in Request
  OBVIOUS
<1>2. \A r \in Request : LET done == [r EXCEPT !.status = "REQUEST_COMPLETED"]
                         IN  /\ done \in Request /\ done.status = "REQUEST_COMPLETED"
                             /\ done.key = r.key /\ done.value = r.value
                             /\ done.msg_id = r.msg_id
  BY DEF Request
<1> DEFINE Done(r) == [r EXCEPT !.status = "REQUEST_COMPLETED"]
           new == [i \in DOMAIN requests |->
                        IF i \in answered THEN Done(requests[i]) ELSE requests[i]]
<1>3. \A r \in Request : /\ Done(r) \in Request /\ Done(r).status = "REQUEST_COMPLETED"
                         /\ Done(r).key = r.key /\ Done(r).value = r.value
                         /\ Done(r).msg_id = r.msg_id
  BY <1>2
<1> HIDE DEF Done
<1>4. DOMAIN new = 1..Len(requests) /\ Len(requests) \in Nat
  OBVIOUS
<1>5. \A i \in DOMAIN requests : new[i] \in Request
  BY <1>1, <1>3
<1>6. new \in Seq(Request) /\ Len(new) = Len(requests)
  BY <1>4, <1>5
<1>7. \A i \in DOMAIN requests :
        /\ new[i].key = requests[i].key
        /\ new[i].value = requests[i].value
        /\ new[i].msg_id = requests[i].msg_id
        /\ new[i].status = IF i \in answered THEN "REQUEST_COMPLETED" ELSE requests[i].status
  BY <1>1, <1>3
<1> QED BY <1>4, <1>6, <1>7 DEF Done

\* Completing requests changes their status and the counter, by the same
\* number.
LEMMA Completion ==
  ASSUME Types, NEW t \in ClientTxs,
         NEW tx, tx = client_transactions[t], CountIsRight(tx),
         NEW new, new = CompleteRequests(t)
  PROVE  /\ new \in ClientTx
         /\ CountIsRight(new)
         /\ Completed(tx) \subseteq Completed(new)
         /\ DOMAIN new.requests = DOMAIN tx.requests
         /\ Len(new.requests) = Len(tx.requests)
         /\ \A i \in DOMAIN tx.requests :
              /\ new.requests[i].key = tx.requests[i].key
              /\ new.requests[i].value = tx.requests[i].value
              /\ new.requests[i].msg_id = tx.requests[i].msg_id
              /\ new.requests[i].status = IF i \in Answered(t) THEN "REQUEST_COMPLETED"
                                          ELSE tx.requests[i].status
         /\ new.completed_puts = tx.completed_puts + Cardinality(Answered(t))
         /\ new.spec = tx.spec /\ new.state = tx.state /\ new.txid = tx.txid
         /\ new.participant = tx.participant /\ new.next_put = tx.next_put
         /\ new.conflict_txid = tx.conflict_txid
         /\ new.read_ts = tx.read_ts /\ new.commit_ts = tx.commit_ts
         /\ tx.completed_puts <= new.completed_puts
<1> DEFINE answered == Answered(t)
           requests == [i \in DOMAIN tx.requests |->
                IF i \in answered THEN [tx.requests[i] EXCEPT !.status = "REQUEST_COMPLETED"]
                ELSE tx.requests[i]]
           completed == tx.completed_puts + Cardinality(answered)
<1>1. tx \in ClientTx /\ tx.requests \in Seq(Request) /\ tx.completed_puts \in Nat
      /\ Len(tx.requests) \in Nat
  BY DEF Types, ClientTx
<1>2. new = [tx EXCEPT !.requests = requests, !.completed_puts = completed]
  BY DEF CompleteRequests
<1>3. /\ answered \in SUBSET DOMAIN tx.requests
      /\ \A i \in answered : tx.requests[i].status = "REQUEST_START"
  BY DEF Answered
<1>4. IsFiniteSet(answered) /\ Cardinality(answered) \in Nat
  <2>1. IsFiniteSet(1..Len(tx.requests))
    <3> DEFINE n == Len(tx.requests)
    <3>1. n \in Int
      BY <1>1
    <3> HIDE DEF n
    <3>2. IsFiniteSet(1..n)
      BY <3>1, FS_Interval
    <3> QED BY <3>2 DEF n
  <2>2. answered \subseteq 1..Len(tx.requests)
    BY <1>1, <1>3
  <2> QED BY <2>1, <2>2, FS_Subset, FS_CardinalityType
<1>5. /\ requests \in Seq(Request)
      /\ DOMAIN requests = DOMAIN tx.requests
      /\ Len(requests) = Len(tx.requests)
      /\ \A i \in DOMAIN tx.requests :
           /\ requests[i].key = tx.requests[i].key
           /\ requests[i].value = tx.requests[i].value
           /\ requests[i].msg_id = tx.requests[i].msg_id
           /\ requests[i].status = IF i \in answered THEN "REQUEST_COMPLETED"
                                   ELSE tx.requests[i].status
  <2> HIDE DEF answered
  <2> QED BY <1>1, <1>3, CompletedRequests
<1> HIDE DEF requests
<1>6. completed \in Nat
  BY <1>1, <1>4
<1>7. /\ new \in ClientTx
      /\ new.requests = requests /\ new.completed_puts = completed
      /\ new.spec = tx.spec /\ new.state = tx.state /\ new.txid = tx.txid
      /\ new.participant = tx.participant /\ new.next_put = tx.next_put
      /\ new.conflict_txid = tx.conflict_txid
      /\ new.read_ts = tx.read_ts /\ new.commit_ts = tx.commit_ts
  <2> HIDE DEF completed
  <2>1. requests \in Seq(Request)
    BY <1>5
  <2> QED BY <1>1, <1>2, <1>6, <2>1 DEF ClientTx
<1>8. Completed(new) = Completed(tx) \union answered
  BY <1>3, <1>5, <1>7 DEF Completed
<1>9. Completed(tx) \intersect answered = {}
  BY <1>3 DEF Completed
<1>10. Cardinality(Completed(new)) = Cardinality(Completed(tx)) + Cardinality(answered)
  <2>1. IsFiniteSet(Completed(tx)) /\ Cardinality(Completed(tx)) \in Nat
    BY <1>1, CompletedFinite
  <2>2. Cardinality(Completed(tx) \union answered)
          = Cardinality(Completed(tx)) + Cardinality(answered)
            - Cardinality(Completed(tx) \intersect answered)
    BY <2>1, <1>4, FS_Union
  <2>3. Cardinality(Completed(tx) \intersect answered) = 0
    BY <1>9, FS_EmptySet
  <2> QED BY <2>1, <2>2, <2>3, <1>4, <1>8
<1>11. CountIsRight(new)
  BY <1>7, <1>10 DEF CountIsRight
<1> QED BY <1>1, <1>4, <1>5, <1>7, <1>8, <1>11

\* Of any positions one is the last.
LEMMA LastPosition ==
  ASSUME NEW n \in Nat, NEW S \in SUBSET (1..n), S # {}
  PROVE  Max(S) \in S /\ \A i \in S : i <= Max(S)
<1> DEFINE D == {n - i : i \in S}
<1>1. D \subseteq Nat /\ D # {}
  <2>1. \A i \in S : n - i \in Nat
    OBVIOUS
  <2>2. PICK i \in S : TRUE
    OBVIOUS
  <2>3. n - i \in D
    OBVIOUS
  <2> QED BY <2>1, <2>3
<1>2. PICK d \in D : \A x \in D : d <= x
  <2> HIDE DEF D
  <2> QED BY <1>1, LeastNatural
<1>3. PICK m \in S : d = n - m
  BY <1>2
<1>4. \A i \in S : n - m <= n - i
  BY <1>2, <1>3
<1>5. \A i \in S : i <= m
  BY <1>4
<1>6. \E x \in S : \A y \in S : x >= y
  BY <1>5
<1>7. Max(S) \in S /\ \A y \in S : Max(S) >= y
  BY <1>6 DEF Max
<1> QED BY <1>7

\* The last of some messages is one of them.
LEMMA LastOfSome ==
  ASSUME received \in Seq(Replies), NEW S \in SUBSET DOMAIN received, S # {}
  PROVE  \E i \in S : LastOf(S) = received[i] /\ received[i] \in Replies
<1>1. Len(received) \in Nat /\ DOMAIN received = 1..Len(received)
  OBVIOUS
<1>2. Max(S) \in S
  BY <1>1, LastPosition
<1> QED BY <1>2 DEF LastOf

\* What the replies of each type carry.
LEMMA ReplyFields ==
  ASSUME NEW m \in Replies
  PROVE  /\ m.type = "MSG_START_ACK" => m.read_ts \in Nat
         /\ m.type = "MSG_COMMIT_ACK" => m.commit_ts \in Nat
         /\ m.type = "MSG_ROLLED_BACK_BY_SERVER" => m.conflict_txid \in TxIDs
         /\ m.txid \in TxIDs
BY DEF Replies

-----------------------------------------------------------------------------
(* A tick of one transaction. *)

\* What follows of a tick that makes new of transaction t and sends msgs, at
\* most one message, if new keeps what the invariant says of one transaction.
LEMMA TickKeepsCInv ==
  ASSUME CInv, NEW t \in ClientTxs, Ticks(t),
         NEW new \in ClientTx, Becomes(t, new),
         RequestsAreSpec(new), CountIsRight(new), ClientLifeCycle(new),
         next_tx_id' \in Nat, next_tx_id <= next_tx_id',
         next_msg_id' \in Nat, next_msg_id <= next_msg_id',
         client_failure' \in BOOLEAN,
         \/ new.txid = client_transactions[t].txid
         \/ new.txid = next_tx_id + 1 /\ next_tx_id' = next_tx_id + 1,
         \A i \in DOMAIN new.requests :
            \/ /\ i \in DOMAIN client_transactions[t].requests
               /\ new.requests[i].msg_id = client_transactions[t].requests[i].msg_id
            \/ /\ i = Len(client_transactions[t].requests) + 1
               /\ new.requests[i].msg_id = next_msg_id + 1
               /\ next_msg_id' = next_msg_id + 1,
         \/ outbox' = outbox
         \/ \E m \in ClientMessages : /\ outbox' = Append(outbox, m)
                                      /\ m.txid = new.txid
  PROVE  CInv'
<1> USE DEF CInv
<1> DEFINE old == client_transactions[t]
<1>1. /\ client_transactions'[t] = new
      /\ \A u \in ClientTxs \ {t} : client_transactions'[u] = client_transactions[u]
      /\ client_transactions' \in [ClientTxs -> ClientTx]
  BY DEF Becomes, Types
<1>2. /\ on_tick_of \in Clients /\ next_tx \in DOMAIN TxsOf[on_tick_of]
      /\ t = TxsOf[on_tick_of][next_tx]
      /\ clock' = clock + 1 /\ next_tx' = next_tx + 1
      /\ UNCHANGED <<discovery, on_tick_of, received>>
  BY DEF Ticks, ts
<1>3. coordinator' = coordinator /\ ClientMessages' = ClientMessages
  BY <1>2 DEF coordinator, ClientMessages
<1>4. Types'
  <2>1. outbox \in Seq(ClientMessages) /\ received \in Seq(Replies) /\ clock \in Nat
        /\ next_tx \in Nat
    BY DEF Types
  <2> HIDE DEF CInv
  <2>2. outbox' \in Seq(ClientMessages)
    BY <2>1
  <2>3. clock' \in Nat /\ next_tx' \in Nat \ {0} /\ received' \in Seq(Replies)
    BY <2>1, <1>2
  <2> QED BY <2>2, <2>3, <1>1, <1>2, <1>3 DEF Types
<1>5. \A u \in ClientTxs : /\ RequestsAreSpec(client_transactions'[u])
                           /\ CountIsRight(client_transactions'[u])
                           /\ ClientLifeCycle(client_transactions'[u])
  BY <1>1
<1>6. IdsUnique'
  <2> DEFINE txid(u) == client_transactions[u].txid
             requests(u) == client_transactions[u].requests
  <2>1. next_tx_id \in Nat /\ next_msg_id \in Nat
    BY DEF Types
  <2>2. \A u \in ClientTxs : client_transactions'[u].txid # UNDEFINED_TX_ID
          => client_transactions'[u].txid \in 1..next_tx_id'
    BY <1>1, <2>1 DEF IdsUnique
  <2>3. \A u \in ClientTxs \ {t} : new.txid # UNDEFINED_TX_ID => new.txid # txid(u)
    BY <2>1 DEF IdsUnique, UNDEFINED_TX_ID
  <2>4. \A u, v \in ClientTxs :
         /\ client_transactions'[u].txid = client_transactions'[v].txid
         /\ client_transactions'[u].txid # UNDEFINED_TX_ID
         => u = v
    BY <1>1, <2>3 DEF IdsUnique
  <2>5. \A u \in ClientTxs : \A i \in DOMAIN client_transactions'[u].requests :
         client_transactions'[u].requests[i].msg_id \in 1..next_msg_id'
    BY <1>1, <2>1 DEF IdsUnique
  <2>6. \A u \in ClientTxs \ {t} : \A i \in DOMAIN new.requests, j \in DOMAIN requests(u) :
         new.requests[i].msg_id # requests(u)[j].msg_id
    BY <2>1 DEF IdsUnique
  <2>7. \A i, j \in DOMAIN new.requests :
         new.requests[i].msg_id = new.requests[j].msg_id => i = j
    BY <2>1 DEF IdsUnique
  <2>8. \A u, v \in ClientTxs : \A i \in DOMAIN client_transactions'[u].requests,
                                   j \in DOMAIN client_transactions'[v].requests :
         client_transactions'[u].requests[i].msg_id = client_transactions'[v].requests[j].msg_id
         => u = v /\ i = j
    <3> SUFFICES ASSUME NEW u \in ClientTxs, NEW v \in ClientTxs,
                        NEW i \in DOMAIN client_transactions'[u].requests,
                        NEW j \in DOMAIN client_transactions'[v].requests,
                        client_transactions'[u].requests[i].msg_id
                          = client_transactions'[v].requests[j].msg_id
                 PROVE  u = v /\ i = j
      OBVIOUS
    <3>1. CASE u = t /\ v = t
      BY <3>1, <1>1, <2>7
    <3>2. CASE u = t /\ v # t
      BY <3>2, <1>1, <2>6
    <3>3. CASE u # t /\ v = t
      BY <3>3, <1>1, <2>6
    <3>4. CASE u # t /\ v # t
      BY <3>4, <1>1 DEF IdsUnique
    <3> QED BY <3>1, <3>2, <3>3, <3>4
  <2> QED BY <2>2, <2>4, <2>5, <2>8 DEF IdsUnique
<1>7. new.txid = UNDEFINED_TX_ID \/ new.txid \in Nat
  BY DEF ClientTx
<1>8. TxsOf[on_tick_of] \in Seq(ClientTxs)
  BY <1>2, TxsOfAssumption
<1>9. \A k \in DOMAIN TxsOf[on_tick_of] : TxsOf[on_tick_of][k] = t => k = next_tx
  BY <1>2, TxsOfAssumption
<1>10. \A i \in DOMAIN outbox :
         \E k \in DOMAIN TxsOf[on_tick_of] :
            /\ k < next_tx
            /\ TxsOf[on_tick_of][k] \in ClientTxs \ {t}
            /\ outbox[i].txid = client_transactions'[TxsOf[on_tick_of][k]].txid
            /\ outbox[i].txid # UNDEFINED_TX_ID
  <2> SUFFICES ASSUME NEW i \in DOMAIN outbox
               PROVE  \E k \in DOMAIN TxsOf[on_tick_of] :
                        /\ k < next_tx
                        /\ TxsOf[on_tick_of][k] \in ClientTxs \ {t}
                        /\ outbox[i].txid = client_transactions'[TxsOf[on_tick_of][k]].txid
                        /\ outbox[i].txid # UNDEFINED_TX_ID
    OBVIOUS
  <2>1. PICK k \in DOMAIN TxsOf[on_tick_of] :
            /\ k < next_tx
            /\ outbox[i].txid = client_transactions[TxsOf[on_tick_of][k]].txid
            /\ outbox[i].txid # UNDEFINED_TX_ID
    BY DEF OutboxOfTicked
  <2>2. k # next_tx /\ TxsOf[on_tick_of][k] \in ClientTxs
    BY <2>1, <1>2, <1>8 DEF Types
  <2> QED BY <2>1, <2>2, <1>1, <1>9
<1>11. CASE outbox' = outbox
  <2>1. OutboxOfTicked' /\ OneMessagePerTick'
    <3>1. next_tx \in Nat /\ \A k \in DOMAIN TxsOf[on_tick_of] : k \in Nat
      BY <1>8 DEF Types
    <3>2. on_tick_of # NoClient
      BY <1>2, UndefinedActorIsNoClient
    <3> QED BY <1>2, <1>10, <1>11, <3>1, <3>2 DEF OutboxOfTicked, OneMessagePerTick
  <2> QED BY <2>1, <1>4, <1>5, <1>6
<1>12. CASE outbox' # outbox
  <2>1. PICK m \in ClientMessages : outbox' = Append(outbox, m) /\ m.txid = new.txid
    BY <1>12
  <2>2. outbox \in Seq(ClientMessages) /\ Len(outbox) \in Nat
    BY DEF Types
  <2>3. /\ DOMAIN outbox' = DOMAIN outbox \union {Len(outbox) + 1}
        /\ \A i \in DOMAIN outbox : outbox'[i] = outbox[i]
        /\ outbox'[Len(outbox) + 1] = m
    BY <2>1, <2>2
  <2>4. m.txid \in Nat
    BY DEF ClientMessages
  <2>5. m.txid # UNDEFINED_TX_ID /\ m.txid = client_transactions'[t].txid
    BY <2>1, <2>4, <1>1 DEF UNDEFINED_TX_ID
  <2>6. \A i \in DOMAIN outbox : outbox[i].txid # m.txid
    BY <2>5, <1>6, <1>10 DEF IdsUnique
  <2>7. OneMessagePerTick'
    BY <2>3, <2>6 DEF OneMessagePerTick
  <2>8. next_tx \in Nat /\ \A k \in DOMAIN TxsOf[on_tick_of] : k \in Nat
    BY <1>8 DEF Types
  <2>9. on_tick_of # NoClient
    BY <1>2, UndefinedActorIsNoClient
  <2>10. OutboxOfTicked'
    <3>1. \A i \in DOMAIN outbox' : i \in DOMAIN outbox \/ (i = Len(outbox) + 1 /\ outbox'[i] = m)
      BY <2>3
    <3>2. \A i \in DOMAIN outbox' :
            \E k \in DOMAIN TxsOf[on_tick_of] :
               /\ k < next_tx + 1
               /\ outbox'[i].txid = client_transactions'[TxsOf[on_tick_of][k]].txid
               /\ outbox'[i].txid # UNDEFINED_TX_ID
      <4> SUFFICES ASSUME NEW i \in DOMAIN outbox'
                   PROVE  \E k \in DOMAIN TxsOf[on_tick_of] :
                            /\ k < next_tx + 1
                            /\ outbox'[i].txid = client_transactions'[TxsOf[on_tick_of][k]].txid
                            /\ outbox'[i].txid # UNDEFINED_TX_ID
        OBVIOUS
      <4>1. CASE i \in DOMAIN outbox
        BY <4>1, <1>10, <2>3, <2>8
      <4>2. CASE i = Len(outbox) + 1
        BY <4>2, <1>2, <2>3, <2>5, <2>8
      <4> QED BY <3>1, <4>1, <4>2
    <3> QED BY <1>2, <2>9, <3>2 DEF OutboxOfTicked
  <2> QED BY <2>7, <2>10, <1>4, <1>5, <1>6
<1> QED BY <1>11, <1>12

\* What is known of a transaction the invariant holds for.
LEMMA ClientTxFacts ==
  ASSUME Types, NEW t \in ClientTxs, NEW tx, tx = client_transactions[t]
  PROVE  /\ tx \in ClientTx
         /\ tx.requests \in Seq(Request) /\ Len(tx.requests) \in Nat
         /\ DOMAIN tx.requests = 1..Len(tx.requests)
         /\ tx.completed_puts \in Nat /\ tx.next_put \in Nat
         /\ tx.spec.puts \in Seq(ClientTxPut) /\ Len(tx.spec.puts) \in Nat
         /\ DOMAIN tx.spec.puts = 1..Len(tx.spec.puts)
         /\ tx.state \in ClientTXState
<1>1. tx \in ClientTx
  BY DEF Types
<1>2. tx.spec \in TxSpec
  BY <1>1, TxSpecsAssumption DEF ClientTx
<1>3. tx.spec.puts \in Seq(ClientTxPut)
  BY <1>2 DEF TxSpec
<1> QED BY <1>1, <1>3 DEF ClientTx

\* A step that leaves the transactions alone.
LEMMA QuietTick ==
  ASSUME CInv, NEW t \in ClientTxs, Ticks(t), UNCHANGED <<client_transactions, outbox>>,
         UNCHANGED <<next_tx_id, next_msg_id>>, client_failure' \in BOOLEAN
  PROVE  CInv'
<1> DEFINE tx == client_transactions[t]
<1>1. tx \in ClientTx /\ Becomes(t, tx)
  BY DEF CInv, Types, Becomes
<1>2. RequestsAreSpec(tx) /\ CountIsRight(tx) /\ ClientLifeCycle(tx)
  BY DEF CInv
<1>3. next_tx_id' \in Nat /\ next_tx_id <= next_tx_id'
      /\ next_msg_id' \in Nat /\ next_msg_id <= next_msg_id'
  BY DEF CInv, Types
<1> HIDE DEF tx
<1>4. tx.txid = client_transactions[t].txid /\ tx.requests = client_transactions[t].requests
  BY DEF tx
<1> QED BY <1>1, <1>2, <1>3, <1>4, TickKeepsCInv

\* DelayStart, AwaitStartAck, AwaitVerdict and what throws with nothing done.
LEMMA WaitStep ==
  ASSUME CInv, NEW t \in ClientTxs,
         \/ DelayStart(t)
         \/ StartWithoutServer(t)
         \/ AwaitStartAck(t)
         \/ PutReplyBeforeStartAck(t)
         \/ AwaitVerdict(t)
  PROVE  CInv'
<1>1. client_failure \in BOOLEAN
  BY DEF CInv, Types
<1>2. /\ Ticks(t)
      /\ UNCHANGED <<client_transactions, outbox>>
      /\ UNCHANGED <<next_tx_id, next_msg_id>>
      /\ client_failure' \in BOOLEAN
  BY <1>1 DEF DelayStart, StartWithoutServer, Starts, AwaitStartAck, PutReplyBeforeStartAck,
              AwaitVerdict, ThrowsAndEnds, NothingSent
<1> QED BY <1>2, QuietTick

\* A transaction starts: it gets an id nobody has, and a participant.
LEMMA SendStartStep ==
  ASSUME CInv, NEW t \in ClientTxs, SendStart(t)
  PROVE  CInv'
<1> DEFINE tx == client_transactions[t]
           new == [tx EXCEPT !.txid = next_tx_id + 1, !.participant = "START_MSG_SENT",
                             !.state = "START_SENT"]
           m == MsgStart(on_tick_of, coordinator, next_tx_id + 1)
<1>1. tx \in ClientTx /\ tx.state = "NOT_STARTED" /\ next_tx_id \in Nat /\ next_msg_id \in Nat
  BY DEF CInv, Types, SendStart, Starts
<1>2. Becomes(t, new)
  <2>1. [WithParticipant(tx) EXCEPT !.state = Progress(@)] = new
    BY <1>1 DEF WithParticipant, Progress, ClientTx
  <2> QED BY <2>1 DEF SendStart
<1>3. /\ new \in ClientTx /\ new.txid = next_tx_id + 1 /\ new.state = "START_SENT"
      /\ new.participant = "START_MSG_SENT"
      /\ new.requests = tx.requests /\ new.spec = tx.spec
      /\ new.next_put = tx.next_put /\ new.completed_puts = tx.completed_puts
  <2> DEFINE x == next_tx_id + 1
  <2>1. x \in Nat /\ new = [tx EXCEPT !.txid = x, !.participant = "START_MSG_SENT",
                                     !.state = "START_SENT"]
    BY <1>1
  <2> HIDE DEF tx, x, new
  <2>2. new.txid = x
    BY <1>1, <2>1 DEF ClientTx
  <2>3. /\ new \in ClientTx /\ new.state = "START_SENT"
        /\ new.participant = "START_MSG_SENT"
        /\ new.requests = tx.requests /\ new.spec = tx.spec
        /\ new.next_put = tx.next_put /\ new.completed_puts = tx.completed_puts
    BY <1>1, <2>1 DEF ClientTx, ClientTXState, TxParticipantState
  <2> QED BY <2>2, <2>3 DEF x
<1>4. RequestsAreSpec(tx) /\ CountIsRight(tx) /\ ClientLifeCycle(tx)
  BY DEF CInv
<1>5. Ticks(t) /\ on_tick_of \in Clients
  BY DEF SendStart, Starts, Ticks
<1>6. m \in ClientMessages /\ outbox' = Append(outbox, m) /\ m.txid = new.txid
  BY <1>1, <1>3, <1>5 DEF SendStart, MsgStart, ClientMessages
<1>7. /\ next_tx_id' = next_tx_id + 1 /\ next_msg_id' = next_msg_id
      /\ client_failure' \in BOOLEAN
  BY DEF SendStart, CInv, Types
<1> HIDE DEF tx, new, m
<1>8. RequestsAreSpec(new)
  BY <1>3, <1>4 DEF RequestsAreSpec
<1>9. CountIsRight(new)
  BY <1>3, <1>4 DEF CountIsRight, Completed
<1>10. ClientLifeCycle(new)
  BY <1>1, <1>3, <1>4 DEF ClientLifeCycle, UNDEFINED_TX_ID, Ended
<1>11. tx = client_transactions[t]
  BY DEF tx
<1> QED BY <1>1, <1>2, <1>3, <1>5, <1>6, <1>7, <1>8, <1>9, <1>10, <1>11, TickKeepsCInv

\* A transaction opens: its requests are still none.
LEMMA ReceiveStartAckStep ==
  ASSUME CInv, NEW t \in ClientTxs, ReceiveStartAck(t)
  PROVE  CInv'
<1> DEFINE tx == client_transactions[t]
           ack == LastOf(Replied(t, "MSG_START_ACK"))
           new == [tx EXCEPT !.participant = "TX_OPEN", !.read_ts = ack.read_ts,
                             !.state = "OPEN"]
<1>1. tx \in ClientTx /\ tx.state = "START_SENT"
  BY DEF CInv, Types, ReceiveStartAck
<1>2. Becomes(t, new)
  <2>1. [Opened(t) EXCEPT !.state = Progress(@)] = new
    BY <1>1 DEF Opened, Progress, ClientTx
  <2> QED BY <2>1 DEF ReceiveStartAck
<1>3. ack.read_ts \in Nat
  <2>1. Replied(t, "MSG_START_ACK") \in SUBSET DOMAIN received
        /\ \A i \in Replied(t, "MSG_START_ACK") : received[i].type = "MSG_START_ACK"
    BY DEF Replied, Mine
  <2>2. Replied(t, "MSG_START_ACK") # {}
    BY DEF ReceiveStartAck
  <2>3. ack \in Replies /\ ack.type = "MSG_START_ACK"
    BY <2>1, <2>2, LastOfSome DEF CInv, Types
  <2> QED BY <2>3, ReplyFields
<1> HIDE DEF ack
<1>4. /\ new \in ClientTx /\ new.txid = tx.txid /\ new.state = "OPEN"
      /\ new.participant = "TX_OPEN"
      /\ new.requests = tx.requests /\ new.spec = tx.spec
      /\ new.next_put = tx.next_put /\ new.completed_puts = tx.completed_puts
  BY <1>1, <1>3 DEF ClientTx, ClientTXState, TxParticipantState, Timestamps
<1>5. RequestsAreSpec(tx) /\ CountIsRight(tx) /\ ClientLifeCycle(tx)
  BY DEF CInv
<1>6. /\ Ticks(t) /\ outbox' = outbox
      /\ next_tx_id' \in Nat /\ next_tx_id <= next_tx_id'
      /\ next_msg_id' \in Nat /\ next_msg_id <= next_msg_id'
      /\ client_failure' \in BOOLEAN
  BY DEF ReceiveStartAck, NothingSent, CInv, Types
<1> HIDE DEF tx, new
<1>7. RequestsAreSpec(new)
  BY <1>4, <1>5 DEF RequestsAreSpec
<1>8. CountIsRight(new)
  BY <1>4, <1>5 DEF CountIsRight, Completed
<1>9. ClientLifeCycle(new)
  BY <1>1, <1>4, <1>5 DEF ClientLifeCycle, UNDEFINED_TX_ID, Ended
<1>10. tx = client_transactions[t]
  BY DEF tx
<1> QED BY <1>2, <1>4, <1>6, <1>7, <1>8, <1>9, <1>10, TickKeepsCInv

\* Verdicts leave what the invariant says of a transaction that awaits them.
LEMMA VerdictsKeep ==
  ASSUME Types, NEW tx \in ClientTx, tx.state = "COMMIT_SENT",
         RequestsAreSpec(tx), CountIsRight(tx), ClientLifeCycle(tx),
         NEW positions \in SUBSET DOMAIN received,
         NEW new, new = AfterVerdicts(tx, positions)
  PROVE  /\ new \in ClientTx
         /\ RequestsAreSpec(new) /\ CountIsRight(new) /\ ClientLifeCycle(new)
         /\ new.txid = tx.txid /\ new.requests = tx.requests
<1> DEFINE acks == Verdicts(positions, "MSG_COMMIT_ACK")
           rollbacks == Verdicts(positions, "MSG_ROLLED_BACK_BY_SERVER")
           state == IF positions = {} THEN tx.state
                    ELSE IF LastOf(positions).type = "MSG_COMMIT_ACK" THEN "COMMITTED"
                    ELSE "ROLLED_BACK_BY_SERVER"
           commit_ts == IF acks = {} THEN tx.commit_ts ELSE LastOf(acks).commit_ts
           conflict_txid == IF rollbacks = {} THEN tx.conflict_txid
                            ELSE LastOf(rollbacks).conflict_txid
<1>1. \A S \in SUBSET DOMAIN received : S # {} =>
        \E i \in S : LastOf(S) = received[i] /\ received[i] \in Replies
  BY LastOfSome DEF Types
<1>2. commit_ts \in Timestamps
  <2>1. CASE acks # {}
    <3>1. acks \in SUBSET DOMAIN received /\ \A i \in acks : received[i].type = "MSG_COMMIT_ACK"
      BY DEF Verdicts
    <3> QED BY <2>1, <3>1, <1>1, ReplyFields DEF Timestamps
  <2> QED BY <2>1 DEF ClientTx
<1>3. conflict_txid \in TxIDs \union {UNDEFINED_TX_ID}
  <2>1. CASE rollbacks # {}
    <3>1. /\ rollbacks \in SUBSET DOMAIN received
          /\ \A i \in rollbacks : received[i].type = "MSG_ROLLED_BACK_BY_SERVER"
      BY DEF Verdicts
    <3> QED BY <2>1, <3>1, <1>1, ReplyFields
  <2> QED BY <2>1 DEF ClientTx
<1>4. new = [tx EXCEPT !.state = state, !.commit_ts = commit_ts, !.conflict_txid = conflict_txid]
  BY DEF AfterVerdicts
<1>5. state \in {"COMMIT_SENT"} \union Ended
  BY DEF Ended
<1> HIDE DEF state, commit_ts, conflict_txid
<1>6. /\ new \in ClientTx /\ new.txid = tx.txid /\ new.state \in {"COMMIT_SENT"} \union Ended
      /\ new.participant = tx.participant
      /\ new.requests = tx.requests /\ new.spec = tx.spec
      /\ new.next_put = tx.next_put /\ new.completed_puts = tx.completed_puts
  BY <1>2, <1>3, <1>4, <1>5 DEF ClientTx, ClientTXState, Ended
<1>7. RequestsAreSpec(new)
  BY <1>6 DEF RequestsAreSpec
<1>8. CountIsRight(new)
  BY <1>6 DEF CountIsRight, Completed
<1>9. ClientLifeCycle(new)
  BY <1>6 DEF ClientLifeCycle, UNDEFINED_TX_ID, Ended
<1> QED BY <1>6, <1>7, <1>8, <1>9

\* So do the replies to puts, of which none is open.
LEMMA RepliesKeep ==
  ASSUME CInv, NEW t \in ClientTxs,
         NEW tx, tx = client_transactions[t], tx.state \in {"COMMIT_SENT"} \union Ended,
         NEW new, new = CompleteRequests(t)
  PROVE  /\ new \in ClientTx
         /\ RequestsAreSpec(new) /\ CountIsRight(new) /\ ClientLifeCycle(new)
         /\ new.txid = tx.txid /\ new.state = tx.state
         /\ DOMAIN new.requests = DOMAIN tx.requests
         /\ \A i \in DOMAIN tx.requests : new.requests[i].msg_id = tx.requests[i].msg_id
<1>1. Types /\ RequestsAreSpec(tx) /\ CountIsRight(tx) /\ ClientLifeCycle(tx)
  BY DEF CInv
<1>2. /\ new \in ClientTx
      /\ CountIsRight(new)
      /\ DOMAIN new.requests = DOMAIN tx.requests
      /\ Len(new.requests) = Len(tx.requests)
      /\ \A i \in DOMAIN tx.requests :
           /\ new.requests[i].key = tx.requests[i].key
           /\ new.requests[i].value = tx.requests[i].value
           /\ new.requests[i].msg_id = tx.requests[i].msg_id
      /\ new.spec = tx.spec /\ new.state = tx.state /\ new.txid = tx.txid
      /\ new.participant = tx.participant /\ new.next_put = tx.next_put
      /\ tx.completed_puts <= new.completed_puts
  BY <1>1, Completion
<1>3. RequestsAreSpec(new)
  BY <1>1, <1>2 DEF RequestsAreSpec
<1>4. ClientLifeCycle(new)
  <2>1. new.completed_puts <= Len(new.requests)
    BY <1>2, CompletedFinite DEF CountIsRight
  <2>2. tx.completed_puts = Len(tx.spec.puts) /\ Len(tx.requests) <= Len(tx.spec.puts)
    BY <1>1 DEF ClientLifeCycle, RequestsAreSpec
  <2>3. /\ new.completed_puts \in Nat /\ tx.completed_puts \in Nat
        /\ Len(tx.requests) \in Nat /\ Len(tx.spec.puts) \in Nat
    BY <1>1, <1>2, ClientTxFacts DEF ClientTx
  <2>4. new.completed_puts = Len(tx.spec.puts)
    BY <1>2, <2>1, <2>2, <2>3
  <2> QED BY <1>1, <1>2, <2>4 DEF ClientLifeCycle, Ended
<1> QED BY <1>2, <1>3, <1>4

\* A verdict only comes to a transaction whose puts are all completed.
LEMMA ReceiveVerdictStep ==
  ASSUME CInv, NEW t \in ClientTxs, ReceiveVerdict(t)
  PROVE  CInv'
<1>1. PICK tx : tx = client_transactions[t]
  OBVIOUS
<1>2. PICK new : new = AfterVerdicts(tx, Mine(t))
  OBVIOUS
<1>3. /\ Types /\ tx \in ClientTx /\ tx.state = "COMMIT_SENT" /\ Becomes(t, new)
      /\ RequestsAreSpec(tx) /\ CountIsRight(tx) /\ ClientLifeCycle(tx)
  BY <1>1, <1>2 DEF CInv, Types, ReceiveVerdict
<1>4. /\ Ticks(t) /\ outbox' = outbox
      /\ next_tx_id' \in Nat /\ next_tx_id <= next_tx_id'
      /\ next_msg_id' \in Nat /\ next_msg_id <= next_msg_id'
      /\ client_failure' \in BOOLEAN
  BY <1>3 DEF ReceiveVerdict, NothingSent, Types
<1>5. Mine(t) \in SUBSET DOMAIN received
  BY DEF Mine
<1>6. /\ new \in ClientTx
      /\ RequestsAreSpec(new) /\ CountIsRight(new) /\ ClientLifeCycle(new)
      /\ new.txid = tx.txid /\ new.requests = tx.requests
  BY <1>2, <1>3, <1>5, VerdictsKeep
<1> QED BY <1>1, <1>3, <1>4, <1>6, TickKeepsCInv

\* So do the verdicts it takes before it throws.
LEMMA ReplyAfterCommitStep ==
  ASSUME CInv, NEW t \in ClientTxs, ReplyAfterCommit(t)
  PROVE  CInv'
<1>1. PICK tx : tx = client_transactions[t]
  OBVIOUS
<1>2. PICK replied : replied = CompleteRequests(t)
  OBVIOUS
<1>3. PICK new : new = AfterVerdicts(replied, VerdictsFirst(t))
  OBVIOUS
<1>4. Types /\ tx.state = "COMMIT_SENT" /\ Becomes(t, new)
  BY <1>1, <1>2, <1>3 DEF CInv, ReplyAfterCommit
<1>5. /\ Ticks(t) /\ outbox' = outbox
      /\ next_tx_id' \in Nat /\ next_tx_id <= next_tx_id'
      /\ next_msg_id' \in Nat /\ next_msg_id <= next_msg_id'
      /\ client_failure' \in BOOLEAN
  BY <1>4 DEF ReplyAfterCommit, Types
<1>6. VerdictsFirst(t) \in SUBSET DOMAIN received
  BY DEF VerdictsFirst, Mine
<1>7. /\ replied \in ClientTx
      /\ RequestsAreSpec(replied) /\ CountIsRight(replied) /\ ClientLifeCycle(replied)
      /\ replied.txid = tx.txid /\ replied.state = "COMMIT_SENT"
      /\ DOMAIN replied.requests = DOMAIN tx.requests
      /\ \A i \in DOMAIN tx.requests : replied.requests[i].msg_id = tx.requests[i].msg_id
  BY <1>1, <1>2, <1>4, RepliesKeep
<1>8. /\ new \in ClientTx
      /\ RequestsAreSpec(new) /\ CountIsRight(new) /\ ClientLifeCycle(new)
      /\ new.txid = replied.txid /\ new.requests = replied.requests
  BY <1>3, <1>4, <1>6, <1>7, VerdictsKeep
<1> QED BY <1>1, <1>4, <1>5, <1>7, <1>8, TickKeepsCInv

\* An ended transaction takes no more puts.
LEMMA TickEndedStep ==
  ASSUME CInv, NEW t \in ClientTxs, TickEnded(t)
  PROVE  CInv'
<1>1. PICK tx : tx = client_transactions[t]
  OBVIOUS
<1>2. PICK new : new = CompleteRequests(t)
  OBVIOUS
<1>3. Types /\ tx.state \in Ended /\ Becomes(t, new)
  BY <1>1, <1>2 DEF CInv, TickEnded
<1>4. /\ Ticks(t) /\ outbox' = outbox
      /\ next_tx_id' \in Nat /\ next_tx_id <= next_tx_id'
      /\ next_msg_id' \in Nat /\ next_msg_id <= next_msg_id'
      /\ client_failure' \in BOOLEAN
  BY <1>3 DEF TickEnded, NothingSent, Types
<1>5. /\ new \in ClientTx
      /\ RequestsAreSpec(new) /\ CountIsRight(new) /\ ClientLifeCycle(new)
      /\ new.txid = tx.txid
      /\ DOMAIN new.requests = DOMAIN tx.requests
      /\ \A i \in DOMAIN tx.requests : new.requests[i].msg_id = tx.requests[i].msg_id
  BY <1>1, <1>2, <1>3, RepliesKeep
<1> QED BY <1>1, <1>3, <1>4, <1>5, TickKeepsCInv

\* A put that is started is the next one of the spec, and not yet answered.
LEMMA AddedPut ==
  ASSUME NEW tx \in ClientTx, RequestsAreSpec(tx), CountIsRight(tx), CanPut(tx),
         next_msg_id \in Nat, NEW new, new = AddPut(tx)
  PROVE  /\ new \in ClientTx
         /\ RequestsAreSpec(new)
         /\ CountIsRight(new)
         /\ new.completed_puts = tx.completed_puts
         /\ tx.completed_puts < Len(tx.spec.puts)
         /\ new.next_put = tx.next_put + 1
         /\ DOMAIN new.requests = DOMAIN tx.requests \union {Len(tx.requests) + 1}
         /\ \A i \in DOMAIN tx.requests : new.requests[i] = tx.requests[i]
         /\ LET r == new.requests[Len(tx.requests) + 1]
            IN  /\ r.status = "REQUEST_START" /\ r.msg_id = next_msg_id + 1
                /\ r.key = tx.spec.puts[new.next_put].key
                /\ r.value = tx.spec.puts[new.next_put].value
         /\ new.conflict_txid = tx.conflict_txid
         /\ new.read_ts = tx.read_ts /\ new.commit_ts = tx.commit_ts
         /\ new.spec = tx.spec /\ new.state = tx.state /\ new.txid = tx.txid
         /\ new.participant = tx.participant
         /\ tx.spec.puts[new.next_put].key \in Keys
         /\ tx.spec.puts[new.next_put].value \in Values
<1> DEFINE n == tx.next_put
           put == tx.spec.puts[n + 1]
           r == [status |-> "REQUEST_START", key |-> put.key, value |-> put.value,
                 msg_id |-> next_msg_id + 1]
           requests == Append(tx.requests, r)
<1>1. tx.spec \in TxSpec
  BY TxSpecsAssumption DEF ClientTx
<1>2. tx.spec.puts \in Seq(ClientTxPut)
  BY <1>1 DEF TxSpec
<1>3. /\ n \in Nat /\ Len(tx.spec.puts) \in Nat /\ tx.requests \in Seq(Request)
      /\ tx.completed_puts \in Nat /\ n < Len(tx.spec.puts) /\ Len(tx.requests) = n
      /\ DOMAIN tx.requests = 1..n
  BY <1>2 DEF ClientTx, CanPut, RequestsAreSpec
<1>4. put \in ClientTxPut
  BY <1>2, <1>3
<1>5. put.key \in Keys /\ put.value \in Values
  BY <1>4 DEF ClientTxPut
<1>6. r \in Request /\ r.msg_id = next_msg_id + 1 /\ r.status = "REQUEST_START"
      /\ r.key = put.key /\ r.value = put.value
  BY <1>5 DEF Request
<1>7. new = [tx EXCEPT !.next_put = n + 1, !.requests = requests]
  BY DEF AddPut, ClientTx
<1> HIDE DEF r, put
<1>8. /\ requests \in Seq(Request) /\ Len(requests) = n + 1
      /\ DOMAIN requests = 1..(n + 1)
      /\ \A i \in 1..n : requests[i] = tx.requests[i]
      /\ requests[n + 1] = r
  BY <1>3, <1>6
<1> HIDE DEF requests
<1>9. n + 1 \in Nat
  BY <1>3
<1>10. /\ new \in ClientTx /\ new.requests = requests
       /\ new.conflict_txid = tx.conflict_txid
       /\ new.read_ts = tx.read_ts /\ new.commit_ts = tx.commit_ts
       /\ new.next_put = n + 1 /\ new.completed_puts = tx.completed_puts
       /\ new.spec = tx.spec /\ new.state = tx.state /\ new.txid = tx.txid
       /\ new.participant = tx.participant
  <2> DEFINE k == n + 1
  <2> HIDE DEF k
  <2> QED BY <1>7, <1>8, <1>9 DEF ClientTx, k
<1>11. RequestsAreSpec(new)
  <2>1. \A i \in 1..n : /\ tx.requests[i].key = tx.spec.puts[i].key
                        /\ tx.requests[i].value = tx.spec.puts[i].value
    BY <1>3 DEF RequestsAreSpec
  <2>2. requests[n + 1].key = tx.spec.puts[n + 1].key
        /\ requests[n + 1].value = tx.spec.puts[n + 1].value
    BY <1>6, <1>8 DEF put
  <2>3. \A i \in 1..(n + 1) : /\ requests[i].key = tx.spec.puts[i].key
                              /\ requests[i].value = tx.spec.puts[i].value
    <3> TAKE i \in 1..(n + 1)
    <3>1. CASE i \in 1..n
      BY <3>1, <1>8, <2>1
    <3>2. CASE i = n + 1
      BY <3>2, <2>2
    <3> QED BY <3>1, <3>2, <1>3
  <2>4. n + 1 <= Len(tx.spec.puts)
    BY <1>3
  <2> QED BY <1>8, <1>10, <2>3, <2>4 DEF RequestsAreSpec
<1>12. Completed(new) = Completed(tx)
  <2>1. /\ DOMAIN new.requests = DOMAIN tx.requests \union {n + 1}
        /\ \A i \in DOMAIN tx.requests : new.requests[i] = tx.requests[i]
    BY <1>3, <1>8, <1>10
  <2>2. new.requests[n + 1].status = "REQUEST_START"
    BY <1>6, <1>8, <1>10
  <2> QED BY <2>1, <2>2 DEF Completed
<1>13. CountIsRight(new)
  BY <1>10, <1>12 DEF CountIsRight
<1>14. tx.completed_puts <= n
  BY <1>3, CompletedFinite DEF CountIsRight
<1>15. tx.completed_puts < Len(tx.spec.puts)
  BY <1>3, <1>14
<1>16. DOMAIN requests = 1..n \union {n + 1}
  BY <1>3, <1>8
<1> QED BY <1>3, <1>5, <1>6, <1>8, <1>10, <1>11, <1>13, <1>15, <1>16 DEF put

\* An open transaction completes a put, then sends one more or the commit.
LEMMA TickOpenStep ==
  ASSUME CInv, NEW t \in ClientTxs, TickOpen(t)
  PROVE  CInv'
<1> DEFINE tx == client_transactions[t]
           acked == CompleteRequests(t)
           added == IF CanPut(acked) THEN AddPut(acked) ELSE acked
           done  == IF CanCommit(added) THEN [added EXCEPT !.state = Progress(@)] ELSE added
           commits == IF CanCommit(added)
                      THEN <<MsgCommit(on_tick_of, coordinator, added.txid)>> ELSE <<>>
           puts == IF CanPut(acked) THEN <<PutMsg(added)>> ELSE <<>>
<1>1. Types /\ RequestsAreSpec(tx) /\ CountIsRight(tx) /\ ClientLifeCycle(tx)
  BY DEF CInv
<1>2. /\ tx.state = "OPEN" /\ Ticks(t) /\ Becomes(t, done)
      /\ outbox' = outbox \o commits \o puts
      /\ next_msg_id' = IF CanPut(acked) THEN next_msg_id + 1 ELSE next_msg_id
      /\ next_tx_id' = next_tx_id /\ client_failure' = client_failure
  BY DEF TickOpen
<1>3. /\ next_tx_id \in Nat /\ next_msg_id \in Nat /\ client_failure \in BOOLEAN
      /\ outbox \in Seq(ClientMessages) /\ tx \in ClientTx
  BY <1>1 DEF Types
<1>4. on_tick_of \in Clients
  BY <1>2 DEF Ticks
<1>5. tx.txid \in Nat
  BY <1>1, <1>2, <1>3 DEF ClientLifeCycle, ClientTx
<1> HIDE DEF tx, acked
<1>6. tx = client_transactions[t] /\ acked = CompleteRequests(t)
  BY DEF tx, acked
<1>7. /\ acked \in ClientTx
      /\ CountIsRight(acked)
      /\ DOMAIN acked.requests = DOMAIN tx.requests
      /\ Len(acked.requests) = Len(tx.requests)
      /\ \A i \in DOMAIN tx.requests :
           /\ acked.requests[i].key = tx.requests[i].key
           /\ acked.requests[i].value = tx.requests[i].value
           /\ acked.requests[i].msg_id = tx.requests[i].msg_id
      /\ acked.spec = tx.spec /\ acked.state = tx.state /\ acked.txid = tx.txid
      /\ acked.participant = tx.participant /\ acked.next_put = tx.next_put
  BY <1>1, <1>6, Completion
<1>8. RequestsAreSpec(acked)
  BY <1>1, <1>7 DEF RequestsAreSpec
<1>9. ClientLifeCycle(acked)
  BY <1>1, <1>2, <1>7 DEF ClientLifeCycle, Ended
<1>10. /\ next_tx_id' \in Nat /\ next_tx_id <= next_tx_id'
       /\ client_failure' \in BOOLEAN
  BY <1>2, <1>3
<1>11. acked.txid = client_transactions[t].txid
  BY <1>6, <1>7
<1>12. \A i \in DOMAIN acked.requests :
         /\ i \in DOMAIN client_transactions[t].requests
         /\ acked.requests[i].msg_id = client_transactions[t].requests[i].msg_id
  BY <1>6, <1>7
<1>13. CASE CanPut(acked)
  <2> DEFINE new == AddPut(acked)
  <2>1. added = new
    BY <1>13
  <2> HIDE DEF new
  <2>2. new = AddPut(acked)
    BY DEF new
  <2>3. /\ new \in ClientTx
        /\ RequestsAreSpec(new)
        /\ CountIsRight(new)
        /\ new.completed_puts = acked.completed_puts
        /\ acked.completed_puts < Len(acked.spec.puts)
        /\ DOMAIN new.requests = DOMAIN acked.requests \union {Len(acked.requests) + 1}
        /\ \A i \in DOMAIN acked.requests : new.requests[i] = acked.requests[i]
        /\ new.requests[Len(acked.requests) + 1].msg_id = next_msg_id + 1
        /\ new.spec = acked.spec /\ new.state = acked.state /\ new.txid = acked.txid
        /\ new.participant = acked.participant
        /\ acked.spec.puts[new.next_put].key \in Keys
        /\ acked.spec.puts[new.next_put].value \in Values
    <3>1. /\ acked \in ClientTx /\ RequestsAreSpec(acked) /\ CountIsRight(acked)
          /\ CanPut(acked) /\ next_msg_id \in Nat
      BY <1>3, <1>7, <1>8, <1>13
    <3>2. /\ new \in ClientTx /\ RequestsAreSpec(new) /\ CountIsRight(new)
          /\ new.completed_puts = acked.completed_puts
          /\ acked.completed_puts < Len(acked.spec.puts)
      BY <2>2, <3>1, AddedPut
    <3>3. /\ DOMAIN new.requests = DOMAIN acked.requests \union {Len(acked.requests) + 1}
          /\ \A i \in DOMAIN acked.requests : new.requests[i] = acked.requests[i]
          /\ new.requests[Len(acked.requests) + 1].msg_id = next_msg_id + 1
      BY <2>2, <3>1, AddedPut
    <3>4. /\ new.spec = acked.spec /\ new.state = acked.state /\ new.txid = acked.txid
          /\ new.participant = acked.participant
          /\ acked.spec.puts[new.next_put].key \in Keys
          /\ acked.spec.puts[new.next_put].value \in Values
      BY <2>2, <3>1, AddedPut
    <3> QED BY <3>2, <3>3, <3>4
  <2>4. acked.completed_puts \in Nat /\ Len(acked.spec.puts) \in Nat
    BY <1>6, <1>7, <1>1, ClientTxFacts DEF ClientTx
  <2>5. ~CanCommit(new)
    BY <2>3, <2>4 DEF CanCommit
  <2>6. Becomes(t, new)
    BY <1>2, <2>1, <2>5
  <2>7. ClientLifeCycle(new)
    BY <1>1, <1>2, <1>7, <2>3 DEF ClientLifeCycle, Ended
  <2>8. outbox' = Append(outbox, PutMsg(new))
    BY <1>2, <1>3, <1>13, <2>1, <2>5
  <2>9. PutMsg(new) \in ClientMessages /\ PutMsg(new).txid = new.txid
    BY <1>3, <1>4, <1>5, <1>7, <2>3 DEF PutMsg, MsgPut, ClientMessages
  <2>10. \A i \in DOMAIN new.requests :
            \/ /\ i \in DOMAIN client_transactions[t].requests
               /\ new.requests[i].msg_id = client_transactions[t].requests[i].msg_id
            \/ /\ i = Len(client_transactions[t].requests) + 1
               /\ new.requests[i].msg_id = next_msg_id + 1
               /\ next_msg_id' = next_msg_id + 1
    BY <1>2, <1>6, <1>7, <1>13, <2>3
  <2>11. next_msg_id' = next_msg_id + 1
    BY <1>2, <1>13
  <2>12. next_msg_id' \in Nat /\ next_msg_id <= next_msg_id'
    BY <1>3, <2>11
  <2>13. new.txid = client_transactions[t].txid
    BY <1>6, <1>7, <2>3
  <2> QED BY <1>2, <1>10, <2>3, <2>6, <2>7, <2>8, <2>9, <2>10, <2>12, <2>13, TickKeepsCInv
<1>14. CASE ~CanPut(acked) /\ CanCommit(acked)
  <2> DEFINE new == [acked EXCEPT !.state = "COMMIT_SENT"]
             m == MsgCommit(on_tick_of, coordinator, acked.txid)
  <2>1. added = acked
    BY <1>14
  <2>2. done = new
    BY <1>2, <1>7, <1>14, <2>1 DEF Progress
  <2>3. /\ new \in ClientTx /\ new.state = "COMMIT_SENT" /\ new.requests = acked.requests
        /\ new.next_put = acked.next_put /\ new.completed_puts = acked.completed_puts
        /\ new.spec = acked.spec /\ new.txid = acked.txid
        /\ new.participant = acked.participant
    BY <1>7 DEF ClientTx, ClientTXState
  <2>4. outbox' = Append(outbox, m)
    BY <1>2, <1>3, <1>14, <2>1
  <2>5. m \in ClientMessages /\ m.txid = acked.txid
    BY <1>4, <1>5, <1>7 DEF MsgCommit, ClientMessages
  <2>6. Becomes(t, new)
    BY <1>2, <2>2
  <2> HIDE DEF new, m
  <2>7. RequestsAreSpec(new)
    BY <1>8, <2>3 DEF RequestsAreSpec
  <2>8. CountIsRight(new)
    BY <1>7, <2>3 DEF CountIsRight, Completed
  <2>9. ClientLifeCycle(new)
    BY <1>2, <1>7, <1>9, <1>14, <2>3 DEF ClientLifeCycle, CanCommit, Ended
  <2>10. next_msg_id' \in Nat /\ next_msg_id <= next_msg_id'
    BY <1>2, <1>3, <1>14
  <2> QED BY <1>2, <1>10, <1>11, <1>12, <2>3, <2>4, <2>5, <2>6, <2>7, <2>8, <2>9, <2>10,
             TickKeepsCInv
<1>15. CASE ~CanPut(acked) /\ ~CanCommit(acked)
  <2>1. done = acked
    BY <1>15
  <2>2. outbox' = outbox /\ next_msg_id' = next_msg_id
    BY <1>2, <1>3, <1>15
  <2>3. Becomes(t, acked)
    BY <1>2, <2>1
  <2>4. next_msg_id' \in Nat /\ next_msg_id <= next_msg_id'
    BY <1>3, <2>2
  <2> QED BY <1>2, <1>7, <1>8, <1>9, <1>10, <1>11, <1>12, <2>2, <2>3, <2>4, TickKeepsCInv
<1> QED BY <1>13, <1>14, <1>15

-----------------------------------------------------------------------------
(* The invariant. *)

\* The invariant holds before the first tick.
LEMMA ClientInitCInv == Init => CInv
<1> SUFFICES ASSUME Init PROVE CInv
  OBVIOUS
<1>1. PICK specs \in [ClientTxs -> TxSpecs] :
        client_transactions = [t \in ClientTxs |-> NewClientTx(specs[t])]
  BY DEF Init
<1>2. \A t \in ClientTxs :
        LET tx == client_transactions[t]
        IN  /\ tx \in ClientTx /\ tx.state = "NOT_STARTED" /\ tx.txid = UNDEFINED_TX_ID
            /\ tx.participant = "NONE" /\ tx.requests = <<>>
            /\ tx.next_put = 0 /\ tx.completed_puts = 0
            /\ tx.spec \in TxSpecs
  BY <1>1 DEF NewClientTx, ClientTx, ClientTXState, TxParticipantState, Timestamps
<1>3. Types
  <2>1. client_transactions \in [ClientTxs -> ClientTx]
    BY <1>1, <1>2
  <2>2. received \in Seq(Replies) /\ outbox \in Seq(ClientMessages)
    BY DEF Init
  <2>3. 1 \in Nat \ {0} /\ 0 \in Nat /\ FALSE \in BOOLEAN
    OBVIOUS
  <2>4. /\ clock = 0 /\ on_tick_of = NoClient /\ next_tx = 1
        /\ next_tx_id = 0 /\ next_msg_id = 0 /\ client_failure = FALSE
    BY DEF Init
  <2> QED BY <2>1, <2>2, <2>3, <2>4 DEF Types
<1>4. ASSUME NEW t \in ClientTxs
      PROVE  /\ RequestsAreSpec(client_transactions[t])
             /\ CountIsRight(client_transactions[t])
             /\ ClientLifeCycle(client_transactions[t])
  <2> DEFINE tx == client_transactions[t]
  <2>1. Len(tx.spec.puts) \in Nat
    BY <1>3, ClientTxFacts
  <2>2. Completed(tx) = {}
    BY <1>2 DEF Completed
  <2>3. CountIsRight(tx)
    BY <1>2, <2>2, FS_EmptySet DEF CountIsRight
  <2>4. RequestsAreSpec(tx) /\ ClientLifeCycle(tx)
    BY <1>2, <2>1 DEF RequestsAreSpec, ClientLifeCycle, Ended
  <2> QED BY <2>3, <2>4
<1>5. IdsUnique
  BY <1>2 DEF IdsUnique
<1>6. OutboxOfTicked /\ OneMessagePerTick
  BY DEF Init, OutboxOfTicked, OneMessagePerTick
<1> QED BY <1>3, <1>4, <1>5, <1>6 DEF CInv

\* on_tick is called: nothing of it has happened yet.
LEMMA OnTickStep ==
  ASSUME CInv, NEW c \in Clients, NEW msgs \in Seq(Replies), OnTick(c, msgs)
  PROVE  CInv'
<1> USE DEF CInv
<1>1. Types'
  BY DEF OnTick, Types, ClientMessages, coordinator
<1>2. \A t \in ClientTxs : /\ RequestsAreSpec(client_transactions'[t])
                           /\ CountIsRight(client_transactions'[t])
                           /\ ClientLifeCycle(client_transactions'[t])
  BY DEF OnTick
<1>3. IdsUnique'
  BY DEF OnTick, IdsUnique
<1>4. outbox' = <<>> /\ on_tick_of' = c
  BY DEF OnTick, OutboxOfTicked
<1>5. OutboxOfTicked' /\ OneMessagePerTick'
  BY <1>4, UndefinedActorIsNoClient DEF OutboxOfTicked, OneMessagePerTick
<1> QED BY <1>1, <1>2, <1>3, <1>5

\* on_tick returns what it has collected.
LEMMA SendStep ==
  ASSUME CInv, Send
  PROVE  CInv'
<1> USE DEF CInv
<1>1. Types'
  BY DEF Send, Types, ClientMessages, coordinator
<1>2. \A t \in ClientTxs : /\ RequestsAreSpec(client_transactions'[t])
                           /\ CountIsRight(client_transactions'[t])
                           /\ ClientLifeCycle(client_transactions'[t])
  BY DEF Send
<1>3. IdsUnique'
  BY DEF Send, IdsUnique
<1>4. OutboxOfTicked' /\ OneMessagePerTick'
  BY DEF Send, OutboxOfTicked, OneMessagePerTick
<1> QED BY <1>1, <1>2, <1>3, <1>4

\* Every tick of a transaction keeps the invariant ...
LEMMA ClientStepCInv ==
  ASSUME CInv, ClientStep
  PROVE  CInv'
BY WaitStep, SendStartStep, ReceiveStartAckStep, TickOpenStep, ReceiveVerdictStep,
   ReplyAfterCommitStep, TickEndedStep DEF ClientStep

\* Other actors move the clock only.
LEMMA OthersRun ==
  ASSUME CInv, clock' \in Nat, UNCHANGED clientVars
  PROVE  CInv'
<1> USE DEF clientVars, CInv
<1>1. Types'
  BY DEF Types, ClientMessages, coordinator
<1>2. \A t \in ClientTxs : /\ RequestsAreSpec(client_transactions'[t])
                           /\ CountIsRight(client_transactions'[t])
                           /\ ClientLifeCycle(client_transactions'[t])
  OBVIOUS
<1>3. IdsUnique' /\ OutboxOfTicked' /\ OneMessagePerTick'
  BY DEF IdsUnique, OutboxOfTicked, OneMessagePerTick
<1> QED BY <1>1, <1>2, <1>3

\* ... and so does everything a client does.
LEMMA ClientNextCInv == CInv /\ [Next]_vars => CInv'
<1> SUFFICES ASSUME CInv, [Next]_vars PROVE CInv'
  OBVIOUS
<1>1. ASSUME NEW c \in Clients, NEW msgs \in ReplyBatches, OnTick(c, msgs) PROVE CInv'
  BY <1>1, OnTickStep, ReplyBatchesAssumption
<1>2. CASE ClientStep
  BY <1>2, ClientStepCInv
<1>3. CASE Send
  BY <1>3, SendStep
<1>4. CASE UNCHANGED vars
  <2>1. clock \in Nat
    BY DEF CInv, Types
  <2> QED BY <1>4, <2>1, OthersRun DEF vars
<1> QED BY <1>1, <1>2, <1>3, <1>4 DEF Next

\* The inductive invariant of the clients.
THEOREM Invariance == Spec => []CInv
BY ClientInitCInv, ClientNextCInv, PTL DEF Spec

\* ClientTypeOK: whatever the clients are answered, their counters stay within
\* what their specs hold.
THEOREM TypeCorrect == Spec => []ClientTypeOK
<1>1. CInv => ClientTypeOK
  <2> SUFFICES ASSUME CInv PROVE ClientTypeOK
    OBVIOUS
  <2>1. ASSUME NEW t \in ClientTxs
        PROVE  LET tx == client_transactions[t]
               IN  /\ tx.state \in ClientTXState
                   /\ tx.participant \in TxParticipantState
                   /\ tx.txid \in (1..next_tx_id) \union {UNDEFINED_TX_ID}
                   /\ tx.read_ts \in Timestamps /\ tx.commit_ts \in Timestamps
                   /\ Len(tx.requests) = tx.next_put
                   /\ tx.next_put \in 0..Len(tx.spec.puts)
                   /\ tx.completed_puts \in 0..tx.next_put
    <3> DEFINE tx == client_transactions[t]
    <3>1. Types /\ RequestsAreSpec(tx) /\ CountIsRight(tx) /\ IdsUnique
      BY DEF CInv
    <3>2. tx \in ClientTx /\ tx.next_put \in Nat /\ tx.completed_puts \in Nat
          /\ Len(tx.spec.puts) \in Nat
      BY <3>1, ClientTxFacts
    <3>3. tx.completed_puts <= Len(tx.requests)
      BY <3>1, <3>2, CompletedFinite DEF CountIsRight
    <3>4. tx.next_put \in 0..Len(tx.spec.puts) /\ tx.completed_puts \in 0..tx.next_put
      BY <3>1, <3>2, <3>3 DEF RequestsAreSpec
    <3>5. tx.txid \in (1..next_tx_id) \union {UNDEFINED_TX_ID}
      BY <3>1 DEF IdsUnique
    <3> QED BY <3>1, <3>2, <3>4, <3>5 DEF ClientTx, RequestsAreSpec
  <2> QED BY <2>1 DEF CInv, Types, ClientTypeOK
<1> QED BY <1>1, Invariance, PTL

\* CommitAfterEveryPut: a MSG_COMMIT is sent, and an end reached, only when
\* every put of the spec has been sent and answered, though CanCommit looks at
\* nothing but a counter.
THEOREM CommitsAreComplete == Spec => []CommitAfterEveryPut
<1>1. CInv => CommitAfterEveryPut
  <2> SUFFICES ASSUME CInv, NEW t \in ClientTxs,
                      client_transactions[t].state \in {"COMMIT_SENT"} \union Ended
               PROVE  LET tx == client_transactions[t]
                      IN  /\ Len(tx.requests) = Len(tx.spec.puts)
                          /\ \A i \in DOMAIN tx.requests :
                               /\ tx.requests[i].status = "REQUEST_COMPLETED"
                               /\ tx.requests[i].key = tx.spec.puts[i].key
                               /\ tx.requests[i].value = tx.spec.puts[i].value
    BY DEF CommitAfterEveryPut
  <2> DEFINE tx == client_transactions[t]
  <2>1. Types /\ RequestsAreSpec(tx) /\ CountIsRight(tx) /\ ClientLifeCycle(tx)
    BY DEF CInv
  <2>2. tx \in ClientTx /\ Len(tx.spec.puts) \in Nat /\ Len(tx.requests) \in Nat
    BY <2>1, ClientTxFacts
  <2>3. Cardinality(Completed(tx)) = Len(tx.spec.puts)
    BY <2>1 DEF ClientLifeCycle, CountIsRight
  <2>4. Len(tx.requests) <= Len(tx.spec.puts)
    BY <2>1 DEF RequestsAreSpec
  <2>5. /\ Cardinality(Completed(tx)) <= Len(tx.requests)
        /\ Cardinality(Completed(tx)) = Len(tx.requests) => Completed(tx) = DOMAIN tx.requests
    BY <2>2, CompletedFinite
  <2>6. Len(tx.requests) = Len(tx.spec.puts) /\ Completed(tx) = DOMAIN tx.requests
    BY <2>2, <2>3, <2>4, <2>5
  <2> QED BY <2>1, <2>6 DEF Completed, RequestsAreSpec
<1> QED BY <1>1, Invariance, PTL

\* OneMessagePerTick: no transaction schedules two messages in a tick, so the
\* heap of the runtime cannot let a commit overtake a put.
THEOREM SendsOneMessage == Spec => []OneMessagePerTick
<1>1. CInv => OneMessagePerTick
  BY DEF CInv
<1> QED BY <1>1, Invariance, PTL

-----------------------------------------------------------------------------
(* The loop over the verdicts of a transaction.                            *)

\* The transaction with another end.
EndedAs(tx, state, commit_ts, conflict_txid) ==
    [tx EXCEPT !.state = state, !.commit_ts = commit_ts, !.conflict_txid = conflict_txid]

\* Ends overwrite one another.
LEMMA EndsOverwrite ==
  ASSUME NEW tx \in ClientTx, NEW state, NEW commit_ts, NEW conflict_txid, NEW msg
  PROVE  /\ EndedAs(tx, tx.state, tx.commit_ts, tx.conflict_txid) = tx
         /\ AfterVerdict(EndedAs(tx, state, commit_ts, conflict_txid), msg) =
              IF msg.type = "MSG_COMMIT_ACK"
              THEN EndedAs(tx, Progress(state), msg.commit_ts, conflict_txid)
              ELSE EndedAs(tx, "ROLLED_BACK_BY_SERVER", commit_ts, msg.conflict_txid)
BY DEF ClientTx, EndedAs, AfterVerdict

\* The transaction after those of its verdicts that are among the first n
\* messages.
VerdictsUpTo(t, n) ==
    LET tx        == client_transactions[t]
        mine      == Mine(t) \cap (1..n)
        acks      == Verdicts(Mine(t), "MSG_COMMIT_ACK") \cap (1..n)
        rollbacks == Verdicts(Mine(t), "MSG_ROLLED_BACK_BY_SERVER") \cap (1..n)
    IN  EndedAs(tx,
          IF mine = {} THEN tx.state
          ELSE IF LastOf(mine).type = "MSG_COMMIT_ACK" THEN "COMMITTED"
          ELSE "ROLLED_BACK_BY_SERVER",
          IF acks = {} THEN tx.commit_ts ELSE LastOf(acks).commit_ts,
          IF rollbacks = {} THEN tx.conflict_txid ELSE LastOf(rollbacks).conflict_txid)

\* The positions up to the next message end with it, if it is among them.
LEMMA OneMorePosition ==
  ASSUME NEW n \in Nat, NEW S, NEW m \in Nat, m = n + 1
  PROVE  /\ m \notin S => S \cap (1..m) = S \cap (1..n)
         /\ m \in S => S \cap (1..m) # {} /\ LastOf(S \cap (1..m)) = received[m]
<1>1. CASE m \in S
  <2> DEFINE P == S \cap (1..m)
  <2>1. m \in P /\ P \in SUBSET (1..m)
    BY <1>1
  <2>2. Max(P) \in P /\ \A i \in P : i <= Max(P)
    <3> HIDE DEF P
    <3> QED BY <2>1, LastPosition
  <2>3. Max(P) = m
    BY <2>1, <2>2
  <2> QED BY <1>1, <2>1, <2>3 DEF LastOf
<1>2. CASE m \notin S
  BY <1>2
<1> QED BY <1>1, <1>2

\* One more message.
LEMMA OneMoreVerdict ==
  ASSUME Types, NEW t \in ClientTxs, client_transactions[t].state = "COMMIT_SENT",
         \A i \in Mine(t) : received[i].type \in VerdictTypes,
         NEW n \in 0..(Len(received) - 1), NEW m, m = n + 1
  PROVE  VerdictsUpTo(t, m) = IF m \in Mine(t) THEN AfterVerdict(VerdictsUpTo(t, n), received[m])
                              ELSE VerdictsUpTo(t, n)
<1> DEFINE tx == client_transactions[t]
           Acks == Verdicts(Mine(t), "MSG_COMMIT_ACK")
           Rollbacks == Verdicts(Mine(t), "MSG_ROLLED_BACK_BY_SERVER")
           state(k) == IF Mine(t) \cap (1..k) = {} THEN tx.state
                       ELSE IF LastOf(Mine(t) \cap (1..k)).type = "MSG_COMMIT_ACK"
                       THEN "COMMITTED" ELSE "ROLLED_BACK_BY_SERVER"
           commit_ts(k) == IF Acks \cap (1..k) = {} THEN tx.commit_ts
                           ELSE LastOf(Acks \cap (1..k)).commit_ts
           conflict_txid(k) == IF Rollbacks \cap (1..k) = {} THEN tx.conflict_txid
                               ELSE LastOf(Rollbacks \cap (1..k)).conflict_txid
<1>1. \A k : VerdictsUpTo(t, k) = EndedAs(tx, state(k), commit_ts(k), conflict_txid(k))
  BY DEF VerdictsUpTo
<1>2. n \in Nat /\ m \in Nat /\ tx \in ClientTx /\ tx.state = "COMMIT_SENT"
  BY DEF Types
<1>3. \A S : /\ m \notin S => S \cap (1..m) = S \cap (1..n)
             /\ m \in S => S \cap (1..m) # {} /\ LastOf(S \cap (1..m)) = received[m]
  BY <1>2, OneMorePosition
<1>4. CASE m \notin Mine(t)
  <2>1. m \notin Acks /\ m \notin Rollbacks
    BY <1>4 DEF Verdicts
  <2>2. state(m) = state(n) /\ commit_ts(m) = commit_ts(n) /\ conflict_txid(m) = conflict_txid(n)
    BY <1>3, <1>4, <2>1
  <2> HIDE DEF state, commit_ts, conflict_txid
  <2> QED BY <1>1, <1>4, <2>2
<1>5. CASE m \in Mine(t) /\ received[m].type = "MSG_COMMIT_ACK"
  <2>1. m \in Acks /\ m \notin Rollbacks
    BY <1>5 DEF Verdicts
  <2>2. /\ state(m) = "COMMITTED" /\ commit_ts(m) = received[m].commit_ts
        /\ conflict_txid(m) = conflict_txid(n)
    BY <1>3, <1>5, <2>1
  <2>3. Progress(state(n)) = "COMMITTED"
    <3>1. state(n) \in {"COMMIT_SENT", "COMMITTED", "ROLLED_BACK_BY_SERVER"}
      BY <1>2
    <3> HIDE DEF state
    <3> QED BY <3>1 DEF Progress
  <2> HIDE DEF state, commit_ts, conflict_txid, tx
  <2>4. AfterVerdict(VerdictsUpTo(t, n), received[m])
          = EndedAs(tx, Progress(state(n)), received[m].commit_ts, conflict_txid(n))
    BY <1>1, <1>2, <1>5, EndsOverwrite
  <2> QED BY <1>1, <1>5, <2>2, <2>3, <2>4
<1>6. CASE m \in Mine(t) /\ received[m].type = "MSG_ROLLED_BACK_BY_SERVER"
  <2>1. m \notin Acks /\ m \in Rollbacks
    BY <1>6 DEF Verdicts
  <2>2. /\ state(m) = "ROLLED_BACK_BY_SERVER" /\ commit_ts(m) = commit_ts(n)
        /\ conflict_txid(m) = received[m].conflict_txid
    BY <1>3, <1>6, <2>1
  <2> HIDE DEF state, commit_ts, conflict_txid, tx
  <2>3. AfterVerdict(VerdictsUpTo(t, n), received[m])
          = EndedAs(tx, "ROLLED_BACK_BY_SERVER", commit_ts(n), received[m].conflict_txid)
    BY <1>1, <1>2, <1>6, EndsOverwrite
  <2> QED BY <1>1, <1>6, <2>2, <2>3
<1> QED BY <1>4, <1>5, <1>6 DEF VerdictTypes

\* The verdicts of one tick, in any number and order, do to a transaction what
\* AfterVerdicts says.
LEMMA VerdictsAreLoop ==
  ASSUME Types, NEW t \in ClientTxs, client_transactions[t].state = "COMMIT_SENT",
         Mine(t) # {}, \A i \in Mine(t) : received[i].type \in VerdictTypes
  PROVE  AfterVerdicts(client_transactions[t], Mine(t)) = VerdictLoop(t)
<1> DEFINE n == Len(received)
           base == client_transactions[t]
           Txs == {VerdictsUpTo(t, i) : i \in 0..n}
           f == [i \in 0..n |-> VerdictsUpTo(t, i)]
           tx[i \in 0..n] ==
             IF i = 0 THEN base
             ELSE IF i \in Mine(t) THEN AfterVerdict(tx[i - 1], received[i]) ELSE tx[i - 1]
           T == {i \in 0..n : tx[i] = VerdictsUpTo(t, i)}
<1>1. n \in Nat /\ Mine(t) \subseteq 1..n /\ base \in ClientTx
  BY DEF Types, Mine
<1>2. VerdictsUpTo(t, 0) = base
  <2>1. VerdictsUpTo(t, 0) = EndedAs(base, base.state, base.commit_ts, base.conflict_txid)
    BY DEF VerdictsUpTo
  <2> QED BY <1>1, <2>1, EndsOverwrite
<1>3. ASSUME NEW i \in 1..n
      PROVE  VerdictsUpTo(t, i) =
               IF i \in Mine(t) THEN AfterVerdict(VerdictsUpTo(t, i - 1), received[i])
               ELSE VerdictsUpTo(t, i - 1)
  <2>1. i - 1 \in 0..(n - 1) /\ i = (i - 1) + 1
    BY <1>1
  <2> QED BY <2>1, OneMoreVerdict
<1>4. f = [i \in 0..n |->
             IF i = 0 THEN base
             ELSE IF i \in Mine(t) THEN AfterVerdict(f[i - 1], received[i]) ELSE f[i - 1]]
  <2>1. \A i \in 0..n : i # 0 => i \in 1..n /\ f[i - 1] = VerdictsUpTo(t, i - 1)
    BY <1>1
  <2> QED BY <1>2, <1>3, <2>1
<1> HIDE DEF f
<1>5. tx = [i \in 0..n |->
              IF i = 0 THEN base
              ELSE IF i \in Mine(t) THEN AfterVerdict(tx[i - 1], received[i]) ELSE tx[i - 1]]
  BY <1>4
<1>6. VerdictLoop(t) = tx[n]
  BY DEF VerdictLoop
<1> HIDE DEF tx
<1>7. 0 \in T
  BY <1>1, <1>2, <1>5
<1>8. ASSUME NEW i \in 0..(n - 1), i \in T
      PROVE  i + 1 \in T
  <2>1. i + 1 \in 0..n /\ i + 1 \in 1..n /\ i + 1 # 0 /\ (i + 1) - 1 = i
    BY <1>1
  <2>2. tx[i + 1] = IF i + 1 \in Mine(t) THEN AfterVerdict(tx[i], received[i + 1]) ELSE tx[i]
    BY <1>5, <2>1
  <2> QED BY <1>3, <1>8, <2>1, <2>2
<1>9. tx[n] = VerdictsUpTo(t, n)
  <2>1. 0..n \subseteq T
    <3> HIDE DEF T, n
    <3> QED BY <1>1, <1>7, <1>8, InductionUpTo
  <2> QED BY <1>1, <2>1
<1>10. VerdictsUpTo(t, n) = AfterVerdicts(base, Mine(t))
  <2>1. /\ Mine(t) \cap (1..n) = Mine(t)
        /\ \A type : Verdicts(Mine(t), type) \cap (1..n) = Verdicts(Mine(t), type)
    BY <1>1 DEF Verdicts
  <2> QED BY <2>1 DEF VerdictsUpTo, AfterVerdicts, EndedAs
<1> QED BY <1>6, <1>9, <1>10

\* VerdictsAgree: process_replies_commit_sent does what ReceiveVerdict says,
\* for any sequence of verdicts.
THEOREM VerdictsCompute == Spec => []VerdictsAgree
<1>1. CInv => VerdictsAgree
  BY VerdictsAreLoop DEF CInv, VerdictsAgree
<1> QED BY <1>1, Invariance, PTL
=============================================================================
