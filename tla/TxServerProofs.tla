--------------------------- MODULE TxServerProofs ---------------------------
(***************************************************************************)
(* Proofs about TxServer, for any transactions, keys, values and requests. *)
(*                                                                         *)
(* FirstCommitterWins is not inductive: a commit compares read_ts with the *)
(* last version of each key only.  That this is enough follows from what   *)
(* the history keeps true besides: versions come from committed            *)
(* transactions at their commit timestamps (StoreIsHistory), every key has *)
(* a last version (HasLast), no timestamp lies in the future and the       *)
(* current one belongs to the transaction being ticked (TimesPassed).      *)
(***************************************************************************)
EXTENDS TxServer, Recursion, TLAPS

\* Every message still to be handled names a transaction.
BatchNamesTxs == \A i \in todo : batch[i].txid \in TxIDs

\* Which timestamps a transaction has in which state.
LifeCycle ==
    \A x \in TxIDs :
        /\ transactions[x].state = "NOT_STARTED"
           => transactions[x].read_ts = UNDEFINED_TS /\ transactions[x].puts = <<>>
        /\ transactions[x].state # "NOT_STARTED" => transactions[x].read_ts \in Nat
        /\ x \notin Committed \union RolledBack
           => transactions[x].commit_ts = UNDEFINED_TS
        /\ x \in Committed \union RolledBack
           => /\ transactions[x].commit_ts \in Nat
              /\ transactions[x].read_ts <= transactions[x].commit_ts

\* No timestamp is ahead of the clock, and the clock's own value belongs to
\* nobody but the transaction being ticked.
TimesPassed ==
    \A x \in TxIDs :
        /\ transactions[x].read_ts <= clock
        /\ transactions[x].commit_ts <= clock
        /\ cur \in TxIDs /\ x # cur
           => transactions[x].read_ts < clock /\ transactions[x].commit_ts < clock

\* Versions of a key are totally ordered up to a last one.
HasLast ==
    \A key \in Keys : data[key] # {} =>
        \E v \in data[key] : \A w \in data[key] : w.ts <= v.ts

\* The store is the history of the committed transactions, and only that.
StoreIsHistory ==
    \A key \in Keys : \A v \in data[key] :
        /\ v.txid \in Committed
        /\ v.ts = transactions[v.txid].commit_ts
        /\ \E i \in DOMAIN transactions[v.txid].puts :
             transactions[v.txid].puts[i] = [key |-> key, value |-> v.value]

\* No put of a committed transaction is missing from the store.
NothingLost ==
    \A x \in Committed : \A key \in PutKeys(transactions[x].puts) :
        \E v \in data[key] : v.txid = x

\* A transaction has one version of a key, and a timestamp one version.
OneVersionEach ==
    \A key \in Keys : \A v, w \in data[key] :
        v.txid = w.txid \/ v.ts = w.ts => v = w

\* What is true of transactions and store alone.
History ==
    /\ LifeCycle
    /\ UniqueTimestamps
    /\ HasLast
    /\ StoreIsHistory
    /\ NothingLost
    /\ OneVersionEach
    /\ FirstCommitterWins

IInv ==
    /\ TypeOK
    /\ BatchNamesTxs
    /\ TimesPassed
    /\ History
    /\ ConflictIsReal

-----------------------------------------------------------------------------
(* Lemmas about the operators of TxServer. *)

\* Of the puts of a key one is the first: the one Storage::apply keeps.
LEMMA FirstPutExists ==
  ASSUME NEW puts \in Seq(DataPut), NEW key \in PutKeys(puts)
  PROVE  \E i \in DOMAIN puts : i \in FirstPuts(puts, key)
<1> DEFINE S == {i \in DOMAIN puts : puts[i].key = key}
<1>1. S \subseteq Nat /\ S # {}
  BY DEF PutKeys
<1>2. PICK n \in S : \A m \in S : n <= m
  BY <1>1, LeastNatural
<1>3. \A j \in 1..(n-1) : puts[j].key # key
  BY <1>2
<1> QED BY <1>2, <1>3 DEF FirstPuts

\* Puts are puts of keys.
LEMMA PutKeysType ==
  ASSUME NEW puts \in Seq(DataPut)
  PROVE  PutKeys(puts) \subseteq Keys
<1>1. \A i \in DOMAIN puts : puts[i] \in DataPut
  OBVIOUS
<1>2. \A i \in DOMAIN puts : puts[i].key \in Keys
  BY <1>1 DEF DataPut
<1> QED BY <1>2 DEF PutKeys

\* A key has at most one first put.
LEMMA FirstPutUnique ==
  ASSUME NEW puts \in Seq(DataPut), NEW key,
         NEW i \in FirstPuts(puts, key), NEW j \in FirstPuts(puts, key)
  PROVE  i = j
  BY DEF FirstPuts

\* Storage::get_last returns the newest version of a key that has one.
LEMMA GetLastIsLast ==
  ASSUME HasLast, NEW key \in Keys, data[key] # {}
  PROVE  /\ GetLast(data[key]) \in data[key]
         /\ \A w \in data[key] : w.ts <= GetLast(data[key]).ts
  BY DEF HasLast, GetLast

\* Appending keeps what a sequence had and adds one element.
LEMMA AppendElements ==
  ASSUME NEW S, NEW s \in Seq(S), NEW e \in S
  PROVE  /\ Append(s, e) \in Seq(S)
         /\ \A i \in DOMAIN s : i \in DOMAIN Append(s, e) /\ Append(s, e)[i] = s[i]
         /\ \A i \in DOMAIN Append(s, e) :
              i \in DOMAIN s \/ Append(s, e)[i] = e
  OBVIOUS

\* The message a tick is at belongs to the transaction being ticked.
LEMMA HandledMessage ==
  ASSUME TypeOK, BatchNamesTxs, NEW i, Handles(i)
  PROVE  /\ cur \in TxIDs
         /\ batch[i] \in Requests
         /\ batch[i].type # "MSG_UNDEFINED"
         /\ batch[i].source \in Clients
         /\ batch[i].destination = Server
         /\ batch[i].type = "MSG_PUT" =>
              /\ batch[i].key \in Keys
              /\ batch[i].value \in Values
              /\ batch[i].msg_id \in MsgIDs
         /\ todo' \subseteq todo
         /\ UNCHANGED <<clock, active, batch, cur>>
<1>1. i \in todo /\ batch[i].txid = cur /\ cur \in TxIDs
  BY DEF Handles, BatchNamesTxs
<1>2. batch[i] \in Requests
  BY <1>1 DEF TypeOK
<1>3. batch[i].txid # UNDEFINED_TX_ID
  BY <1>1, UndefinedTxIsNoTx
<1> QED BY <1>1, <1>2, <1>3 DEF Handles, Requests, MsgUndefined

-----------------------------------------------------------------------------
(* Type correctness. *)

\* What the commit loop writes are versions.
LEMMA ApplyType ==
  ASSUME NEW x \in TxIDs, NEW ts \in Nat, NEW puts \in Seq(DataPut),
         data \in [Keys -> SUBSET Version]
  PROVE  Apply(x, ts, puts) \in [Keys -> SUBSET Version]
<1>1. \A i \in DOMAIN puts : puts[i] \in DataPut
  OBVIOUS
<1>2. \A key \in Keys : \A i \in FirstPuts(puts, key) : puts[i].value \in Values
  BY <1>1 DEF FirstPuts, DataPut
<1>3. \A key \in Keys : \A i \in FirstPuts(puts, key) :
        [ts |-> ts, txid |-> x, value |-> puts[i].value] \in Version
  BY <1>2 DEF Version
<1> QED BY <1>3 DEF Apply

\* The replies handlers schedule are well formed.
LEMMA ReplyType ==
  ASSUME NEW c \in Clients, NEW x \in TxIDs
  PROVE  /\ \A ts \in Nat : MsgStartAck(Server, c, x, ts) \in Replies
         /\ \A id \in MsgIDs : MsgPutReply(Server, c, x, id) \in Replies
         /\ \A ts \in Nat : MsgCommitAck(Server, c, x, ts) \in Replies
         /\ \A y \in TxIDs : MsgRolledBackByServer(Server, c, x, y) \in Replies
  BY DEF Replies, MsgStartAck, MsgPutReply, MsgCommitAck, MsgRolledBackByServer

\* The key of a put is the key it was made with.
LEMMA KeyOfPut ==
  ASSUME NEW put, NEW key, NEW value, put = [key |-> key, value |-> value]
  PROVE  put.key = key
  OBVIOUS

\* A transaction that is given a state and a timestamp is a ServerTX still.
LEMMA StampedTxs ==
  ASSUME transactions \in [TxIDs -> ServerTX], cur \in TxIDs,
         NEW state \in ServerTXState, NEW ts \in Timestamps
  PROVE  /\ [transactions EXCEPT ![cur].state = state, ![cur].read_ts = ts]
               \in [TxIDs -> ServerTX]
         /\ [transactions EXCEPT ![cur].state = state, ![cur].commit_ts = ts]
               \in [TxIDs -> ServerTX]
<1> DEFINE d == [transactions EXCEPT ![cur].state = state]
<1>1. d \in [TxIDs -> ServerTX]
  BY DEF ServerTX
<1>2. /\ [transactions EXCEPT ![cur].state = state, ![cur].read_ts = ts]
           = [d EXCEPT ![cur].read_ts = ts]
      /\ [transactions EXCEPT ![cur].state = state, ![cur].commit_ts = ts]
           = [d EXCEPT ![cur].commit_ts = ts]
  OBVIOUS
<1> HIDE DEF d
<1>3. /\ [d EXCEPT ![cur].read_ts = ts] \in [TxIDs -> ServerTX]
      /\ [d EXCEPT ![cur].commit_ts = ts] \in [TxIDs -> ServerTX]
  BY <1>1 DEF ServerTX
<1> QED BY <1>2, <1>3

\* No step leaves the types, and none makes a message of the batch anonymous.
LEMMA TypeStep ==
  ASSUME TypeOK, BatchNamesTxs, History, [Next]_vars
  PROVE  TypeOK' /\ BatchNamesTxs'
<1>1. ASSUME NEW msgs \in Batches, RejectBatch(msgs)
      PROVE  TypeOK' /\ BatchNamesTxs'
  BY <1>1 DEF TypeOK, BatchNamesTxs, RejectBatch
<1>2. ASSUME NEW msgs \in Batches, OnTick(msgs)
      PROVE  TypeOK' /\ BatchNamesTxs'
  <2>1. msgs \in Seq(Requests)
    BY BatchesAssumption
  <2>2. \A i \in DOMAIN msgs : msgs[i].txid \in TxIDs
    BY <1>2, <2>1 DEF OnTick, Requests, MsgUndefined
  <2> QED BY <1>2, <2>1, <2>2 DEF TypeOK, BatchNamesTxs, OnTick
<1>3. ASSUME NEW x \in TxIDs, BeginTx(x)
      PROVE  TypeOK' /\ BatchNamesTxs'
  BY <1>3 DEF TypeOK, BatchNamesTxs, BeginTx
<1>4. ASSUME NEW i \in todo, HandleMessage(i)
      PROVE  TypeOK' /\ BatchNamesTxs'
  <2> USE <1>4
  <2>1. Handles(i)
    BY DEF HandleMessage, Start, ReportUnexpectedMsg, Put, Commit, RollBack,
           Ignore, BrokenSwitch
  <2>2. /\ cur \in TxIDs
        /\ batch[i].source \in Clients
        /\ batch[i].destination = Server
        /\ todo' \subseteq todo
        /\ UNCHANGED <<clock, active, batch, cur>>
    BY <2>1, HandledMessage
  <2>3. tx \in ServerTX
    BY <2>2 DEF TypeOK, tx
  <2>4. BatchNamesTxs'
    BY <2>2 DEF BatchNamesTxs
  <2>5. /\ clock' \in Nat
        /\ active' \in BOOLEAN
        /\ batch' \in Seq(Requests)
        /\ todo' \subseteq DOMAIN batch'
        /\ cur' \in TxIDs \union {UNDEFINED_TX_ID}
    BY <2>2 DEF TypeOK
  <2>6. ASSUME Start(i) PROVE TypeOK'
    <3>1. transactions' \in [TxIDs -> ServerTX]
      BY <2>2, <2>6, StampedTxs DEF Start, TypeOK, ServerTXState, Timestamps
    <3>2. scheduled' \in Seq(Replies)
      BY <2>2, <2>6, ReplyType, AppendElements DEF Start, Schedule, TypeOK
    <3> QED BY <2>5, <2>6, <3>1, <3>2 DEF Start, TypeOK
  <2>7. ASSUME Put(i) PROVE TypeOK'
    <3>1. batch[i].key \in Keys /\ batch[i].value \in Values /\ batch[i].msg_id \in MsgIDs
      BY <2>1, <2>7, HandledMessage DEF Put
    <3>2. Append(tx.puts, [key |-> batch[i].key, value |-> batch[i].value])
            \in Seq(DataPut)
      BY <2>3, <3>1, AppendElements DEF ServerTX, DataPut
    <3>3. transactions' \in [TxIDs -> ServerTX]
      BY <2>2, <2>7, <3>2 DEF Put, TypeOK, ServerTX, tx
    <3>4. scheduled' \in Seq(Replies)
      BY <2>2, <2>7, <3>1, ReplyType, AppendElements DEF Put, Schedule, TypeOK
    <3> QED BY <2>5, <2>7, <3>3, <3>4 DEF Put, TypeOK
  <2>8. ASSUME Commit(i) PROVE TypeOK'
    <3>1. transactions' \in [TxIDs -> ServerTX]
      BY <2>2, <2>8, StampedTxs DEF Commit, TypeOK, ServerTXState, Timestamps
    <3>2. data' \in [Keys -> SUBSET Version]
      BY <2>2, <2>3, <2>8, ApplyType DEF Commit, TypeOK, ServerTX
    <3>3. scheduled' \in Seq(Replies)
      BY <2>2, <2>8, ReplyType, AppendElements DEF Commit, Schedule, TypeOK
    <3> QED BY <2>5, <2>8, <3>1, <3>2, <3>3 DEF Commit, TypeOK
  <2>9. ASSUME RollBack(i) PROVE TypeOK'
    <3>1. transactions' \in [TxIDs -> ServerTX]
      BY <2>2, <2>9, StampedTxs DEF RollBack, TypeOK, ServerTXState, Timestamps
    <3>2. PICK p \in Conflicts(tx.puts, tx.read_ts) :
            Schedule(MsgRolledBackByServer(batch[i].destination,
              batch[i].source, cur, GetLast(data[tx.puts[p].key]).txid))
      BY <2>9 DEF RollBack
    <3>3. tx.puts[p].key \in Keys /\ data[tx.puts[p].key] # {}
      <4>1. tx.puts \in Seq(DataPut)
        BY <2>3 DEF ServerTX
      <4>2. tx.puts[p] \in DataPut
        BY <4>1 DEF Conflicts
      <4> QED BY <4>2 DEF Conflicts, DataPut
    <3>4. GetLast(data[tx.puts[p].key]).txid \in TxIDs
      BY <3>3, GetLastIsLast DEF TypeOK, History, Version
    <3>5. scheduled' \in Seq(Replies)
      BY <2>2, <3>2, <3>4, ReplyType, AppendElements DEF Schedule, TypeOK
    <3> QED BY <2>5, <2>9, <3>1, <3>5 DEF RollBack, TypeOK
  <2>10. ASSUME ReportUnexpectedMsg(i) \/ Ignore(i) \/ BrokenSwitch(i) PROVE TypeOK'
    BY <2>5, <2>10 DEF ReportUnexpectedMsg, Ignore, BrokenSwitch, TypeOK
  <2> QED BY <2>4, <2>6, <2>7, <2>8, <2>9, <2>10 DEF HandleMessage
<1>5. CASE Send
  <2>1. batch' = <<>> /\ scheduled' = <<>> /\ todo' = {}
    BY <1>5 DEF Send
  <2>2. batch' \in Seq(Requests) /\ scheduled' \in Seq(Replies)
    BY <2>1
  <2> QED BY <1>5, <2>1, <2>2 DEF TypeOK, BatchNamesTxs, Send
<1>6. CASE ClockNext
  BY <1>6 DEF TypeOK, BatchNamesTxs, ClockNext, serverVars
<1>7. CASE UNCHANGED vars
  BY <1>7 DEF TypeOK, BatchNamesTxs, vars, serverVars
<1> QED BY <1>1, <1>2, <1>3, <1>4, <1>5, <1>6, <1>7 DEF Next, ServerStep

-----------------------------------------------------------------------------
(* The history: what each kind of step does to transactions and store. *)

\* What an action does to one transaction: the facts the proofs below use of
\* an EXCEPT on transactions[cur].
LEMMA OthersUntouched ==
  ASSUME TypeOK, cur \in TxIDs, tx.state \notin {"COMMITTED", "ROLLED_BACK_BY_SERVER"},
         \A x \in TxIDs \ {cur} : transactions'[x] = transactions[x]
  PROVE  /\ cur \notin Committed \union RolledBack
         /\ \A x \in Committed \union RolledBack : transactions'[x] = transactions[x]
         /\ Committed \subseteq Committed'
         /\ RolledBack \subseteq RolledBack'
         /\ \A x \in TxIDs \ {cur} : /\ x \in Committed' <=> x \in Committed
                                    /\ x \in RolledBack' <=> x \in RolledBack
  BY DEF Committed, RolledBack, tx

\* Steps that neither commit nor write keep everything that is said about the
\* committed transactions and their versions.
LEMMA CommittedUntouched ==
  ASSUME History, data' = data, Committed' = Committed,
         \A x \in Committed : transactions'[x] = transactions[x]
  PROVE  HasLast' /\ StoreIsHistory' /\ NothingLost' /\ OneVersionEach'
         /\ FirstCommitterWins'
<1>1. HasLast' /\ OneVersionEach'
  BY DEF History, HasLast, OneVersionEach
<1>2. StoreIsHistory'
  BY DEF History, StoreIsHistory
<1>3. NothingLost'
  BY DEF History, NothingLost
<1>4. FirstCommitterWins'
  BY DEF History, FirstCommitterWins
<1> QED BY <1>1, <1>2, <1>3, <1>4

\* Steps that change neither transactions nor store.
LEMMA QuietHistory ==
  ASSUME History, UNCHANGED <<transactions, data>>
  PROVE  History'
<1>1. Committed' = Committed /\ RolledBack' = RolledBack
  BY DEF Committed, RolledBack
<1>2. LifeCycle' /\ UniqueTimestamps'
  BY <1>1 DEF History, LifeCycle, UniqueTimestamps, EventTimes
<1> QED BY <1>1, <1>2, CommittedUntouched DEF History

\* A timestamp equal to the clock is new to every other transaction.
LEMMA FreshTimestamp ==
  ASSUME TypeOK, TimesPassed, cur \in TxIDs, NEW x \in TxIDs \ {cur}
  PROVE  clock \notin EventTimes(x)
  BY DEF TypeOK, TimesPassed, EventTimes, ServerTX, Timestamps, UNDEFINED_TS

\* Timestamps stay unique when the transaction being ticked takes the clock's.
LEMMA UniqueTimestampsKept ==
  ASSUME TypeOK, TimesPassed, UniqueTimestamps, cur \in TxIDs,
         \A x \in TxIDs \ {cur} : transactions'[x] = transactions[x],
         transactions'[cur].read_ts \in EventTimes(cur) \union {clock, UNDEFINED_TS},
         transactions'[cur].commit_ts \in EventTimes(cur) \union {clock, UNDEFINED_TS}
  PROVE  UniqueTimestamps'
<1> DEFINE Times(x) == {transactions'[x].read_ts, transactions'[x].commit_ts}
<1>1. Times(cur) \subseteq EventTimes(cur) \union {clock, UNDEFINED_TS}
  OBVIOUS
<1>2. \A x \in TxIDs \ {cur} : Times(x) = EventTimes(x) /\ clock \notin EventTimes(x)
  BY FreshTimestamp DEF EventTimes
<1>3. SUFFICES ASSUME NEW x \in TxIDs, NEW y \in TxIDs, x # y
               PROVE  Times(x) \intersect Times(y) \subseteq {UNDEFINED_TS}
  BY DEF UniqueTimestamps, EventTimes
<1>4. EventTimes(x) \intersect EventTimes(y) \subseteq {UNDEFINED_TS}
  BY <1>3 DEF UniqueTimestamps
<1> HIDE DEF Times
<1>5. CASE x = cur
  BY <1>1, <1>2, <1>3, <1>4, <1>5
<1>6. CASE y = cur
  BY <1>1, <1>2, <1>3, <1>4, <1>6
<1>7. CASE x # cur /\ y # cur
  BY <1>2, <1>3, <1>4, <1>7
<1> QED BY <1>5, <1>6, <1>7

\* Who has ended, seen through the transaction being ticked and the others.
LEMMA EndedAfter ==
  ASSUME cur \in TxIDs,
         \A x \in TxIDs \ {cur} : transactions'[x] = transactions[x]
  PROVE  /\ \A x : x # cur => (x \in Committed' <=> x \in Committed)
         /\ \A x : x # cur => (x \in RolledBack' <=> x \in RolledBack)
         /\ cur \in Committed' <=> transactions'[cur].state = "COMMITTED"
         /\ cur \in RolledBack' <=> transactions'[cur].state = "ROLLED_BACK_BY_SERVER"
         /\ cur \in Committed <=> tx.state = "COMMITTED"
         /\ cur \in RolledBack <=> tx.state = "ROLLED_BACK_BY_SERVER"
<1>1. /\ \A x : x \in Committed' <=> x \in TxIDs /\ transactions'[x].state = "COMMITTED"
      /\ \A x : x \in RolledBack' <=> x \in TxIDs /\ transactions'[x].state = "ROLLED_BACK_BY_SERVER"
  BY DEF Committed, RolledBack
<1>2. /\ \A x : x \in Committed <=> x \in TxIDs /\ transactions[x].state = "COMMITTED"
      /\ \A x : x \in RolledBack <=> x \in TxIDs /\ transactions[x].state = "ROLLED_BACK_BY_SERVER"
  BY DEF Committed, RolledBack
<1>3. \A x : x \in TxIDs /\ x # cur => transactions'[x].state = transactions[x].state
  OBVIOUS
<1> QED BY <1>1, <1>2, <1>3 DEF tx

\* MSG_START opens a transaction whose snapshot is the present.
LEMMA StartHistory ==
  ASSUME TypeOK, BatchNamesTxs, TimesPassed, History, NEW i, Start(i)
  PROVE  History'
<1>1. cur \in TxIDs
  BY HandledMessage DEF Start
<1>2. /\ tx.state = "NOT_STARTED"
      /\ \A x \in TxIDs \ {cur} : transactions'[x] = transactions[x]
      /\ transactions'[cur] = [tx EXCEPT !.state = "OPEN", !.read_ts = clock]
      /\ data' = data
  BY <1>1 DEF Start, TypeOK, tx
<1>3. tx \in ServerTX /\ clock \in Nat
  BY <1>1 DEF TypeOK, tx
<1>4. /\ transactions'[cur].state = "OPEN"
      /\ transactions'[cur].read_ts = clock
      /\ transactions'[cur].commit_ts = tx.commit_ts
  BY <1>2, <1>3 DEF ServerTX
<1>5. Committed' = Committed /\ RolledBack' = RolledBack /\ cur \notin Committed \union RolledBack
  BY <1>1, <1>2, <1>4, EndedAfter
<1>6. \A x \in Committed : transactions'[x] = transactions[x]
  BY <1>2, <1>5 DEF Committed
<1>7. LifeCycle'
  <2>1. cur \notin Committed' /\ cur \notin RolledBack'
    BY <1>5
  <2>2. /\ transactions'[cur].state \notin {"COMMITTED", "ROLLED_BACK_BY_SERVER", "NOT_STARTED"}
        /\ transactions'[cur].read_ts \in Nat
    BY <1>3, <1>4
  <2>3. transactions'[cur].commit_ts = UNDEFINED_TS
    <3>1. \A x \in TxIDs \ (Committed \union RolledBack) : transactions[x].commit_ts = UNDEFINED_TS
      BY DEF History, LifeCycle
    <3> QED BY <1>1, <1>4, <1>5, <3>1 DEF tx
  <2> QED BY <1>1, <1>2, <1>5, <2>1, <2>2, <2>3 DEF History, LifeCycle
<1>8. UniqueTimestamps'
  BY <1>1, <1>2, <1>4, UniqueTimestampsKept DEF History, EventTimes, tx
<1> QED BY <1>2, <1>5, <1>6, <1>7, <1>8, CommittedUntouched DEF History

\* A put only adds to an open transaction.
LEMMA PutHistory ==
  ASSUME TypeOK, BatchNamesTxs, TimesPassed, History, NEW i, Put(i)
  PROVE  History'
<1>1. cur \in TxIDs
  BY HandledMessage DEF Put
<1>2. /\ tx.state = "OPEN"
      /\ \A x \in TxIDs \ {cur} : transactions'[x] = transactions[x]
      /\ data' = data
  BY <1>1 DEF Put, TypeOK, tx
<1>3. /\ transactions'[cur].state = "OPEN"
      /\ transactions'[cur].read_ts = tx.read_ts
      /\ transactions'[cur].commit_ts = tx.commit_ts
  BY <1>1, <1>2 DEF Put, TypeOK, ServerTX, tx
<1>4. Committed' = Committed /\ RolledBack' = RolledBack /\ cur \notin Committed \union RolledBack
  BY <1>1, <1>2, <1>3, EndedAfter
<1>5. \A x \in Committed : transactions'[x] = transactions[x]
  BY <1>2, <1>4 DEF Committed
<1>6. LifeCycle'
  BY <1>1, <1>2, <1>3, <1>4 DEF History, LifeCycle, tx
<1>7. UniqueTimestamps'
  BY <1>1, <1>2, <1>3, UniqueTimestampsKept DEF History, EventTimes, tx
<1> QED BY <1>2, <1>4, <1>5, <1>6, <1>7, CommittedUntouched DEF History

\* A rollback ends a transaction and leaves the store alone.
LEMMA RollBackHistory ==
  ASSUME TypeOK, BatchNamesTxs, TimesPassed, History, NEW i, RollBack(i)
  PROVE  History'
<1>1. cur \in TxIDs
  BY HandledMessage DEF RollBack
<1>2. /\ tx.state = "OPEN"
      /\ \A x \in TxIDs \ {cur} : transactions'[x] = transactions[x]
      /\ data' = data
  BY <1>1 DEF RollBack, TypeOK, tx
<1>3. /\ transactions'[cur].state = "ROLLED_BACK_BY_SERVER"
      /\ transactions'[cur].read_ts = tx.read_ts
      /\ transactions'[cur].commit_ts = clock
  BY <1>1, <1>2 DEF RollBack, TypeOK, ServerTX, tx
<1>4. /\ Committed' = Committed
      /\ cur \in RolledBack'
      /\ cur \notin Committed
      /\ \A x \in TxIDs \ {cur} : x \in RolledBack' <=> x \in RolledBack
  BY <1>1, <1>2, <1>3, EndedAfter
<1>5. \A x \in Committed : transactions'[x] = transactions[x]
  BY <1>2, <1>4 DEF Committed
<1>6. tx.read_ts \in Nat /\ tx.read_ts <= clock /\ clock \in Nat
  BY <1>1, <1>2 DEF History, LifeCycle, TimesPassed, TypeOK, tx
<1>7. LifeCycle'
  BY <1>1, <1>2, <1>3, <1>4, <1>6 DEF History, LifeCycle, tx
<1>8. UniqueTimestamps'
  BY <1>1, <1>2, <1>3, UniqueTimestampsKept DEF History, EventTimes, tx
<1> QED BY <1>2, <1>4, <1>5, <1>7, <1>8, CommittedUntouched DEF History

\* The versions of a key after a commit: those before, all of them older, and
\* at most one of the committing transaction.
LEMMA NewVersions ==
  ASSUME TypeOK, BatchNamesTxs, TimesPassed, History, NEW i, Commit(i), NEW key \in Keys
  PROVE  /\ \A v \in data[key] : v.ts < clock /\ v.txid # cur
         /\ data'[key] = data[key] \union
              {[ts |-> clock, txid |-> cur, value |-> tx.puts[p].value] :
                 p \in FirstPuts(tx.puts, key)}
<1>1. cur \in TxIDs /\ tx.state = "OPEN"
  BY HandledMessage DEF Commit
<1>2. ASSUME NEW v \in data[key]
      PROVE  v.ts < clock /\ v.txid # cur
  <2>1. v.txid \in Committed /\ v.ts = transactions[v.txid].commit_ts
    BY DEF History, StoreIsHistory
  <2>2. v.txid \in TxIDs /\ v.txid # cur
    BY <1>1, <2>1 DEF Committed, tx
  <2> QED BY <1>1, <2>1, <2>2 DEF TimesPassed
<1>3. ~ \E v \in data[key] : v.ts = clock
  BY <1>2 DEF TypeOK, Version
<1> QED BY <1>2, <1>3 DEF Commit, Apply

\* A commit adds itself to the history, after everything it conflicts with.
LEMMA CommitHistory ==
  ASSUME TypeOK, BatchNamesTxs, TimesPassed, History, NEW i, Commit(i)
  PROVE  History'
<1>1. cur \in TxIDs
  BY HandledMessage DEF Commit
<1>2. /\ tx.state = "OPEN"
      /\ \A x \in TxIDs \ {cur} : transactions'[x] = transactions[x]
      /\ Conflicts(tx.puts, tx.read_ts) = {}
  BY <1>1 DEF Commit, TypeOK, tx
<1>3. /\ transactions'[cur].state = "COMMITTED"
      /\ transactions'[cur].read_ts = tx.read_ts
      /\ transactions'[cur].commit_ts = clock
      /\ transactions'[cur].puts = tx.puts
  BY <1>1 DEF Commit, TypeOK, ServerTX, tx
<1>4. /\ Committed' = Committed \union {cur}
      /\ RolledBack' = RolledBack
      /\ cur \notin Committed \union RolledBack
  BY <1>1, <1>2, <1>3, EndedAfter
<1>5. \A x \in Committed : x \in TxIDs \ {cur} /\ transactions'[x] = transactions[x]
  BY <1>2, <1>4 DEF Committed
<1>6. /\ tx.read_ts \in Nat /\ tx.read_ts <= clock /\ clock \in Nat
      /\ tx.puts \in Seq(DataPut)
  BY <1>1, <1>2 DEF History, LifeCycle, TimesPassed, TypeOK, ServerTX, tx
<1>7. LifeCycle'
  BY <1>1, <1>2, <1>3, <1>4, <1>6 DEF History, LifeCycle, tx
<1>8. UniqueTimestamps'
  BY <1>1, <1>2, <1>3, UniqueTimestampsKept DEF History, EventTimes, tx
<1> DEFINE New(key) == {[ts |-> clock, txid |-> cur, value |-> tx.puts[p].value] :
                          p \in FirstPuts(tx.puts, key)}
<1>9. \A key \in Keys : /\ \A v \in data[key] : v.ts < clock /\ v.txid # cur
                        /\ data'[key] = data[key] \union New(key)
  BY NewVersions
<1>10. \A key \in Keys : \A v \in New(key) :
         /\ v.ts = clock /\ v.txid = cur
         /\ \E p \in DOMAIN tx.puts : tx.puts[p] = [key |-> key, value |-> v.value]
  <2>1. \A p \in DOMAIN tx.puts : tx.puts[p] \in DataPut
    BY <1>6
  <2>2. \A key \in Keys : \A p \in FirstPuts(tx.puts, key) :
          tx.puts[p] = [key |-> key, value |-> tx.puts[p].value]
    BY <2>1 DEF FirstPuts, DataPut
  <2> QED BY <2>2 DEF FirstPuts
<1>11. \A key \in Keys : \A v, w \in New(key) : v = w
  BY <1>6, FirstPutUnique
<1>12. \A key \in PutKeys(tx.puts) : key \in Keys /\ \E v \in New(key) : TRUE
  BY <1>6, PutKeysType, FirstPutExists
<1> HIDE DEF New
<1>13. \A key \in Keys : \A v \in data[key] : v.ts \in Nat /\ v.ts < clock /\ v.txid # cur
  BY <1>9 DEF TypeOK, Version
<1>14. \A key \in Keys : \A v : v \in data'[key] <=> v \in data[key] \/ v \in New(key)
  BY <1>9
<1>15. \A key \in Keys : \A v \in New(key) : v.ts = clock /\ v.txid = cur
  BY <1>10
<1>16. HasLast'
  <2>1. SUFFICES ASSUME NEW key \in Keys, data'[key] # {}
                 PROVE  \E v \in data'[key] : \A w \in data'[key] : w.ts <= v.ts
    BY DEF HasLast
  <2>2. CASE New(key) = {}
    BY <1>9, <2>1, <2>2 DEF History, HasLast
  <2>3. CASE New(key) # {}
    <3>1. PICK v \in New(key) : v.ts = clock
      BY <1>10, <2>3
    <3>2. \A w \in data'[key] : w.ts <= v.ts
      BY <1>6, <1>13, <1>14, <1>15, <3>1
    <3> QED BY <1>9, <3>1, <3>2
  <2> QED BY <2>2, <2>3
<1>17. StoreIsHistory'
  <2>1. SUFFICES ASSUME NEW key \in Keys, NEW v \in data'[key]
                 PROVE  /\ v.txid \in Committed'
                        /\ v.ts = transactions'[v.txid].commit_ts
                        /\ \E p \in DOMAIN transactions'[v.txid].puts :
                             transactions'[v.txid].puts[p]
                               = [key |-> key, value |-> v.value]
    BY DEF StoreIsHistory
  <2>2. CASE v \in data[key]
    BY <1>4, <1>5, <2>2 DEF History, StoreIsHistory
  <2>3. CASE v \in New(key)
    BY <1>3, <1>4, <1>10, <2>3
  <2> QED BY <1>9, <2>2, <2>3
<1>18. NothingLost'
  <2>1. SUFFICES ASSUME NEW x \in Committed', NEW key \in PutKeys(transactions'[x].puts)
                 PROVE  \E v \in data'[key] : v.txid = x
    BY DEF NothingLost
  <2>2. CASE x = cur
    BY <1>3, <1>12, <1>14, <1>15, <2>1, <2>2
  <2>3. CASE x \in Committed
    <3>1. PICK v \in data[key] : v.txid = x
      BY <1>5, <2>1, <2>3 DEF History, NothingLost
    <3>2. transactions[x].puts \in Seq(DataPut) /\ key \in PutKeys(transactions[x].puts)
      BY <1>5, <2>1, <2>3 DEF TypeOK, ServerTX
    <3>3. key \in Keys
      BY <3>2, PutKeysType
    <3> QED BY <1>14, <3>1, <3>3
  <2> QED BY <1>4, <2>2, <2>3
<1>19. OneVersionEach'
  <2>1. SUFFICES ASSUME NEW key \in Keys, NEW v \in data'[key], NEW w \in data'[key],
                        v.txid = w.txid \/ v.ts = w.ts
                 PROVE  v = w
    BY DEF OneVersionEach
  <2>2. CASE v \in data[key] /\ w \in data[key]
    BY <2>1, <2>2 DEF History, OneVersionEach
  <2>3. CASE v \in New(key) /\ w \in New(key)
    BY <1>11, <2>3
  <2>4. CASE v \in data[key] /\ w \in New(key)
    BY <1>6, <1>13, <1>15, <2>1, <2>4
  <2>5. CASE v \in New(key) /\ w \in data[key]
    BY <1>6, <1>13, <1>15, <2>1, <2>5
  <2> QED BY <1>9, <2>2, <2>3, <2>4, <2>5
<1>20. ASSUME NEW y \in Committed,
              PutKeys(tx.puts) \intersect PutKeys(transactions[y].puts) # {}
       PROVE  transactions[y].commit_ts < tx.read_ts
  <2>1. PICK key \in PutKeys(tx.puts) : key \in PutKeys(transactions[y].puts)
    BY <1>20
  <2>2. PICK p \in DOMAIN tx.puts : tx.puts[p].key = key
    BY DEF PutKeys
  <2>3. key \in Keys
    BY <1>12
  <2>4. PICK v \in data[key] : v.txid = y
    BY <2>1 DEF History, NothingLost
  <2>5. v.ts = transactions[y].commit_ts
    BY <2>3, <2>4 DEF History, StoreIsHistory
  <2>6. ~(GetLast(data[key]).ts > tx.read_ts)
    BY <1>2, <2>2, <2>4 DEF Conflicts
  <2>7. /\ GetLast(data[key]) \in data[key]
        /\ v.ts <= GetLast(data[key]).ts
    BY <2>3, <2>4, GetLastIsLast DEF History
  <2>8. v.ts <= tx.read_ts
    BY <1>6, <1>13, <2>3, <2>4, <2>6, <2>7
  <2>9. y \in TxIDs /\ y # cur /\ transactions[y].commit_ts \in Nat
    BY <1>5 DEF History, LifeCycle
  <2>10. transactions[y].commit_ts # tx.read_ts
    <3>1. EventTimes(y) \intersect EventTimes(cur) \subseteq {UNDEFINED_TS}
      BY <1>1, <2>9 DEF History, UniqueTimestamps
    <3>2. tx.read_ts \in EventTimes(cur) /\ transactions[y].commit_ts \in EventTimes(y)
      BY DEF EventTimes, tx
    <3>3. tx.read_ts # UNDEFINED_TS
      BY <1>6 DEF UNDEFINED_TS
    <3> QED BY <3>1, <3>2, <3>3
  <2> QED BY <1>6, <2>5, <2>8, <2>9, <2>10
<1>21. FirstCommitterWins'
  <2>1. SUFFICES ASSUME NEW x \in Committed', NEW y \in Committed', x # y,
                        PutKeys(transactions'[x].puts)
                          \intersect PutKeys(transactions'[y].puts) # {}
                 PROVE  \/ transactions'[x].commit_ts < transactions'[y].read_ts
                        \/ transactions'[y].commit_ts < transactions'[x].read_ts
    BY DEF FirstCommitterWins
  <2>2. CASE x \in Committed /\ y \in Committed
    BY <1>5, <2>1, <2>2 DEF History, FirstCommitterWins
  <2>3. CASE x = cur /\ y \in Committed
    BY <1>3, <1>5, <1>20, <2>1, <2>3
  <2>4. CASE y = cur /\ x \in Committed
    BY <1>3, <1>5, <1>20, <2>1, <2>4
  <2> QED BY <1>4, <2>1, <2>2, <2>3, <2>4
<1> QED BY <1>7, <1>8, <1>16, <1>17, <1>18, <1>19, <1>21 DEF History

-----------------------------------------------------------------------------
(* The other parts of the invariant. *)

\* Time only passes: a tick takes a timestamp nobody has yet.
LEMMA TimesPassedStep ==
  ASSUME TypeOK, BatchNamesTxs, TimesPassed, [Next]_vars
  PROVE  TimesPassed'
<1>1. \A x \in TxIDs : /\ transactions[x].read_ts \in Timestamps
                       /\ transactions[x].commit_ts \in Timestamps
  BY DEF TypeOK, ServerTX
<1>2. clock \in Nat
  BY DEF TypeOK
<1>3. ASSUME UNCHANGED <<clock, transactions, cur>>
      PROVE  TimesPassed'
  BY <1>3 DEF TimesPassed
<1>4. ASSUME NEW x \in TxIDs, BeginTx(x)
      PROVE  TimesPassed'
  BY <1>1, <1>2, <1>4 DEF TimesPassed, BeginTx, Timestamps, UNDEFINED_TS
<1>5. ASSUME NEW i \in todo, HandleMessage(i)
      PROVE  TimesPassed'
  <2>1. Handles(i)
    BY <1>5 DEF HandleMessage, Start, ReportUnexpectedMsg, Put, Commit, RollBack,
                Ignore, BrokenSwitch
  <2>2. cur \in TxIDs /\ UNCHANGED <<clock, cur>>
    BY <2>1, HandledMessage
  <2>3. CASE Start(i) \/ Put(i) \/ Commit(i) \/ RollBack(i)
    <3>1. \A x \in TxIDs \ {cur} : transactions'[x] = transactions[x]
      BY <2>3 DEF TypeOK, Start, Put, Commit, RollBack
    <3>2. /\ transactions'[cur].read_ts \in {transactions[cur].read_ts, clock}
          /\ transactions'[cur].commit_ts \in {transactions[cur].commit_ts, clock}
      BY <2>2, <2>3 DEF TypeOK, ServerTX, Start, Put, Commit, RollBack
    <3> QED BY <1>2, <2>2, <3>1, <3>2 DEF TimesPassed
  <2>4. CASE ReportUnexpectedMsg(i) \/ Ignore(i) \/ BrokenSwitch(i)
    BY <1>3, <2>2, <2>4 DEF ReportUnexpectedMsg, Ignore, BrokenSwitch
  <2> QED BY <1>5, <2>3, <2>4 DEF HandleMessage
<1>6. CASE Send
  BY <1>6, UndefinedTxIsNoTx DEF TimesPassed, Send
<1>7. CASE ClockNext
  BY <1>1, <1>2, <1>7 DEF TimesPassed, ClockNext, serverVars, Timestamps, UNDEFINED_TS
<1>8. ASSUME NEW msgs \in Batches, RejectBatch(msgs) \/ OnTick(msgs)
      PROVE  TimesPassed'
  BY <1>3, <1>8 DEF RejectBatch, OnTick
<1>9. CASE UNCHANGED vars
  BY <1>3, <1>9 DEF vars, serverVars
<1> QED BY <1>4, <1>5, <1>6, <1>7, <1>8, <1>9 DEF Next, ServerStep

\* A verdict that was justified stays so while ended transactions stay as they
\* are; a reply that is no verdict changes nothing.
LEMMA ConflictKept ==
  ASSUME TypeOK, ConflictIsReal,
         \A x \in Committed \union RolledBack : transactions'[x] = transactions[x],
         \A i \in DOMAIN scheduled' :
           \/ i \in DOMAIN scheduled /\ scheduled'[i] = scheduled[i]
           \/ scheduled'[i].type # "MSG_ROLLED_BACK_BY_SERVER"
           \/ \A m : m = scheduled'[i] => Justified(m)'
  PROVE  ConflictIsReal'
<1>1. ASSUME NEW m, NEW i \in DOMAIN scheduled, m = scheduled[i],
             m.type = "MSG_ROLLED_BACK_BY_SERVER"
      PROVE  Justified(m)'
  <2>1. m \in Replies /\ Justified(m)
    BY <1>1 DEF TypeOK, ConflictIsReal
  <2>2. m.txid \in TxIDs /\ m.conflict_txid \in TxIDs
    BY <1>1, <2>1 DEF Replies
  <2>3. m.txid \in RolledBack /\ m.conflict_txid \in Committed
    BY <2>1, <2>2 DEF Justified, Committed, RolledBack
  <2>4. /\ transactions'[m.txid] = transactions[m.txid]
        /\ transactions'[m.conflict_txid] = transactions[m.conflict_txid]
    BY <2>3
  <2> QED BY <2>1, <2>4 DEF Justified
<1> QED BY <1>1 DEF ConflictIsReal, Justified

\* The verdict of RollBack itself is justified: the last version it names is
\* newer than the snapshot and older than the commit request.
LEMMA VerdictIsReal ==
  ASSUME TypeOK, BatchNamesTxs, TimesPassed, History, NEW i, RollBack(i),
         NEW msg, NEW p \in Conflicts(tx.puts, tx.read_ts),
         msg = MsgRolledBackByServer(batch[i].destination, batch[i].source,
                 cur, GetLast(data[tx.puts[p].key]).txid)
  PROVE  Justified(msg)'
<1> DEFINE key == tx.puts[p].key
           v == GetLast(data[key])
<1>1. cur \in TxIDs
  BY HandledMessage DEF RollBack
<1>2. /\ tx.state = "OPEN"
      /\ \A x \in TxIDs \ {cur} : transactions'[x] = transactions[x]
      /\ transactions'[cur].state = "ROLLED_BACK_BY_SERVER"
      /\ transactions'[cur].read_ts = tx.read_ts
      /\ transactions'[cur].commit_ts = clock
      /\ transactions'[cur].puts = tx.puts
  BY <1>1 DEF RollBack, TypeOK, ServerTX, tx
<1>3. tx.puts \in Seq(DataPut) /\ p \in DOMAIN tx.puts
  BY <1>1 DEF TypeOK, ServerTX, tx, Conflicts
<1>4. key \in PutKeys(tx.puts) /\ key \in Keys
  BY <1>3, PutKeysType DEF PutKeys
<1>5. data[key] # {} /\ v.ts > tx.read_ts
  BY DEF Conflicts
<1>6. v \in data[key]
  BY <1>4, <1>5, GetLastIsLast DEF History
<1>7. /\ v.txid \in Committed
      /\ v.ts = transactions[v.txid].commit_ts
      /\ key \in PutKeys(transactions[v.txid].puts)
  <2>1. PICK q \in DOMAIN transactions[v.txid].puts :
          transactions[v.txid].puts[q] = [key |-> key, value |-> v.value]
    BY <1>4, <1>6 DEF History, StoreIsHistory
  <2>2. transactions[v.txid].puts[q].key = key
    <3> HIDE DEF v, key
    <3> QED BY <2>1, KeyOfPut
  <2>3. key \in PutKeys(transactions[v.txid].puts)
    BY <2>2 DEF PutKeys
  <2> QED BY <1>4, <1>6, <2>3 DEF History, StoreIsHistory
<1>8. v.txid \in TxIDs \ {cur}
  BY <1>2, <1>7 DEF Committed, tx
<1>9. v.ts < clock
  BY <1>1, <1>7, <1>8 DEF TimesPassed
<1>10. msg.txid = cur /\ msg.conflict_txid = v.txid
  BY DEF MsgRolledBackByServer
<1>11. transactions'[v.txid] = transactions[v.txid] /\ transactions[v.txid].state = "COMMITTED"
  BY <1>2, <1>7, <1>8 DEF Committed
<1>12. tx.read_ts < v.ts
  BY <1>1, <1>5, <1>6, <1>4 DEF TypeOK, ServerTX, Timestamps, UNDEFINED_TS, Version, tx
<1> HIDE DEF v, key
<1> QED BY <1>2, <1>4, <1>7, <1>9, <1>10, <1>11, <1>12 DEF Justified

\* ConflictIsReal is preserved by every step.
LEMMA ConflictStep ==
  ASSUME TypeOK, BatchNamesTxs, TimesPassed, History, ConflictIsReal, [Next]_vars
  PROVE  ConflictIsReal'
<1>1. ASSUME UNCHANGED <<transactions, scheduled>>
      PROVE  ConflictIsReal'
  BY <1>1, ConflictKept
<1>2. ASSUME NEW i \in todo, HandleMessage(i)
      PROVE  ConflictIsReal'
  <2>1. Handles(i)
    BY <1>2 DEF HandleMessage, Start, ReportUnexpectedMsg, Put, Commit, RollBack,
                Ignore, BrokenSwitch
  <2>2. /\ cur \in TxIDs
        /\ batch[i].source \in Clients
        /\ batch[i].destination = Server
        /\ batch[i].type = "MSG_PUT" => batch[i].msg_id \in MsgIDs
    BY <2>1, HandledMessage
  <2>3. ASSUME Start(i) \/ Put(i) \/ Commit(i) \/ RollBack(i)
        PROVE  \A x \in Committed \union RolledBack : transactions'[x] = transactions[x]
    <3>1. \A x \in TxIDs \ {cur} : transactions'[x] = transactions[x]
      BY <2>3 DEF TypeOK, Start, Put, Commit, RollBack
    <3>2. tx.state \notin {"COMMITTED", "ROLLED_BACK_BY_SERVER"}
      BY <2>3 DEF Start, Put, Commit, RollBack
    <3> QED BY <2>2, <3>1, <3>2, OthersUntouched
  <2>4. ASSUME Start(i) \/ Put(i) \/ Commit(i) PROVE ConflictIsReal'
    <3>1. PICK msg \in Replies : /\ msg.type # "MSG_ROLLED_BACK_BY_SERVER"
                                 /\ scheduled' = Append(scheduled, msg)
      <4>1. CASE Start(i)
        BY <2>2, <4>1, ReplyType DEF Start, Schedule, MsgStartAck, TypeOK
      <4>2. CASE Put(i)
        BY <2>2, <4>2, ReplyType DEF Put, Schedule, MsgPutReply, TypeOK
      <4>3. CASE Commit(i)
        BY <2>2, <4>3, ReplyType DEF Commit, Schedule, MsgCommitAck, TypeOK
      <4> QED BY <2>4, <4>1, <4>2, <4>3
    <3>2. \A j \in DOMAIN scheduled' :
            \/ j \in DOMAIN scheduled /\ scheduled'[j] = scheduled[j]
            \/ scheduled'[j].type # "MSG_ROLLED_BACK_BY_SERVER"
      BY <3>1, AppendElements DEF TypeOK
    <3> QED BY <2>3, <2>4, <3>2, ConflictKept
  <2>5. ASSUME RollBack(i) PROVE ConflictIsReal'
    <3>1. PICK p \in Conflicts(tx.puts, tx.read_ts) :
            Schedule(MsgRolledBackByServer(batch[i].destination,
              batch[i].source, cur, GetLast(data[tx.puts[p].key]).txid))
      BY <2>5 DEF RollBack
    <3>2. PICK msg \in Replies :
            /\ msg = MsgRolledBackByServer(batch[i].destination,
                       batch[i].source, cur, GetLast(data[tx.puts[p].key]).txid)
            /\ scheduled' = Append(scheduled, msg)
      <4>1. tx.puts \in Seq(DataPut) /\ p \in DOMAIN tx.puts
        BY <2>2 DEF TypeOK, ServerTX, tx, Conflicts
      <4>2. tx.puts[p].key \in Keys
        BY <4>1, PutKeysType DEF PutKeys
      <4>3. GetLast(data[tx.puts[p].key]).txid \in TxIDs
        BY <4>2, GetLastIsLast DEF Conflicts, History, TypeOK, Version
      <4> QED BY <2>2, <3>1, <4>3, ReplyType DEF Schedule
    <3>3. Justified(msg)'
      BY <2>5, <3>2, VerdictIsReal
    <3>4. \A j \in DOMAIN scheduled' :
            (j \in DOMAIN scheduled /\ scheduled'[j] = scheduled[j]) \/ scheduled'[j] = msg
      <4>1. scheduled \in Seq(Replies)
        BY DEF TypeOK
      <4>2. scheduled' = Append(scheduled, msg)
        BY <3>2
      <4> QED BY <4>1, <4>2, AppendElements
    <3> QED BY <2>3, <2>5, <3>3, <3>4, ConflictKept
  <2>6. CASE ReportUnexpectedMsg(i) \/ Ignore(i) \/ BrokenSwitch(i)
    BY <1>1, <2>6 DEF ReportUnexpectedMsg, Ignore, BrokenSwitch
  <2> QED BY <1>2, <2>4, <2>5, <2>6 DEF HandleMessage
<1>3. CASE Send
  BY <1>3 DEF Send, ConflictIsReal
<1>4. ASSUME NEW x \in TxIDs, BeginTx(x)
      PROVE  ConflictIsReal'
  BY <1>1, <1>4 DEF BeginTx
<1>5. ASSUME NEW msgs \in Batches, RejectBatch(msgs) \/ OnTick(msgs)
      PROVE  ConflictIsReal'
  BY <1>1, <1>5 DEF RejectBatch, OnTick
<1>6. CASE ClockNext \/ UNCHANGED vars
  BY <1>1, <1>6 DEF ClockNext, vars, serverVars
<1> QED BY <1>2, <1>3, <1>4, <1>5, <1>6 DEF Next, ServerStep

-----------------------------------------------------------------------------
(* The invariant and what follows from it. *)

\* The history is preserved by every step.
LEMMA HistoryStep ==
  ASSUME TypeOK, BatchNamesTxs, TimesPassed, History, [Next]_vars
  PROVE  History'
<1>1. ASSUME UNCHANGED <<transactions, data>>
      PROVE  History'
  BY <1>1, QuietHistory
<1>2. ASSUME NEW i \in todo, HandleMessage(i)
      PROVE  History'
  <2>1. CASE Start(i)
    BY <2>1, StartHistory
  <2>2. CASE Put(i)
    BY <2>2, PutHistory
  <2>3. CASE Commit(i)
    BY <2>3, CommitHistory
  <2>4. CASE RollBack(i)
    BY <2>4, RollBackHistory
  <2>5. CASE ReportUnexpectedMsg(i) \/ Ignore(i) \/ BrokenSwitch(i)
    BY <1>1, <2>5 DEF ReportUnexpectedMsg, Ignore, BrokenSwitch
  <2> QED BY <1>2, <2>1, <2>2, <2>3, <2>4, <2>5 DEF HandleMessage
<1>3. ASSUME \/ \E msgs \in Batches : RejectBatch(msgs) \/ OnTick(msgs)
             \/ \E x \in TxIDs : BeginTx(x)
             \/ Send
             \/ ClockNext
             \/ UNCHANGED vars
      PROVE  History'
  BY <1>1, <1>3 DEF RejectBatch, OnTick, BeginTx, Send, ClockNext, vars, serverVars
<1> QED BY <1>2, <1>3 DEF Next, ServerStep

\* The invariant holds before anything is sent.
LEMMA InitIInv == Init => IInv
<1> SUFFICES ASSUME Init PROVE IInv
  OBVIOUS
<1>1. NewServerTX \in ServerTX
  BY DEF NewServerTX, ServerTX, ServerTXState, Timestamps
<1>2. \A x \in TxIDs : transactions[x] = NewServerTX
  BY DEF Init
<1>3. \A x \in TxIDs : /\ transactions[x].state = "NOT_STARTED"
                       /\ transactions[x].read_ts = UNDEFINED_TS
                       /\ transactions[x].commit_ts = UNDEFINED_TS
                       /\ transactions[x].puts = <<>>
  BY <1>2 DEF NewServerTX
<1>4. Committed = {} /\ RolledBack = {} /\ \A key \in Keys : data[key] = {}
  BY <1>3 DEF Init, Committed, RolledBack
<1>5. scheduled = <<>> /\ batch = <<>> /\ todo = {} /\ clock = 0
  BY DEF Init
<1>6. TypeOK
  <2>1. batch \in Seq(Requests) /\ scheduled \in Seq(Replies)
    BY <1>5
  <2>2. data \in [Keys -> SUBSET Version]
    BY DEF Init
  <2>3. transactions \in [TxIDs -> ServerTX]
    BY <1>1 DEF Init
  <2> QED BY <2>1, <2>2, <2>3 DEF Init, TypeOK
<1>7. BatchNamesTxs /\ ConflictIsReal
  BY <1>5 DEF BatchNamesTxs, ConflictIsReal
<1>8. TimesPassed
  BY <1>3, <1>5, UndefinedTxIsNoTx DEF Init, TimesPassed, UNDEFINED_TS
<1>9. LifeCycle /\ UniqueTimestamps
  BY <1>3, <1>4 DEF LifeCycle, UniqueTimestamps, EventTimes
<1>10. HasLast /\ StoreIsHistory /\ NothingLost /\ OneVersionEach /\ FirstCommitterWins
  BY <1>4 DEF HasLast, StoreIsHistory, NothingLost, OneVersionEach, FirstCommitterWins
<1> QED BY <1>6, <1>7, <1>8, <1>9, <1>10 DEF IInv, History

\* ... and every step of the server, under any requests, keeps it.
LEMMA NextIInv == IInv /\ [Next]_vars => IInv'
  BY TypeStep, TimesPassedStep, HistoryStep, ConflictStep DEF IInv

\* So the transactions and versions of every reachable state form a correct
\* snapshot-isolation history, and the replies on their way agree with it.
THEOREM Invariance == Spec => []IInv
  BY InitIInv, NextIInv, PTL DEF Spec

\* The types of the server's state are an invariant.
THEOREM TypeCorrect == Spec => []TypeOK
<1>1. IInv => TypeOK
  BY DEF IInv
<1> QED BY <1>1, Invariance, PTL

\* Write-write snapshot isolation of ServerTX::process_msg_open: committed
\* transactions with a common key never overlap, for any number of
\* transactions, keys and messages, in any order of the unordered_map.
THEOREM SnapshotWrites == Spec => []FirstCommitterWins
<1>1. IInv => FirstCommitterWins
  BY DEF IInv, History
<1> QED BY <1>1, Invariance, PTL

\* Storage holds the committed puts, all of them, and nothing else: the
\* insert of Storage::apply never meets a timestamp that is taken.
THEOREM StoreIsCommitted == Spec => []AtomicVisibility
<1>1. IInv => AtomicVisibility
  BY DEF IInv, History, StoreIsHistory, NothingLost, OneVersionEach, AtomicVisibility
<1> QED BY <1>1, Invariance, PTL

\* Every MSG_ROLLED_BACK_BY_SERVER tells the truth.
THEOREM VerdictsJustified == Spec => []ConflictIsReal
<1>1. IInv => ConflictIsReal
  BY DEF IInv
<1> QED BY <1>1, Invariance, PTL

\* No two transactions ever share a timestamp (types.h).
THEOREM TimestampsDistinct == Spec => []UniqueTimestamps
<1>1. IInv => UniqueTimestamps
  BY DEF IInv, History
<1> QED BY <1>1, Invariance, PTL

\* Versions and ended transactions are never changed.
THEOREM HistoryKept == Spec => HistoryIsFinal
<1>1. ASSUME IInv, [Next]_vars
      PROVE  [/\ \A key \in Keys :
                   /\ data[key] \subseteq data'[key]
                   /\ \A v \in data[key], w \in data'[key] \ data[key] : v.ts < w.ts
              /\ \A x \in Committed \union RolledBack :
                   transactions'[x] = transactions[x]]_vars
  <2>1. ASSUME UNCHANGED <<transactions, data>>
        PROVE  /\ \A key \in Keys :
                    /\ data[key] \subseteq data'[key]
                    /\ \A v \in data[key], w \in data'[key] \ data[key] : v.ts < w.ts
               /\ \A x \in Committed \union RolledBack :
                    transactions'[x] = transactions[x]
    BY <2>1
  <2>2. ASSUME NEW i \in todo, Start(i) \/ Put(i) \/ Commit(i) \/ RollBack(i)
        PROVE  \A x \in Committed \union RolledBack : transactions'[x] = transactions[x]
    <3>1. cur \in TxIDs
      BY <1>1, <2>2, HandledMessage DEF IInv, Start, Put, Commit, RollBack
    <3>2. \A x \in TxIDs \ {cur} : transactions'[x] = transactions[x]
      BY <1>1, <2>2 DEF IInv, TypeOK, Start, Put, Commit, RollBack
    <3>3. tx.state \notin {"COMMITTED", "ROLLED_BACK_BY_SERVER"}
      BY <2>2 DEF Start, Put, Commit, RollBack
    <3> QED BY <1>1, <3>1, <3>2, <3>3, OthersUntouched DEF IInv
  <2>3. ASSUME NEW i \in todo, Commit(i), NEW key \in Keys
        PROVE  /\ data[key] \subseteq data'[key]
               /\ \A v \in data[key], w \in data'[key] \ data[key] : v.ts < w.ts
    BY <1>1, <2>3, NewVersions DEF IInv
  <2>4. ASSUME NEW i \in todo, Start(i) \/ Put(i) \/ RollBack(i)
        PROVE  data' = data
    BY <2>4 DEF Start, Put, RollBack
  <2>5. ASSUME \/ \E i \in todo : ReportUnexpectedMsg(i) \/ Ignore(i) \/ BrokenSwitch(i)
               \/ \E msgs \in Batches : RejectBatch(msgs) \/ OnTick(msgs)
               \/ \E x \in TxIDs : BeginTx(x)
               \/ Send
               \/ ClockNext
               \/ UNCHANGED vars
        PROVE  UNCHANGED <<transactions, data>>
    BY <2>5 DEF ReportUnexpectedMsg, Ignore, BrokenSwitch, RejectBatch, OnTick,
                BeginTx, Send, ClockNext, vars, serverVars
  <2> QED BY <1>1, <2>1, <2>2, <2>3, <2>4, <2>5 DEF Next, ServerStep, HandleMessage
<1> QED BY <1>1, Invariance, PTL DEF Spec, HistoryIsFinal

-----------------------------------------------------------------------------
(* The loops over the puts of a transaction compute what Apply and         *)
(* Conflicts say.                                                          *)

\* What Storage::apply leaves of the versions of one key.
KeyApplied(versions, key, x, ts, put) ==
    IF key = put.key /\ \A v \in versions : v.ts # ts
    THEN versions \union {[ts |-> ts, txid |-> x, value |-> put.value]}
    ELSE versions

\* It does so key by key.
LEMMA ApplyOneAt ==
  ASSUME NEW store \in [Keys -> SUBSET Version], NEW x, NEW ts, NEW put \in DataPut,
         NEW key \in Keys
  PROVE  ApplyOne(store, x, ts, put)[key] = KeyApplied(store[key], key, x, ts, put)
<1> USE DEF KeyApplied
<1>1. put.key \in Keys
  BY DEF DataPut
<1>2. CASE \E v \in store[put.key] : v.ts = ts
  BY <1>2 DEF ApplyOne
<1>3. CASE ~(\E v \in store[put.key] : v.ts = ts)
  <2>1. ApplyOne(store, x, ts, put) =
          [store EXCEPT ![put.key] = @ \union {[ts |-> ts, txid |-> x, value |-> put.value]}]
    BY <1>3 DEF ApplyOne
  <2>2. CASE key = put.key
    BY <1>1, <1>3, <2>1, <2>2
  <2>3. CASE key # put.key
    BY <1>1, <2>1, <2>3
  <2> QED BY <2>2, <2>3
<1> QED BY <1>2, <1>3

\* It leaves a store of versions.
LEMMA ApplyOneType ==
  ASSUME NEW store \in [Keys -> SUBSET Version], NEW x \in TxIDs, NEW ts \in Nat,
         NEW put \in DataPut
  PROVE  ApplyOne(store, x, ts, put) \in [Keys -> SUBSET Version]
<1>1. put.key \in Keys /\ [ts |-> ts, txid |-> x, value |-> put.value] \in Version
  BY DEF DataPut, Version
<1> QED BY <1>1 DEF ApplyOne

\* The store after the first n puts, if those of each key do what its first
\* put does.
AppliedUpTo(x, ts, puts, n) ==
    [key \in Keys |->
        IF \E v \in data[key] : v.ts = ts
        THEN data[key]
        ELSE data[key] \union
                {[ts |-> ts, txid |-> x, value |-> puts[i].value] :
                    i \in FirstPuts(puts, key) \cap (1..n)}]

\* One more put makes a difference to its key only, and only if it is the first.
LEMMA ApplyOneMore ==
  ASSUME TypeOK, NEW x \in TxIDs, NEW ts \in Nat, NEW puts \in Seq(DataPut),
         NEW n \in 0..(Len(puts) - 1)
  PROVE  ApplyOne(AppliedUpTo(x, ts, puts, n), x, ts, puts[n + 1])
           = AppliedUpTo(x, ts, puts, n + 1)
<1> DEFINE old == AppliedUpTo(x, ts, puts, n)
           new == AppliedUpTo(x, ts, puts, n + 1)
           put == puts[n + 1]
           made(i) == [ts |-> ts, txid |-> x, value |-> puts[i].value]
<1>0. \A i \in DOMAIN puts : puts[i] \in DataPut
  OBVIOUS
<1>1. n + 1 \in DOMAIN puts /\ put \in DataPut /\ put.key \in Keys
  <2>1. n + 1 \in DOMAIN puts
    OBVIOUS
  <2> QED BY <1>0, <2>1 DEF DataPut
<1>2. \A i \in DOMAIN puts : puts[i] \in DataPut /\ made(i) \in Version /\ made(i).ts = ts
  BY <1>0 DEF DataPut, Version
<1>3. old \in [Keys -> SUBSET Version]
  <2>1. \A key \in Keys : FirstPuts(puts, key) \subseteq DOMAIN puts
    BY DEF FirstPuts
  <2>2. data \in [Keys -> SUBSET Version]
    BY DEF TypeOK
  <2> QED BY <1>2, <2>1, <2>2 DEF AppliedUpTo
<1>4. ASSUME NEW key \in Keys
      PROVE  ApplyOne(old, x, ts, put)[key] = new[key]
  <2>1. ApplyOne(old, x, ts, put)[key] =
          IF key = put.key /\ \A v \in old[key] : v.ts # ts
          THEN old[key] \union {made(n + 1)} ELSE old[key]
    <3> HIDE DEF old, put
    <3>1. ApplyOne(old, x, ts, put)[key] = KeyApplied(old[key], key, x, ts, put)
      BY <1>1, <1>3, ApplyOneAt
    <3> QED BY <3>1 DEF KeyApplied, put
  <2>2. CASE \E v \in data[key] : v.ts = ts
    BY <2>1, <2>2 DEF AppliedUpTo
  <2>3. CASE ~(\E v \in data[key] : v.ts = ts)
    <3>1. /\ old[key] = data[key] \union {made(i) : i \in FirstPuts(puts, key) \cap (1..n)}
          /\ new[key] = data[key] \union {made(i) : i \in FirstPuts(puts, key) \cap (1..(n + 1))}
      BY <2>3 DEF AppliedUpTo
    <3>2. CASE n + 1 \in FirstPuts(puts, key)
      <4>1. key = put.key /\ \A j \in 1..n : puts[j].key # key
        BY <3>2 DEF FirstPuts
      <4>2. FirstPuts(puts, key) \cap (1..n) = {}
        BY <4>1 DEF FirstPuts
      <4>3. FirstPuts(puts, key) \cap (1..(n + 1)) = {n + 1}
        BY <3>2, <4>2
      <4>4. old[key] = data[key] /\ new[key] = data[key] \union {made(n + 1)}
        BY <3>1, <4>2, <4>3
      <4> QED BY <2>1, <2>3, <4>1, <4>4
    <3>3. CASE n + 1 \notin FirstPuts(puts, key)
      <4>1. FirstPuts(puts, key) \cap (1..(n + 1)) = FirstPuts(puts, key) \cap (1..n)
        BY <3>3
      <4>2. new[key] = old[key]
        BY <3>1, <4>1
      <4>3. ASSUME key = put.key
            PROVE  \E v \in old[key] : v.ts = ts
        <5> DEFINE S == {j \in 1..n : puts[j].key = key}
        <5>1. S # {} /\ S \subseteq Nat
          BY <1>1, <3>3, <4>3 DEF FirstPuts
        <5>2. PICK j \in S : \A k \in S : j <= k
          BY <5>1, LeastNatural
        <5>3. j \in DOMAIN puts /\ j \in 1..n /\ \A k \in 1..(j - 1) : puts[k].key # key
          BY <5>2
        <5>4. j \in FirstPuts(puts, key) \cap (1..n)
          BY <5>2, <5>3 DEF FirstPuts
        <5> QED BY <1>2, <3>1, <5>3, <5>4
      <4> QED BY <2>1, <4>2, <4>3
    <3> QED BY <3>2, <3>3
  <2> QED BY <2>2, <2>3
<1>5. ApplyOne(old, x, ts, put) \in [Keys -> SUBSET Version]
  BY <1>1, <1>3, ApplyOneType
<1>6. new = [key \in Keys |-> new[key]]
  BY DEF AppliedUpTo
<1> HIDE DEF old, new, put
<1>7. ApplyOne(old, x, ts, put) = new
  BY <1>4, <1>5, <1>6
<1> QED BY <1>7 DEF old, new, put

\* Storage::apply for one put after the other.
LEMMA ApplyIsLoop ==
  ASSUME TypeOK, NEW x \in TxIDs, NEW ts \in Nat, NEW puts \in Seq(DataPut)
  PROVE  Apply(x, ts, puts) = ApplyLoop(x, ts, puts)
<1> DEFINE n == Len(puts)
           Stores == [Keys -> SUBSET Version]
           step == [i \in 1..n |-> [s \in Stores |-> ApplyOne(s, x, ts, puts[i])]]
           store[i \in 0..n] ==
             IF i = 0 THEN data ELSE ApplyOne(store[i - 1], x, ts, puts[i])
           T == {i \in 0..n : store[i] = AppliedUpTo(x, ts, puts, i)}
<1>1. n \in Nat /\ data \in Stores /\ \A i \in 1..n : puts[i] \in DataPut
  BY DEF TypeOK
<1>2. step \in [1..n -> [Stores -> Stores]]
  BY <1>1, ApplyOneType
<1>3. \E f \in [0..n -> Stores] : Iterates(f, n, data, step)
  <2> HIDE DEF step, n, Stores, store
  <2> QED BY <1>1, <1>2, LoopExists
<1>4. PICK f \in [0..n -> Stores] :
        f[0] = data /\ \A i \in 1..n : f[i] = ApplyOne(f[i - 1], x, ts, puts[i])
  <2>1. PICK f \in [0..n -> Stores] : f[0] = data /\ \A i \in 1..n : f[i] = step[i][f[i - 1]]
    BY <1>3 DEF Iterates
  <2>2. \A i \in 1..n : f[i - 1] \in Stores
    BY <1>1
  <2>3. \A i \in 1..n : step[i][f[i - 1]] = ApplyOne(f[i - 1], x, ts, puts[i])
    BY <2>2
  <2> QED BY <2>1, <2>3
<1>5. f = [i \in 0..n |-> IF i = 0 THEN data ELSE ApplyOne(f[i - 1], x, ts, puts[i])]
  BY <1>4
<1>6. store = [i \in 0..n |->
                 IF i = 0 THEN data ELSE ApplyOne(store[i - 1], x, ts, puts[i])]
  BY <1>5
<1>7. ApplyLoop(x, ts, puts) = store[n]
  BY DEF ApplyLoop
<1> HIDE DEF store
<1>8. 0 \in T
  <2>1. store[0] = data
    BY <1>1, <1>6
  <2>2. AppliedUpTo(x, ts, puts, 0) = [key \in Keys |-> data[key]]
    BY DEF AppliedUpTo
  <2> QED BY <1>1, <2>1, <2>2
<1>9. ASSUME NEW i \in 0..(n - 1), i \in T
      PROVE  i + 1 \in T
  <2>1. i + 1 \in 0..n /\ i + 1 # 0 /\ (i + 1) - 1 = i
    BY <1>1
  <2>2. store[i + 1] = ApplyOne(store[i], x, ts, puts[i + 1])
    BY <1>6, <2>1
  <2>3. store[i + 1] = AppliedUpTo(x, ts, puts, i + 1)
    BY <1>9, <2>2, ApplyOneMore
  <2> QED BY <2>1, <2>3
<1>10. n \in T
  <2> HIDE DEF T, n
  <2>1. 0..n \subseteq T
    BY <1>1, <1>8, <1>9, InductionUpTo
  <2> QED BY <1>1, <2>1
<1>11. AppliedUpTo(x, ts, puts, n) = Apply(x, ts, puts)
  <2>1. \A key \in Keys : FirstPuts(puts, key) \cap (1..n) = FirstPuts(puts, key)
    BY DEF FirstPuts
  <2> QED BY <2>1 DEF AppliedUpTo, Apply
<1> QED BY <1>7, <1>10, <1>11

\* The search stops at the first put in conflict, and only there.
LEMMA ConflictsAreFound ==
  ASSUME NEW puts \in Seq(DataPut), NEW read_ts
  PROVE  IF Conflicts(puts, read_ts) = {} THEN ConflictLoop(puts, read_ts) = 0
         ELSE /\ ConflictLoop(puts, read_ts) \in Conflicts(puts, read_ts)
              /\ \A i \in Conflicts(puts, read_ts) : ConflictLoop(puts, read_ts) <= i
<1> DEFINE n == Len(puts)
           Next1(i, f) == IF f # 0 THEN f
                          ELSE IF data[puts[i].key] = {} THEN 0
                          ELSE IF GetLast(data[puts[i].key]).ts > read_ts THEN i ELSE 0
           step == [i \in 1..n |-> [f \in Nat |-> Next1(i, f)]]
           found[i \in 0..n] ==
             IF i = 0 THEN 0
             ELSE IF found[i - 1] # 0 THEN found[i - 1]
             ELSE IF data[puts[i].key] = {} THEN 0
             ELSE IF GetLast(data[puts[i].key]).ts > read_ts THEN i ELSE 0
           conflicts == Conflicts(puts, read_ts)
           Right(i, f) == IF f = 0 THEN conflicts \cap (1..i) = {}
                          ELSE f \in conflicts \cap (1..i) /\ \A j \in conflicts : f <= j
           T == {i \in 0..n : Right(i, found[i])}
<1>1. n \in Nat /\ conflicts \subseteq 1..n
  BY DEF Conflicts
<1>2. step \in [1..n -> [Nat -> Nat]]
  BY <1>1
<1>3. \E f \in [0..n -> Nat] : Iterates(f, n, 0, step)
  <2> HIDE DEF step, n, found
  <2> QED BY <1>1, <1>2, LoopExists
<1>4. PICK g \in [0..n -> Nat] : g[0] = 0 /\ \A i \in 1..n : g[i] = Next1(i, g[i - 1])
  <2>1. PICK g \in [0..n -> Nat] : g[0] = 0 /\ \A i \in 1..n : g[i] = step[i][g[i - 1]]
    BY <1>3 DEF Iterates
  <2>2. \A i \in 1..n : g[i - 1] \in Nat
    BY <1>1
  <2>3. \A i \in 1..n : step[i][g[i - 1]] = Next1(i, g[i - 1])
    BY <2>2
  <2> HIDE DEF step, Next1
  <2>4. g[0] = 0 /\ \A i \in 1..n : g[i] = Next1(i, g[i - 1])
    BY <2>1, <2>3
  <2> QED BY <2>4
<1>5. g = [i \in 0..n |-> IF i = 0 THEN 0 ELSE Next1(i, g[i - 1])]
  BY <1>4
<1>6. found = [i \in 0..n |-> IF i = 0 THEN 0 ELSE Next1(i, found[i - 1])]
  BY <1>5
<1>7. ConflictLoop(puts, read_ts) = found[n]
  BY DEF ConflictLoop
<1> HIDE DEF found
<1>8. 0 \in T
  BY <1>1, <1>6
<1>9. ASSUME NEW i \in 0..(n - 1), i \in T
      PROVE  i + 1 \in T
  <2>1. i + 1 \in 0..n /\ i + 1 \in DOMAIN puts /\ i + 1 # 0 /\ (i + 1) - 1 = i
    BY <1>1
  <2>2. found[i + 1] = Next1(i + 1, found[i])
    BY <1>6, <2>1
  <2>3. i + 1 \in conflicts <=> /\ data[puts[i + 1].key] # {}
                                /\ GetLast(data[puts[i + 1].key]).ts > read_ts
    BY <2>1 DEF Conflicts
  <2>4. Right(i, found[i])
    BY <1>9
  <2>5. CASE found[i] # 0
    BY <2>1, <2>2, <2>4, <2>5
  <2>6. CASE found[i] = 0 /\ i + 1 \notin conflicts
    <3>1. found[i + 1] = 0
      BY <2>2, <2>3, <2>6
    <3>2. conflicts \cap (1..(i + 1)) = {}
      BY <2>4, <2>6
    <3> QED BY <2>1, <3>1, <3>2
  <2>7. CASE found[i] = 0 /\ i + 1 \in conflicts
    <3>1. found[i + 1] = i + 1
      BY <2>2, <2>3, <2>7
    <3>2. \A j \in conflicts : i + 1 <= j
      BY <1>1, <2>4, <2>7
    <3> QED BY <2>1, <2>7, <3>1, <3>2
  <2> QED BY <2>5, <2>6, <2>7
<1>10. n \in T
  <2> HIDE DEF T, n
  <2>1. 0..n \subseteq T
    BY <1>1, <1>8, <1>9, InductionUpTo
  <2> QED BY <1>1, <2>1
<1>11. Right(n, found[n]) /\ conflicts \cap (1..n) = conflicts
  BY <1>1, <1>10
<1> QED BY <1>1, <1>7, <1>11

\* The loops of ServerTX::process_msg_open and Storage::apply do what Commit
\* and RollBack say, for any puts, repeated keys and taken timestamps included.
THEOREM LoopsCompute == Spec => []LoopsAgree
<1>1. TypeOK => LoopsAgree
  <2> SUFFICES ASSUME TypeOK, NEW x \in TxIDs
               PROVE  /\ \A ts \in 0..(clock + 1) :
                           Apply(x, ts, transactions[x].puts) = ApplyLoop(x, ts, transactions[x].puts)
                      /\ LET puts == transactions[x].puts
                             read_ts == transactions[x].read_ts
                             conflicts == Conflicts(puts, read_ts)
                             found == ConflictLoop(puts, read_ts)
                         IN  IF conflicts = {} THEN found = 0
                             ELSE found \in conflicts /\ \A i \in conflicts : found <= i
    BY DEF LoopsAgree
  <2>1. transactions[x].puts \in Seq(DataPut) /\ clock \in Nat
    BY DEF TypeOK, ServerTX
  <2>2. \A ts \in 0..(clock + 1) : ts \in Nat
    BY <2>1
  <2>3. \A ts \in 0..(clock + 1) :
          Apply(x, ts, transactions[x].puts) = ApplyLoop(x, ts, transactions[x].puts)
    BY <2>1, <2>2, ApplyIsLoop
  <2> QED BY <2>1, <2>3, ConflictsAreFound
<1> QED BY <1>1, TypeCorrect, PTL

-----------------------------------------------------------------------------
(* TxServer implements SnapshotIsolation.  What has to be shown is that    *)
(* strict comparisons of timestamps decide what the abstract specification *)
(* decides by sets: that a fresh timestamp is a snapshot of all that has   *)
(* committed, that no later commit enters an old snapshot, and that the    *)
(* last version of each key is enough to find a rival exactly if there is  *)
(* one.                                                                    *)

\* The variables of SnapshotIsolation.
status == [x \in TxIDs |-> AbstractStatus[transactions[x].state]]
seen == [x \in TxIDs |->
            {y \in Committed : transactions[y].commit_ts < transactions[x].read_ts}]
writes == [x \in TxIDs |-> PutKeys(transactions[x].puts)]
latest == [key \in Keys |->
            IF data[key] = {} THEN UNDEFINED_TX_ID ELSE GetLast(data[key]).txid]

\* The abstract state of a transaction says which concrete one it is in.
LEMMA StatusOf ==
  ASSUME TypeOK, NEW x \in TxIDs
  PROVE  /\ status[x] = "idle" <=> transactions[x].state = "NOT_STARTED"
         /\ status[x] = "active" <=> transactions[x].state = "OPEN"
         /\ status[x] = "committed" <=> transactions[x].state = "COMMITTED"
         /\ status[x] = "aborted" <=> transactions[x].state = "ROLLED_BACK_BY_SERVER"
<1>1. transactions[x].state \in ServerTXState
  BY DEF TypeOK, ServerTX
<1> QED BY <1>1 DEF status, AbstractStatus, ServerTXState

\* Committed is the same on both levels.
LEMMA CommittedIsCommitted ==
  ASSUME TypeOK
  PROVE  SI!Committed = Committed
BY StatusOf DEF SI!Committed, Committed, status

\* A step of the transaction being ticked changes nothing of the others.
LEMMA OthersSame ==
  ASSUME TypeOK, NEW c \in TxIDs, NEW new, transactions' = [transactions EXCEPT ![c] = new]
  PROVE  /\ status' = [status EXCEPT ![c] = AbstractStatus[new.state]]
         /\ writes' = [writes EXCEPT ![c] = PutKeys(new.puts)]
         /\ transactions'[c] = new
         /\ \A x \in TxIDs \ {c} : transactions'[x] = transactions[x]
BY DEF TypeOK, status, writes

\* The puts of a transaction clash with a transaction it has not seen exactly
\* if one of them clashes with the last version of its key.
LEMMA RivalsAreConflicts ==
  ASSUME TypeOK, History, NEW x \in TxIDs, transactions[x].state = "OPEN"
  PROVE  Conflicts(transactions[x].puts, transactions[x].read_ts) = {} <=> SI!Rivals(x) = {}
<1> DEFINE puts == transactions[x].puts
           read_ts == transactions[x].read_ts
<1>1. puts \in Seq(DataPut) /\ read_ts \in Nat
  BY DEF TypeOK, ServerTX, History, LifeCycle
<1>2. SI!Rivals(x) = {y \in Committed \ seen[x] : writes[y] \intersect writes[x] # {}}
  BY CommittedIsCommitted DEF SI!Rivals, seen, writes
<1>3. ASSUME NEW y \in Committed
      PROVE  /\ y \in seen[x] <=> transactions[y].commit_ts < read_ts
             /\ transactions[y].commit_ts \in Nat /\ transactions[y].commit_ts # read_ts
             /\ y \in TxIDs
  <2>1. y \in TxIDs /\ y # x /\ transactions[y].commit_ts \in Nat
    BY DEF Committed, History, LifeCycle
  <2>2. transactions[y].commit_ts # read_ts
    <3>1. EventTimes(x) \intersect EventTimes(y) \subseteq {UNDEFINED_TS}
      BY <2>1 DEF History, UniqueTimestamps
    <3>2. read_ts \in EventTimes(x) /\ transactions[y].commit_ts \in EventTimes(y)
      BY DEF EventTimes
    <3>3. read_ts # UNDEFINED_TS
      BY <1>1 DEF UNDEFINED_TS
    <3> HIDE DEF read_ts
    <3> QED BY <3>1, <3>2, <3>3
  <2> QED BY <2>1, <2>2 DEF seen
<1>4. ASSUME NEW p \in Conflicts(puts, read_ts)
      PROVE  SI!Rivals(x) # {}
  <2> DEFINE key == puts[p].key
             v == GetLast(data[key])
  <2>1. p \in DOMAIN puts /\ data[key] # {} /\ v.ts > read_ts
    BY DEF Conflicts
  <2>2. key \in PutKeys(puts) /\ key \in Keys
    BY <1>1, <2>1, PutKeysType DEF PutKeys
  <2>3. v \in data[key]
    BY <2>1, <2>2, GetLastIsLast DEF History
  <2>4. v.txid \in Committed /\ v.ts = transactions[v.txid].commit_ts
    BY <2>2, <2>3 DEF History, StoreIsHistory
  <2>5. PICK q \in DOMAIN transactions[v.txid].puts :
          transactions[v.txid].puts[q] = [key |-> key, value |-> v.value]
    BY <2>2, <2>3 DEF History, StoreIsHistory
  <2>6. transactions[v.txid].puts[q].key = key
    BY <2>5, KeyOfPut
  <2> HIDE DEF v, key
  <2>7. key \in writes[v.txid] /\ key \in writes[x]
    BY <1>3, <2>2, <2>4, <2>6 DEF PutKeys, writes
  <2>8. v.txid \notin seen[x]
    BY <1>1, <1>3, <2>1, <2>4
  <2> QED BY <1>2, <2>4, <2>7, <2>8
<1>5. ASSUME NEW y \in SI!Rivals(x)
      PROVE  Conflicts(puts, read_ts) # {}
  <2>1. y \in Committed /\ y \notin seen[x]
    BY <1>2, <1>5
  <2>2. PICK key \in writes[y] : key \in writes[x]
    BY <1>2, <1>5
  <2>3. key \in PutKeys(puts) /\ key \in PutKeys(transactions[y].puts) /\ key \in Keys
    BY <1>1, <1>3, <2>1, <2>2, PutKeysType DEF writes
  <2>4. PICK v \in data[key] : v.txid = y
    BY <2>1, <2>3 DEF History, NothingLost
  <2>5. v.ts = transactions[y].commit_ts /\ v.ts > read_ts /\ v.ts \in Nat
    <3>1. v.ts = transactions[y].commit_ts
      BY <2>3, <2>4 DEF History, StoreIsHistory
    <3> HIDE DEF read_ts
    <3> QED BY <1>1, <1>3, <2>1, <3>1
  <2>6. GetLast(data[key]) \in data[key] /\ v.ts <= GetLast(data[key]).ts
    BY <2>3, <2>4, GetLastIsLast DEF History
  <2>7. GetLast(data[key]).ts \in Nat
    BY <2>3, <2>6 DEF TypeOK, Version
  <2>8. GetLast(data[key]).ts > read_ts
    BY <1>1, <2>5, <2>6, <2>7
  <2>9. PICK p \in DOMAIN puts : puts[p].key = key
    BY <2>3 DEF PutKeys
  <2> QED BY <2>4, <2>8, <2>9 DEF Conflicts
<1> QED BY <1>4, <1>5

-----------------------------------------------------------------------------
(* The steps *)

\* Nothing abstract changes while transactions and store do not.
LEMMA QuietRefines ==
  ASSUME UNCHANGED <<transactions, data>>
  PROVE  [SI!Next]_(SI!vars)
<1>1. Committed' = Committed
  BY DEF Committed
<1> QED BY <1>1 DEF SI!vars

\* MSG_START: the fresh timestamp is after all that has committed.
LEMMA StartRefines ==
  ASSUME TypeOK, BatchNamesTxs, TimesPassed, History, NEW i, Start(i)
  PROVE  SI!Next
<1>1. PICK c \in TxIDs : c = cur
  BY HandledMessage DEF Start
<1> DEFINE new == [transactions[c] EXCEPT !.state = "OPEN", !.read_ts = clock]
<1>2. transactions[c].state = "NOT_STARTED" /\ transactions[c] \in ServerTX
  BY <1>1 DEF Start, tx, TypeOK
<1>3. /\ new.state = "OPEN" /\ new.read_ts = clock /\ new.puts = transactions[c].puts
      /\ new.commit_ts = transactions[c].commit_ts
  BY <1>2 DEF ServerTX
<1>4. transactions' = [transactions EXCEPT ![c] = new]
  BY <1>1 DEF Start, TypeOK, ServerTX
<1> HIDE DEF new
<1>5. /\ transactions'[c] = new /\ \A x \in TxIDs \ {c} : transactions'[x] = transactions[x]
      /\ status' = [status EXCEPT ![c] = AbstractStatus[new.state]]
      /\ writes' = [writes EXCEPT ![c] = PutKeys(new.puts)]
  BY <1>4, OthersSame
<1>6. status' = [status EXCEPT ![c] = "active"] /\ status[c] = "idle"
  BY <1>2, <1>3, <1>5, StatusOf DEF AbstractStatus
<1>7. writes' = writes
  BY <1>3, <1>5 DEF writes
<1>8. Committed' = Committed /\ c \notin Committed
  BY <1>2, <1>3, <1>5 DEF Committed
<1>9. seen' = [seen EXCEPT ![c] = SI!Committed]
  <2>1. \A y \in Committed : /\ transactions'[y].commit_ts = transactions[y].commit_ts
                             /\ transactions[y].commit_ts < clock
    BY <1>1, <1>5, <1>8 DEF Committed, TimesPassed
  <2>2. {y \in Committed : transactions'[y].commit_ts < clock} = Committed
    BY <2>1
  <2>3. \A x \in TxIDs : x # c =>
          {y \in Committed : transactions'[y].commit_ts < transactions'[x].read_ts}
          = {y \in Committed : transactions[y].commit_ts < transactions[x].read_ts}
    BY <1>5, <2>1
  <2>4. transactions'[c].read_ts = clock
    BY <1>3, <1>5
  <2> QED BY <1>8, <2>2, <2>3, <2>4, CommittedIsCommitted DEF seen
<1>10. UNCHANGED data
  BY DEF Start
<1>11. SI!Begin(c)
  BY <1>6, <1>7, <1>9, <1>10 DEF SI!Begin, status, seen, writes
<1> QED BY <1>11 DEF SI!Next

\* MSG_PUT.
LEMMA PutRefines ==
  ASSUME TypeOK, BatchNamesTxs, NEW i, Put(i)
  PROVE  SI!Next
<1>1. PICK c \in TxIDs : c = cur
  BY HandledMessage DEF Put
<1>2. PICK key \in Keys : key = batch[i].key
  BY HandledMessage DEF Put
<1> DEFINE put == [key |-> key, value |-> batch[i].value]
           new == [transactions[c] EXCEPT !.puts = Append(transactions[c].puts, put)]
<1>3. transactions[c].state = "OPEN" /\ transactions[c] \in ServerTX
  BY <1>1 DEF Put, tx, TypeOK
<1>4. /\ transactions[c].puts \in Seq(DataPut) /\ put \in DataPut
  BY <1>2, <1>3, HandledMessage DEF Put, ServerTX, DataPut
<1>5. transactions' = [transactions EXCEPT ![c] = new]
  BY <1>1, <1>2 DEF Put, TypeOK, ServerTX
<1>6. /\ new.state = "OPEN" /\ new.read_ts = transactions[c].read_ts
      /\ new.commit_ts = transactions[c].commit_ts
      /\ new.puts = Append(transactions[c].puts, put)
  BY <1>3 DEF ServerTX
<1>7. PutKeys(Append(transactions[c].puts, put)) = PutKeys(transactions[c].puts) \union {key}
  <2> DEFINE s == transactions[c].puts
             t == Append(s, put)
  <2>1. /\ \A j \in DOMAIN s : j \in DOMAIN t /\ t[j] = s[j]
        /\ \A j \in DOMAIN t : (j \in DOMAIN s /\ t[j] = s[j]) \/ t[j] = put
        /\ \E j \in DOMAIN t : t[j] = put
    <3> HIDE DEF s, put
    <3>1. s \in Seq(DataPut) /\ put \in DataPut
      BY <1>4 DEF s
    <3> QED BY <3>1
  <2>2. put.key = key
    OBVIOUS
  <2> HIDE DEF s, t, put
  <2>3. PutKeys(t) = PutKeys(s) \union {key}
    BY <2>1, <2>2 DEF PutKeys
  <2> QED BY <2>3 DEF s, t
<1> HIDE DEF new, put
<1>8. /\ transactions'[c] = new /\ \A x \in TxIDs \ {c} : transactions'[x] = transactions[x]
      /\ status' = [status EXCEPT ![c] = AbstractStatus[new.state]]
      /\ writes' = [writes EXCEPT ![c] = PutKeys(new.puts)]
  BY <1>5, OthersSame
<1>9. status' = status /\ status[c] = "active"
  BY <1>3, <1>6, <1>8, StatusOf DEF AbstractStatus, status
<1>10. writes' = [writes EXCEPT ![c] = writes[c] \union {key}]
  BY <1>6, <1>7, <1>8 DEF writes
<1>11. \A x \in TxIDs : /\ transactions'[x].state = transactions[x].state
                        /\ transactions'[x].read_ts = transactions[x].read_ts
                        /\ transactions'[x].commit_ts = transactions[x].commit_ts
  BY <1>3, <1>6, <1>8
<1>12. seen' = seen /\ UNCHANGED data
  BY <1>11 DEF seen, Committed, Put
<1>13. SI!Write(c, key)
  BY <1>9, <1>10, <1>12 DEF SI!Write, status, seen, writes
<1> QED BY <1>13 DEF SI!Next

\* MSG_COMMIT of a transaction without conflicts: it becomes the last writer of
\* all its keys, and enters no snapshot that was taken before.
LEMMA CommitRefines ==
  ASSUME TypeOK, BatchNamesTxs, TimesPassed, History, NEW i, Commit(i)
  PROVE  SI!Next
<1>1. PICK c \in TxIDs : c = cur
  BY HandledMessage DEF Commit
<1> DEFINE new == [transactions[c] EXCEPT !.state = "COMMITTED", !.commit_ts = clock]
           puts == transactions[c].puts
<1>2. transactions[c].state = "OPEN" /\ transactions[c] \in ServerTX
  BY <1>1 DEF Commit, tx, TypeOK
<1>3. /\ new.state = "COMMITTED" /\ new.commit_ts = clock /\ new.puts = puts
      /\ new.read_ts = transactions[c].read_ts /\ puts \in Seq(DataPut)
  BY <1>2 DEF ServerTX
<1>4. transactions' = [transactions EXCEPT ![c] = new]
  BY <1>1 DEF Commit, TypeOK, ServerTX
<1>5. SI!Rivals(c) = {}
  BY <1>1, <1>2, RivalsAreConflicts DEF Commit, tx
<1> HIDE DEF new
<1>6. /\ transactions'[c] = new /\ \A x \in TxIDs \ {c} : transactions'[x] = transactions[x]
      /\ status' = [status EXCEPT ![c] = AbstractStatus[new.state]]
      /\ writes' = [writes EXCEPT ![c] = PutKeys(new.puts)]
  BY <1>4, OthersSame
<1>7. status' = [status EXCEPT ![c] = "committed"] /\ status[c] = "active"
  BY <1>2, <1>3, <1>6, StatusOf DEF AbstractStatus
<1>8. writes' = writes /\ writes[c] = PutKeys(puts)
  BY <1>3, <1>6 DEF writes
<1>9. Committed' = Committed \union {c} /\ c \notin Committed
  BY <1>2, <1>3, <1>6 DEF Committed
<1>10. seen' = seen
  <2>1. ASSUME NEW x \in TxIDs
        PROVE  /\ ~(transactions'[c].commit_ts < transactions'[x].read_ts)
               /\ transactions'[x].read_ts = transactions[x].read_ts
    <3>1. clock \in Nat /\ transactions[x].read_ts \in Timestamps
      BY DEF TypeOK, ServerTX
    <3>2. transactions[x].read_ts <= clock
      BY DEF TimesPassed
    <3>3. transactions'[c].commit_ts = clock /\ transactions'[x].read_ts = transactions[x].read_ts
      BY <1>3, <1>6
    <3> QED BY <3>1, <3>2, <3>3 DEF Timestamps, UNDEFINED_TS
  <2>2. \A y \in Committed : transactions'[y].commit_ts = transactions[y].commit_ts
    BY <1>6, <1>9 DEF Committed
  <2>3. \A x \in TxIDs :
          {y \in Committed' : transactions'[y].commit_ts < transactions'[x].read_ts}
          = {y \in Committed : transactions[y].commit_ts < transactions[x].read_ts}
    BY <1>9, <2>1, <2>2
  <2> QED BY <2>3 DEF seen
<1>11. ASSUME NEW key \in Keys
       PROVE  latest'[key] = IF key \in writes[c] THEN c ELSE latest[key]
  <2>1. /\ \A v \in data[key] : v.ts < clock /\ v.txid # c
        /\ data'[key] = data[key] \union
             {[ts |-> clock, txid |-> c, value |-> puts[p].value] : p \in FirstPuts(puts, key)}
    BY <1>1, NewVersions DEF tx
  <2>2. CASE key \in writes[c]
    <3>1. PICK p \in FirstPuts(puts, key) : TRUE
      BY <1>3, <1>8, <2>2, FirstPutExists
    <3>2. \A q \in FirstPuts(puts, key) : q = p
      BY <1>3, FirstPutUnique
    <3> DEFINE v == [ts |-> clock, txid |-> c, value |-> puts[p].value]
    <3>3. data'[key] = data[key] \union {v}
      BY <2>1, <3>1, <3>2
    <3>4. v.ts = clock /\ v.txid = c /\ clock \in Nat
      BY DEF TypeOK
    <3>5. \A w \in data[key] : w.ts \in Nat
      BY DEF TypeOK, Version
    <3> HIDE DEF v
    <3>6. \A u \in data'[key] : (\A w \in data'[key] : w.ts <= u.ts) <=> u = v
      BY <2>1, <3>3, <3>4, <3>5
    <3>7. GetLast(data'[key]) = v
      BY <3>3, <3>6 DEF GetLast
    <3>8. GetLast(data[key])' = v
      BY <3>7 DEF GetLast
    <3> QED BY <2>2, <3>3, <3>4, <3>8 DEF latest
  <2>3. CASE key \notin writes[c]
    <3>1. FirstPuts(puts, key) = {}
      BY <1>8, <2>3 DEF FirstPuts, PutKeys
    <3>2. data'[key] = data[key]
      BY <2>1, <3>1
    <3>3. GetLast(data[key])' = GetLast(data[key])
      BY <3>2 DEF GetLast
    <3> QED BY <2>3, <3>2, <3>3 DEF latest
  <2> QED BY <2>2, <2>3
<1>12. latest' = [key \in Keys |-> IF key \in writes[c] THEN c ELSE latest[key]]
  <2>1. latest' = [key \in Keys |-> latest'[key]]
    BY DEF latest
  <2> QED BY <1>11, <2>1
<1>13. SI!Commit(c)
  BY <1>5, <1>7, <1>8, <1>10, <1>12 DEF SI!Commit, status, seen, writes, latest
<1> QED BY <1>13 DEF SI!Next

\* MSG_COMMIT of a transaction with conflicts: it has a rival, and leaves no trace.
LEMMA RollBackRefines ==
  ASSUME TypeOK, BatchNamesTxs, TimesPassed, History, NEW i, RollBack(i)
  PROVE  SI!Next
<1>1. PICK c \in TxIDs : c = cur
  BY HandledMessage DEF RollBack
<1> DEFINE new == [transactions[c] EXCEPT !.state = "ROLLED_BACK_BY_SERVER", !.commit_ts = clock]
<1>2. transactions[c].state = "OPEN" /\ transactions[c] \in ServerTX
  BY <1>1 DEF RollBack, tx, TypeOK
<1>3. /\ new.state = "ROLLED_BACK_BY_SERVER" /\ new.puts = transactions[c].puts
      /\ new.read_ts = transactions[c].read_ts
  BY <1>2 DEF ServerTX
<1>4. transactions' = [transactions EXCEPT ![c] = new]
  BY <1>1 DEF RollBack, TypeOK, ServerTX
<1>5. SI!Rivals(c) # {}
  <2>1. Conflicts(transactions[c].puts, transactions[c].read_ts) # {}
    BY <1>1 DEF RollBack, tx
  <2> QED BY <1>2, <2>1, RivalsAreConflicts
<1> HIDE DEF new
<1>6. /\ transactions'[c] = new /\ \A x \in TxIDs \ {c} : transactions'[x] = transactions[x]
      /\ status' = [status EXCEPT ![c] = AbstractStatus[new.state]]
      /\ writes' = [writes EXCEPT ![c] = PutKeys(new.puts)]
  BY <1>4, OthersSame
<1>7. status' = [status EXCEPT ![c] = "aborted"] /\ status[c] = "active"
  BY <1>2, <1>3, <1>6, StatusOf DEF AbstractStatus
<1>8. writes' = writes
  BY <1>3, <1>6 DEF writes
<1>9. Committed' = Committed /\ c \notin Committed
  BY <1>2, <1>3, <1>6 DEF Committed
<1>10. seen' = seen
  <2>1. \A y \in Committed : transactions'[y].commit_ts = transactions[y].commit_ts
    BY <1>6, <1>9 DEF Committed
  <2>2. \A x \in TxIDs : transactions'[x].read_ts = transactions[x].read_ts
    BY <1>3, <1>6
  <2> QED BY <1>9, <2>1, <2>2 DEF seen
<1>11. UNCHANGED data
  BY DEF RollBack
<1>12. SI!Abort(c)
  BY <1>5, <1>7, <1>8, <1>10, <1>11 DEF SI!Abort, status, seen, writes
<1> QED BY <1>12 DEF SI!Next

\* Every step of the server is a step of SnapshotIsolation or none.
LEMMA StepRefines ==
  ASSUME IInv, [Next]_vars
  PROVE  [SI!Next]_(SI!vars)
<1>0. TypeOK /\ BatchNamesTxs /\ TimesPassed /\ History
  BY DEF IInv
<1>1. ASSUME NEW i \in todo, HandleMessage(i)
      PROVE  [SI!Next]_(SI!vars)
  <2>1. CASE Start(i)
    BY <1>0, <2>1, StartRefines
  <2>2. CASE Put(i)
    BY <1>0, <2>2, PutRefines
  <2>3. CASE Commit(i)
    BY <1>0, <2>3, CommitRefines
  <2>4. CASE RollBack(i)
    BY <1>0, <2>4, RollBackRefines
  <2>5. CASE ReportUnexpectedMsg(i) \/ Ignore(i) \/ BrokenSwitch(i)
    <3>1. UNCHANGED <<transactions, data>>
      BY <2>5 DEF ReportUnexpectedMsg, Ignore, BrokenSwitch
    <3> QED BY <3>1, QuietRefines
  <2> QED BY <1>1, <2>1, <2>2, <2>3, <2>4, <2>5 DEF HandleMessage
<1>2. CASE \/ UNCHANGED vars
           \/ \E msgs \in Batches : RejectBatch(msgs) \/ OnTick(msgs)
           \/ \E x \in TxIDs : BeginTx(x)
           \/ Send
           \/ ClockNext
  <2>1. UNCHANGED <<transactions, data>>
    BY <1>2 DEF vars, serverVars, RejectBatch, OnTick, BeginTx, Send, ClockNext
  <2> QED BY <2>1, QuietRefines
<1> QED BY <1>1, <1>2 DEF Next, ServerStep

\* Before anything is sent nothing has begun.
LEMMA InitRefines == Init => SI!Init
<1> SUFFICES ASSUME Init PROVE SI!Init
  OBVIOUS
<1>1. \A x \in TxIDs : transactions[x] = NewServerTX
  BY DEF Init
<1>2. \A x \in TxIDs : /\ AbstractStatus[transactions[x].state] = "idle"
                       /\ PutKeys(transactions[x].puts) = {}
  BY <1>1 DEF NewServerTX, AbstractStatus, PutKeys
<1>3. Committed = {}
  BY <1>1 DEF Committed, NewServerTX
<1>4. \A key \in Keys : data[key] = {}
  BY DEF Init
<1> QED BY <1>2, <1>3, <1>4 DEF SI!Init

\* However requests are batched, ordered or repeated, transactions begin, write,
\* commit and are rolled back as write-write snapshot isolation says.
THEOREM ServerImplementsSnapshotIsolation == Spec => ImplementsSnapshotIsolation
<1>1. IInv /\ [Next]_vars => [SI!Next]_(SI!vars)
  BY StepRefines
<1> QED BY <1>1, InitRefines, Invariance, PTL DEF Spec, ImplementsSnapshotIsolation, SI!Spec
=============================================================================
