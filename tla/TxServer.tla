------------------------------ MODULE TxServer ------------------------------
(***************************************************************************)
(* The server actor: Server::on_tick, one ServerTX per transaction, the    *)
(* multi-version Storage they share and the Retrier they answer through    *)
(* (src/src/tx/server, src/src/tx/storage, src/src/tx/retrier).            *)
(*                                                                         *)
(* on_tick groups its messages by transaction in an unordered_map, ticks   *)
(* the transactions it found in the order of that map, each with a fresh   *)
(* timestamp, and sends what they scheduled.  The grouping is not a data   *)
(* structure here: "todo" holds the positions of the batch that are still  *)
(* to be handled, "cur" the transaction whose tick is running, and the     *)
(* order in which BeginTx picks transactions is the arbitrary order of the *)
(* map.  Within a tick the messages of a transaction are handled in the    *)
(* order of the batch.                                                     *)
(*                                                                         *)
(* Storage loops over the puts of a transaction are written as what they   *)
(* compute (Conflicts, Apply); LoopsAgree holds them against the loops.    *)
(***************************************************************************)
EXTENDS TxMessages

CONSTANT Batches    \* what on_tick may be called with when nobody is modelled
                    \* but the server: sequences of requests

ASSUME BatchesAssumption == Batches \subseteq Seq(Requests)

VARIABLES
    clock,          \* Clock::tm_, shared with every other actor
    transactions,   \* Server::transactions_
    data,           \* Storage::data_: for each key the set of its versions
    active,         \* is on_tick running?
    batch,          \* the messages on_tick was called with
    todo,           \* the positions of batch no ServerTX::tick handled yet
    cur,            \* the transaction being ticked, UNDEFINED_TX_ID before any
    scheduled,      \* the replies on_tick has collected so far
    failure         \* an exception has left on_tick

serverVars == <<transactions, data, active, batch, todo, cur, scheduled, failure>>
vars == <<clock, serverVars>>

-----------------------------------------------------------------------------
(* ServerTX.  An id that is not in Server::transactions_ yet is a ServerTX *)
(* that is still as its constructor leaves it: get_or_create_tx makes it   *)
(* the first time a message names it, and nothing else looks.              *)

ServerTXState == {"NOT_STARTED", "OPEN", "COMMITTED", "ROLLED_BACK_BY_SERVER"}
DataPut == [key : Keys, value : Values]
ServerTX == [state : ServerTXState, read_ts : Timestamps,
             commit_ts : Timestamps, puts : Seq(DataPut)]

NewServerTX == [state |-> "NOT_STARTED", read_ts |-> UNDEFINED_TS,
                commit_ts |-> UNDEFINED_TS, puts |-> <<>>]

PutKeys(puts) == {puts[i].key : i \in DOMAIN puts}

Committed == {x \in TxIDs : transactions[x].state = "COMMITTED"}
RolledBack == {x \in TxIDs : transactions[x].state = "ROLLED_BACK_BY_SERVER"}

-----------------------------------------------------------------------------
(* Storage *)

Version == [ts : Nat, txid : TxIDs, value : Values]

\* Mutant of GetLast: begin() of the map instead of rbegin().
GetFirst(versions) ==
    CHOOSE v \in versions : \A w \in versions : v.ts <= w.ts

\* The entry of the ordered map with the greatest timestamp.
GetLast(versions) ==
    CHOOSE v \in versions : \A w \in versions : w.ts <= v.ts

\* Mutants of Conflicts: any earlier version counts, or only the first put.
ConflictsEver(puts, read_ts) == {i \in DOMAIN puts : data[puts[i].key] # {}}

ConflictsOfFirstPut(puts, read_ts) ==
    {i \in DOMAIN puts : /\ i = 1
                         /\ data[puts[i].key] # {}
                         /\ GetLast(data[puts[i].key]).ts > read_ts}

\* The positions of puts whose key was written after the snapshot at read_ts.
Conflicts(puts, read_ts) ==
    {i \in DOMAIN puts : /\ data[puts[i].key] # {}
                         /\ GetLast(data[puts[i].key]).ts > read_ts}

\* Mutant of FirstPuts: insert_or_assign, which keeps the last put of a key.
LastPuts(puts, key) ==
    {i \in DOMAIN puts : puts[i].key = key
                         /\ \A j \in (i+1)..Len(puts) : puts[j].key # key}

\* The positions of puts that name the key for the first time: map::insert
\* does not overwrite, so of several puts of one key the first one stays.
FirstPuts(puts, key) ==
    {i \in DOMAIN puts : puts[i].key = key /\ \A j \in 1..(i-1) : puts[j].key # key}

\* Mutants of Apply: left after the first put, or overwriting.
ApplyFirstPut(x, commit_ts, puts) ==
    [key \in Keys |->
        IF puts # <<>> /\ puts[1].key = key
        THEN data[key] \union {[ts |-> commit_ts, txid |-> x, value |-> puts[1].value]}
        ELSE data[key]]

ApplyOverwrites(x, commit_ts, puts) ==
    [key \in Keys |->
        IF key \in PutKeys(puts)
        THEN {[ts |-> commit_ts, txid |-> x, value |-> puts[i].value] :
                i \in FirstPuts(puts, key)}
        ELSE data[key]]

\* The store once every put of transaction x has been applied at commit_ts.
Apply(x, commit_ts, puts) ==
    [key \in Keys |->
        IF \E v \in data[key] : v.ts = commit_ts
        THEN data[key]
        ELSE data[key] \union
                {[ts |-> commit_ts, txid |-> x, value |-> puts[i].value] :
                    i \in FirstPuts(puts, key)}]

-----------------------------------------------------------------------------
Init ==
    /\ clock = 0
    /\ transactions = [x \in TxIDs |-> NewServerTX]
    /\ data = [key \in Keys |-> {}]
    /\ active = FALSE
    /\ batch = <<>>
    /\ todo = {}
    /\ cur = UNDEFINED_TX_ID
    /\ scheduled = <<>>
    /\ failure = FALSE

\* The runtime calls on_tick with a message that names no transaction:
\* std::invalid_argument.
RejectBatch(msgs) ==
    /\ ~active
    /\ ~failure
    /\ \E i \in DOMAIN msgs : msgs[i].txid = UNDEFINED_TX_ID
    /\ failure' = TRUE
    /\ UNCHANGED <<clock, transactions, data, active, batch, todo, cur, scheduled>>

\* The runtime calls on_tick.
OnTick(msgs) ==
    /\ ~active
    /\ ~failure
    /\ \A i \in DOMAIN msgs : msgs[i].txid # UNDEFINED_TX_ID
    /\ active' = TRUE
    /\ batch' = msgs
    /\ todo' = DOMAIN msgs
    /\ UNCHANGED <<clock, transactions, data, cur, scheduled, failure>>

\* Mutant of BeginTx: clock.current() instead of clock.next().
BeginTxAtCurrent(x) ==
    /\ active
    /\ ~failure
    /\ \A i \in todo : batch[i].txid # cur
    /\ \E i \in todo : batch[i].txid = x
    /\ cur' = x
    /\ UNCHANGED <<clock, transactions, data, active, batch, todo, scheduled, failure>>

\* The next iteration over messages_per_tx: the tick of transaction x begins
\* with a timestamp of its own.
BeginTx(x) ==
    /\ active
    /\ ~failure
    /\ \A i \in todo : batch[i].txid # cur
    /\ \E i \in todo : batch[i].txid = x
    /\ cur' = x
    /\ clock' = clock + 1
    /\ UNCHANGED <<transactions, data, active, batch, todo, scheduled, failure>>

\* Message i is the one ServerTX::tick of the current transaction is at.
Handles(i) ==
    /\ active
    /\ ~failure
    /\ i \in todo
    /\ batch[i].txid = cur
    /\ \A j \in todo : batch[j].txid = cur => i <= j
    /\ todo' = todo \ {i}
    /\ UNCHANGED <<clock, active, batch, cur>>

tx == transactions[cur]

Schedule(msg) == scheduled' = Append(scheduled, msg)

\* Mutant of Start: the reply is made before read_ts_ is set.
StartReplyFirst(i) ==
    /\ Handles(i)
    /\ tx.state = "NOT_STARTED"
    /\ batch[i].type = "MSG_START"
    /\ transactions' = [transactions EXCEPT ![cur].state = "OPEN",
                                            ![cur].read_ts = clock]
    /\ Schedule(MsgStartAck(batch[i].destination, batch[i].source, cur, tx.read_ts))
    /\ UNCHANGED <<data, failure>>

Start(i) ==
    /\ Handles(i)
    /\ tx.state = "NOT_STARTED"
    /\ batch[i].type = "MSG_START"
    /\ transactions' = [transactions EXCEPT ![cur].state = "OPEN",
                                            ![cur].read_ts = clock]
    /\ Schedule(MsgStartAck(batch[i].destination, batch[i].source, cur, clock))
    /\ UNCHANGED <<data, failure>>

\* Anything else before MSG_START is logged and dropped.
ReportUnexpectedMsg(i) ==
    /\ Handles(i)
    /\ tx.state = "NOT_STARTED"
    /\ batch[i].type # "MSG_START"
    /\ UNCHANGED <<transactions, data, scheduled, failure>>

Put(i) ==
    /\ Handles(i)
    /\ tx.state = "OPEN"
    /\ batch[i].type = "MSG_PUT"
    /\ transactions' =
         [transactions EXCEPT ![cur].puts =
            Append(@, [key |-> batch[i].key, value |-> batch[i].value])]
    /\ Schedule(MsgPutReply(batch[i].destination, batch[i].source, cur,
                            batch[i].msg_id))
    /\ UNCHANGED <<data, failure>>

Commit(i) ==
    /\ Handles(i)
    /\ tx.state = "OPEN"
    /\ batch[i].type = "MSG_COMMIT"
    /\ Conflicts(tx.puts, tx.read_ts) = {}
    /\ transactions' = [transactions EXCEPT ![cur].state = "COMMITTED",
                                            ![cur].commit_ts = clock]
    /\ data' = Apply(cur, clock, tx.puts)
    /\ Schedule(MsgCommitAck(batch[i].destination, batch[i].source, cur, clock))
    /\ UNCHANGED failure

\* The reply blames the writer of the last version of the key of the first
\* put in conflict.
RollBack(i) ==
    /\ Handles(i)
    /\ tx.state = "OPEN"
    /\ batch[i].type = "MSG_COMMIT"
    /\ \E p \in Conflicts(tx.puts, tx.read_ts) :
          /\ \A q \in Conflicts(tx.puts, tx.read_ts) : p <= q
          /\ Schedule(MsgRolledBackByServer(batch[i].destination,
                batch[i].source, cur, GetLast(data[tx.puts[p].key]).txid))
    /\ transactions' =
         [transactions EXCEPT ![cur].state = "ROLLED_BACK_BY_SERVER",
                              ![cur].commit_ts = clock]
    /\ UNCHANGED <<data, failure>>

\* An open transaction skips what is neither a put nor a commit.
Ignore(i) ==
    /\ Handles(i)
    /\ tx.state = "OPEN"
    /\ batch[i].type \notin {"MSG_PUT", "MSG_COMMIT"}
    /\ UNCHANGED <<transactions, data, scheduled, failure>>

\* A message for a transaction that has ended: std::runtime_error.
BrokenSwitch(i) ==
    /\ Handles(i)
    /\ tx.state \in {"COMMITTED", "ROLLED_BACK_BY_SERVER"}
    /\ failure' = TRUE
    /\ UNCHANGED <<transactions, data, scheduled>>

\* on_tick hands what was scheduled to the runtime and returns.
Send ==
    /\ active
    /\ ~failure
    /\ todo = {}
    /\ active' = FALSE
    /\ batch' = <<>>
    /\ cur' = UNDEFINED_TX_ID
    /\ scheduled' = <<>>
    /\ UNCHANGED <<clock, transactions, data, todo, failure>>

HandleMessage(i) ==
    \/ Start(i)
    \/ ReportUnexpectedMsg(i)
    \/ Put(i)
    \/ Commit(i)
    \/ RollBack(i)
    \/ Ignore(i)
    \/ BrokenSwitch(i)

\* Other actors take timestamps from the same clock between two on_tick calls.
ClockNext ==
    /\ ~active
    /\ clock' = clock + 1
    /\ UNCHANGED serverVars

ServerStep ==
    \/ \E x \in TxIDs : BeginTx(x)
    \/ \E i \in todo : HandleMessage(i)

Next ==
    \/ \E msgs \in Batches : RejectBatch(msgs) \/ OnTick(msgs)
    \/ ServerStep
    \/ Send
    \/ ClockNext

Spec == Init /\ [][Next]_vars

-----------------------------------------------------------------------------
(* The two loops over the puts of a transaction, put by put as in the code. *)

\* Storage::apply: map::insert.
ApplyOne(store, x, ts, put) ==
    IF \E v \in store[put.key] : v.ts = ts THEN store
    ELSE [store EXCEPT ![put.key] =
            @ \union {[ts |-> ts, txid |-> x, value |-> put.value]}]

ApplyLoop(x, ts, puts) ==
    LET store[i \in 0..Len(puts)] ==
          IF i = 0 THEN data ELSE ApplyOne(store[i - 1], x, ts, puts[i])
    IN  store[Len(puts)]

\* The search for the first put in conflict: 0 when there is none.
ConflictLoop(puts, read_ts) ==
    LET found[i \in 0..Len(puts)] ==
          IF i = 0 THEN 0
          ELSE IF found[i - 1] # 0 THEN found[i - 1]
          ELSE IF data[puts[i].key] = {} THEN 0
          ELSE IF GetLast(data[puts[i].key]).ts > read_ts THEN i ELSE 0
    IN  found[Len(puts)]

-----------------------------------------------------------------------------
(* Properties *)

\* Every variable stays in its domain, whatever is sent and in any order.
TypeOK ==
    /\ clock \in Nat
    /\ transactions \in [TxIDs -> ServerTX]
    /\ data \in [Keys -> SUBSET Version]
    /\ active \in BOOLEAN
    /\ batch \in Seq(Requests)
    /\ todo \subseteq DOMAIN batch
    /\ cur \in TxIDs \union {UNDEFINED_TX_ID}
    /\ scheduled \in Seq(Replies)
    /\ failure \in BOOLEAN

\* Two committed transactions that put a common key never overlap: one had
\* committed before the other took its snapshot.  The commit loop of
\* ServerTX::process_msg_open looks only at the last version of each key, so
\* this needs versions to be in commit order and timestamps never shared.
FirstCommitterWins ==
    \A x, y \in Committed :
        /\ x # y
        /\ PutKeys(transactions[x].puts) \intersect PutKeys(transactions[y].puts) # {}
        => \/ transactions[x].commit_ts < transactions[y].read_ts
           \/ transactions[y].commit_ts < transactions[x].read_ts

\* The store holds exactly what was committed: each key a committed
\* transaction put has one version of that transaction, at its commit
\* timestamp and with a value it put; nothing else is in the store, and
\* Storage::apply, whose map::insert is a silent no-op on a timestamp that is
\* taken, never loses a transaction to another.
AtomicVisibility ==
    \A key \in Keys :
        /\ \A x \in Committed :
              key \in PutKeys(transactions[x].puts)
              => \E v \in data[key] : v.txid = x
        /\ \A v \in data[key] :
              /\ v.txid \in Committed
              /\ v.ts = transactions[v.txid].commit_ts
              /\ \E i \in DOMAIN transactions[v.txid].puts :
                    transactions[v.txid].puts[i] = [key |-> key, value |-> v.value]
        /\ \A v, w \in data[key] : v.txid = w.txid \/ v.ts = w.ts => v = w

\* What a MSG_ROLLED_BACK_BY_SERVER says is so: the transaction is rolled back
\* and the one it blames has committed in its lifetime, writing one of its keys.
Justified(m) ==
    LET loser  == transactions[m.txid]
        winner == transactions[m.conflict_txid]
    IN  /\ loser.state = "ROLLED_BACK_BY_SERVER"
        /\ winner.state = "COMMITTED"
        /\ loser.read_ts < winner.commit_ts
        /\ winner.commit_ts < loser.commit_ts
        /\ PutKeys(loser.puts) \intersect PutKeys(winner.puts) # {}

\* No transaction is rolled back without a reason it can check.  The reason is
\* computed from Storage::get_last, which knows one version of the key only.
ConflictIsReal ==
    \A i \in DOMAIN scheduled :
        scheduled[i].type = "MSG_ROLLED_BACK_BY_SERVER" => Justified(scheduled[i])

\* types.h: all events have unique timestamps.  No timestamp a transaction
\* got from the server is also a timestamp of another transaction; the
\* conflict test compares them strictly and relies on it.
EventTimes(x) == {transactions[x].read_ts, transactions[x].commit_ts}
UniqueTimestamps ==
    \A x, y \in TxIDs :
        x # y => EventTimes(x) \intersect EventTimes(y) \subseteq {UNDEFINED_TS}

\* What has happened stays: versions are never changed or removed, a new one
\* is newer than every version its key had, and a transaction that has ended
\* is never touched again, though requests for it may still arrive.
HistoryIsFinal ==
    [][/\ \A key \in Keys :
            /\ data[key] \subseteq data'[key]
            /\ \A v \in data[key], w \in data'[key] \ data[key] : v.ts < w.ts
       /\ \A x \in Committed \union RolledBack :
            transactions'[x] = transactions[x]]_vars

\* Apply and Conflicts compute what the loops of ServerTX::process_msg_open
\* compute, for every transaction about to commit, and also at a timestamp
\* that is already in the store: the search ends at the first put in conflict.
LoopsAgree ==
    \A x \in TxIDs : transactions[x].state = "OPEN" =>
        LET puts == transactions[x].puts
            read_ts == transactions[x].read_ts
            conflicts == Conflicts(puts, read_ts)
            found == ConflictLoop(puts, read_ts)
        IN  /\ \A ts \in 0..(clock + 1) : Apply(x, ts, puts) = ApplyLoop(x, ts, puts)
            /\ IF conflicts = {} THEN found = 0
               ELSE found \in conflicts /\ \A i \in conflicts : found <= i

-----------------------------------------------------------------------------
(* The server implements SnapshotIsolation: the timestamps order what the  *)
(* abstract specification records as sets.                                 *)

AbstractStatus ==
    [NOT_STARTED |-> "idle", OPEN |-> "active", COMMITTED |-> "committed",
     ROLLED_BACK_BY_SERVER |-> "aborted"]

SI == INSTANCE SnapshotIsolation WITH
    NoTx   <- UNDEFINED_TX_ID,
    status <- [x \in TxIDs |-> AbstractStatus[transactions[x].state]],
    seen   <- [x \in TxIDs |->
                {y \in Committed :
                    transactions[y].commit_ts < transactions[x].read_ts}],
    writes <- [x \in TxIDs |-> PutKeys(transactions[x].puts)],
    latest <- [key \in Keys |->
                IF data[key] = {} THEN UNDEFINED_TX_ID ELSE GetLast(data[key]).txid]

\* Every behaviour of the server, under any requests, is one of write-write
\* snapshot isolation.
ImplementsSnapshotIsolation == SI!Spec

=============================================================================
