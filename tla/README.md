# simple_db: specifications and proofs

simple_db is two programs in one repository that do not use each other yet:

* a **transaction prototype** (`src/src/tx`): clients run transactions against
  one server, which keeps a multi-version store and detects write conflicts. All
  actors live in a single-threaded simulator that moves messages between them;
* a **storage engine** (`src/src/store`, `table`, `transform`, `buffer_pool`):
  tables of fixed-size rows in pages, cached in frames by a clock.

This directory models both, model-checks them with TLC, and proves with TLAPS the
safety of both, part by part and as a whole.

## Inventory

### Transactions (`src/src/tx`)

| Part | State | Operations | Model |
|---|---|---|---|
| messages (`msg/`, `types.h`) | | the `CreateMsg…` functions | `TxMessages` |
| `Server`, `ServerTX` | a `ServerTX` per txid: state, read_ts, commit_ts, puts | `on_tick`, `tick` | `TxServer` |
| `Storage` | for each key an ordered map from timestamp to (txid, value) | `get_last`, `apply` | `TxServer` |
| `Retrier` | the messages scheduled in this tick | `schedule`, `get_scheduled_msgs` | `scheduled`, `outbox` |
| `Client`, `ClientTx` | a `ClientTx` per `TxSpec` | `on_tick`, `tick` | `TxClient` |
| `TxParticipant`, `RequestsManager` | state of the session, table of puts and their answers | `process_incoming`, `add_put`, `prepare_msg`, `complete_request` | `TxClient` |
| `Runtime`, `ProxyRuntime`, `Clock` | heap of sent messages, inboxes, time | `run`, `send`, `next` | `TxRuntime` |
| `Discovery`, `Generator` | the servers; two counters | `get_random`, `get_by_key` | `TxClient` |

A tick of the runtime empties the inboxes, moves every message that is due
from the heap to the inbox of its destination, and calls `on_tick` of each
actor. An actor ticks its transactions one after the other, each with a fresh
timestamp of the shared clock, and what they scheduled is sent when it returns.
A client draws a txid, sends MSG_START, then its puts one per tick, and when all are
answered MSG_COMMIT; the server answers MSG_COMMIT_ACK, or
MSG_ROLLED_BACK_BY_SERVER with the transaction that got in the way.

What is hard: transactions overlap in any way; the heap does not order messages
sent in one tick; the server iterates an `unordered_map`; the conflict test
knows only the last version of a key and compares timestamps strictly; puts of a
transaction are applied one by one through `map::insert`, which does nothing
when the timestamp is taken; `run` stops after a number of ticks, whatever is
under way. Correct means: committed transactions with a common key never
overlap, the store is exactly what was committed, verdicts are true, clients
report what the server decided, and every commit is decided.

### Storage engine

| Part | State | Operations | Model |
|---|---|---|---|
| `File` | descriptor, size; the file on disk | open, `alloc_page`, `read`, `write`, close | `BufferPool` |
| `ClockCache` | page → frame, tag/usage/lock of each frame, the hand | `get`, `put`, `lock`, `unlock` | `BufferPool` |
| `FramePool`, `PoolPage`, `BufferPool` | frames: owner, page, bytes, ref_count | `acquire_frame`, `release_frame`, destructor | `BufferPool` |
| `Table` | `current_page_index_` | `insert_row`, `get_row` | `Store` |
| `FixedTablePage`, `Marshal` | the bytes of a page | `insert_row`, `get_row`, `serialize_row`, `deserialize_row` | `TablePage` |
| `Store` | the pool; the directory with the files by name | `connect_table`, `exists`, `drop`, end | `Store` |
| `Database` | | empty stubs | not modelled |

A table call gets a page from the pool, which finds its frame by (descriptor,
page) or takes a frame from the clock, writes the former page back and reads
the new one. `Frame::owner` keeps a `File` alive as long as a frame holds one of
its pages. What is hard: pages evicted in the middle of long sequences, frames
used by several holders, descriptors that the kernel hands out again, two `File`
objects of one file, files dropped while tables and frames hold them, a process that
dies with rows in frames only, a full disk, rows that do not match their schema, the
loops of `put` and `insert_row`. Correct means: the cache layers agree, a held page
stays, a page changes only through who holds it, a row stays where `insert_row`
said it is, a crash takes only rows that are in no file, and calls return.

## Modules

```
TxMessages <- TxServer  - implements -> SnapshotIsolation
           <- TxClient
              TxRuntime - implements -> LockstepNetwork
TxSystem = TxServer + TxClient + TxRuntime       (INSTANCE of each)
TxConversation EXTENDS TxSystem                  (its invariant)

TxServerProofs EXTENDS TxServer, TxClientProofs EXTENDS TxClient
TxRuntimeProofs EXTENDS TxRuntime
TxSystemProofs EXTENDS TxConversation            (INSTANCE of the proofs above)

BufferPool - implements -> PagedFiles
TablePage  (operators: bytes of a page)
Store = BufferPool + TablePage - implements -> RowStore
BufferPoolProofs EXTENDS BufferPool, BufferPoolRefinement EXTENDS BufferPoolProofs
StoreProofs EXTENDS Store                        (INSTANCE of BufferPoolRefinement)
Recursion  (lemmas: induction and recursive functions, for the proof modules)
```

* **TxServer.** `transactions` is `Server::transactions_`; an id not in it yet is a
  `ServerTX` as constructed. `data[key]` is the set of the entries of
  `Storage::data_[key]`. `on_tick` is one `OnTick`, one `BeginTx` per transaction
  of the batch (which takes the timestamp), one handler action per message
  (`Start`, `Put`, `Commit`, `RollBack`, `Ignore`, `ReportUnexpectedMsg`,
  `BrokenSwitch`) and `Send`. The order of `BeginTx` is open, as is the iteration
  order of the map. The two loops over the puts of a committing transaction are
  written in closed form, `Conflicts` and `Apply`; `LoopsAgree` compares them with the
  loops put by put (`ConflictLoop`, `ApplyLoop`), in the run `server_batches` and in a proof. An exception sets `failure` and stops the server.
* **TxClient.** One action per branch of `ClientTx::tick`, its timestamp included
  (`Ticks`). With one server there is one participant per transaction; its fields
  are in the record of the transaction. Of msg_ids only those of puts matter. A
  `Discovery` of no server, or of two, ends the program when the first transaction
  starts (`StartWithoutServer`). The loop over the verdicts a transaction gets at once is
  written in closed form, `AfterVerdicts`; `VerdictsAgree` compares it with the loop. A
  message that is no verdict ends the program after the verdicts before it were taken
  (`VerdictsFirst`).
  `export_results` is what a client reports of a transaction, and what `TxSystem` compares
  with the server.
* **TxRuntime.** `run` loop by loop: `BeginTick`, `Deliver` per message, `SendToActors`,
  `Call` and `Return` around an `on_tick`, `EndTick`. `Deliver` takes any least entry of
  the heap. Alone, the actors send any messages of `Messages` in sequences of
  `Outboxes`; `Fresh` says that each message has an id of its own, as the Generator
  gives it.
* **TxSystem.** The three as in `test_full_tx.cpp`; registration order is open. What
  the parts leave open is bound here: `Batches`, `ReplyBatches` and `Outboxes` are
  empty, since the runtime calls the actors and the actors send.
* **TxConversation.** Definitions over the state of `TxSystem`, no state of its own: the
  numbered requests and replies of a transaction, how far its two sides have come, and
  the invariant that relates them to the messages on their way.
* **BufferPool.** `files[fd]` is the `File` object with that descriptor; it is closed
  when neither a table nor a frame holds it (`FilesHeld`). `disk` is by inode. The
  iterations of `ClockCache::put` are steps of their own (`SkipLocked`, `SpendUsage`,
  `Replace`, `ReadFails`); every other call is one step. Any free descriptor may be
  handed out, of which the lowest, the kernel's choice, is one. Failed asserts set
  `aborted`: the model is of a build with asserts. A failed read has the former page of
  the frame on disk already; what it did in memory is gone with the process (`ReadFails`). `Crash` is no step of the pool's `Next`,
  since the pool promises nothing of it; `Store` does.
* **TablePage.** A value is its alternative of the variant and its bytes;
  `serialize_row` lays the bytes of the values one after the other,
  `deserialize_row` reads as many bytes as the types of the schema have. Both go by
  `sizeof`; the stride of slots goes by the declared lengths.
* **Store.** `InsertRow`/`GetRow` begin a call, the others are its steps. `told` is
  history: the ids `insert_row` returned. A `Table` holds one `PoolPage` at a time.
  `directory` is the name of each inode; `Drop` removes the name and leaves the pages to
  the `File`s that have the inode open. `Crash` may come between any two steps, also in
  the middle of `put`; it leaves the disk and the names. A death of the process in the
  middle of `~FramePool`, after some of its page writes, is not a step of its own: it
  leaves on disk what evictions of those pages, and then a crash, leave.

The abstract specifications are short on purpose: `SnapshotIsolation` knows neither
time nor versions, `LockstepNetwork` only rounds, `PagedFiles` only pages and
their holders, `RowStore` only rows and which of them a crash would leave.

## Runs

| Run | Instance | What it shows |
|---|---|---|
| `server` | 3 transactions, 2 keys, 1 request per `on_tick`, any request at any time | types, `FirstCommitterWins`, `ConflictIsReal`, `UniqueTimestamps`, `HistoryIsFinal`, refinement of `SnapshotIsolation` |
| `server_batches` | 2 transactions, 2 requests per `on_tick`, 2 puts, 2 values | refinement of `SnapshotIsolation` where a tick handles a put and a commit, and repeated puts of a key; `AtomicVisibility` of commits of two puts, also when an exception ends the tick after them; `LoopsAgree` |
| `client` | 1 client, 2 transactions, up to 2 arbitrary replies per `on_tick`, 0 to 2 servers | lost, repeated, early and foreign replies never make up for a missing answer; one message per transaction and tick; `VerdictsAgree` |
| `runtime` | 2 actors that take timestamps and send as they like, 4 ticks | refinement of `LockstepNetwork`, no duplicates, time advances, `run` ends |
| `system` | 2 clients, 3 transactions, 14 ticks | no exception is reachable, at most one message per transaction in an inbox, puts in order at the server and in what clients report, clients and server agree, the store is what clients committed, requests and replies of each transaction alternate in order (`Conversations`) |
| `system_liveness` | 2 clients, 2 transactions, more specs, 20 ticks | every commit is decided |
| `system_rollback` (violation) | as above, specs may say ROLLBACK | such a transaction never ends |
| `buffer_pool` | 2 frames, 2 descriptors, 2 files of 2 pages, 2 holders | layers agree, descriptors are not reused while cached, held pages stay, `put` gets nearer to every unlocked frame with every iteration, refinement of `PagedFiles` |
| `buffer_pool_disk_full` (violation) | 1 frame | a failed fallocate goes unnoticed until the page is read |
| `store` | 1 frame, 2 names, 2 inodes of up to 2 pages of 2 rows, 3 insertions, a drop or a crash | a file holds what was inserted and nothing else, refinement of `RowStore`, a file grows only when it is full, every step of a call brings its end nearer, calls return |
| `store_reconnect` (violation) | 2 frames, 1 table at a time | a reconnected table does not see unflushed rows |
| `store_example` (violation) | schema and row of `example/main.cpp` | the row does not read back |

**Bounds.** Every bound is a constant of an MC module or cfg. Three transactions are
the fewest of which one can overlap two others that do not overlap each other, and two
keys the fewest that make "one of its keys" differ from "its key". `MaxClock`,
`MaxPuts` and `MaxUsage` are state CONSTRAINTs: they cut behaviours off, so that the
runs say nothing about later states; so are `MaxInserts`, `MaxEvents` (drops and
crashes together) and `NamesInOrder`, which leaves out the behaviours that differ only in
which name comes first. `MaxCrashes` is in the guard of `Crash`. `LowestDescriptor`, an
ACTION_CONSTRAINT of `store`, is what the kernel does. For the safety properties this is the usual bound.
Of the liveness properties only `OperationsEnd` is checked under a CONSTRAINT: a
behaviour that reads one page more than `MaxUsage` times between two turns of the clock
is not followed further, so the property is shown for calls that stay within the
bound. `system` and `system_liveness` have no CONSTRAINT: `MaxTicks` is the parameter of
`run`. In `system` 14 ticks are enough for all three transactions to be decided
in most schedules and for every overlap of two; in `system_liveness` 20 ticks, the number
`test_full_tx.cpp` uses, decide every commit. Two frames with two files of two pages
force evictions with a frame locked; one frame in `store` makes every change of table or
page an eviction. A page of 25 bytes has two slots of ten and a rest.

CHECK_DEADLOCK is FALSE where the program may stop: after an exception or a failed
assert, at the end of `run`, or where a bound on inputs is reached.

**Fairness.** The program has one thread, and `run`, `put`, `insert_row` and `get_row` are
sequential code: weak fairness of their steps says only that the thread is not
suspended for ever. Nothing is fair about what callers do, which spec they have, or
when they connect and disconnect.

**Symmetry** is used in safety runs only: over transactions and keys in the server
runs, over holders and inodes in `buffer_pool`.

## Findings

1. `system_rollback`: `tx_spec.h` says a spec also decides whether the transaction is
   rolled back in the end; `ClientTx::tick` only knows COMMIT. There is no message to
   roll back, and the transaction stays open at both ends.
2. `buffer_pool_disk_full`: `File::alloc` compares the result of `fallocate` with 1, and
   failure is -1.
3. `store_reconnect`: the disabled test `InsertAndGetRowWithRestart` fails because the
   reconnected table has a `File`, a descriptor and frames of its own. The
   trace is the test: connect, insert, disconnect, connect, get. With one frame it
   does not happen, since reading the new page evicts, and so writes, the old.
4. `store_example`: the example's row has a `size_t` where the schema has a boolean, and
   its schema declares four bytes for a `uint64_t`.

## Proofs

Each component has a module of proofs: `TxServerProofs`, `TxClientProofs`, `TxRuntimeProofs`,
`TxSystemProofs`, `BufferPoolProofs` with `BufferPoolRefinement`, and `StoreProofs`; each holds
the invariants and the refinement they make possible. The assumptions are those the component
modules state about their constants, which TLC evaluates in the passing runs. The theorems of
`TxSystemProofs` and `StoreProofs`, `PoolImplementsFiles` and `ReadsAreWhole` have hypotheses
besides; they are named below.

Every invariant, action property and refinement that a passing run checks is also proved. Of the
properties that violation runs refute, `ReadsWholePages`, `RowsReadBack` and `GetsWhatWasInserted`
are proved under the hypotheses that exclude the finding. Liveness stays with TLC.

`Recursion` is for what loops compute. The induction theorems of the library take a predicate,
which the provers here cannot instantiate. `LeastNatural` gets from well-foundedness of `<`, which
is a statement about sets, that a nonempty set of numbers has a least element;
`InductionUpTo` and `LoopExists` then speak of sets and functions as values. `LoopExists` says
that a function defined by recursion up to `n` exists, so that the `LET f[i \in 0..n] == ...` of a loop
is what it looks like.

### The server

For any sets of transactions, keys, values and clients, any batches of requests, and no
bound on anything, TLAPS proves of `TxServer!Spec`: `TypeOK`, `FirstCommitterWins`,
`AtomicVisibility`, `ConflictIsReal`, `UniqueTimestamps` and the action property
`HistoryIsFinal`, `ImplementsSnapshotIsolation` and `LoopsAgree`.

`FirstCommitterWins` is not inductive. `Commit` compares `read_ts` with the last version
of each key only; that no committed transaction is missed needs

* `StoreIsHistory`, `NothingLost`, `OneVersionEach`: versions are the puts of
  committed transactions at their commit timestamps, all of them, once;
* `HasLast`: a key with versions has a last one, so that `GetLast` means something;
* `TimesPassed`: no timestamp is ahead of the clock, and the clock's value belongs to
  the transaction being ticked alone, so that a new version is newer than all others
  and `Storage::apply` always inserts;
* `LifeCycle`: which timestamps a transaction has in which state.

Together with `ConflictIsReal` these are `IInv`. There is one lemma per kind of step
(`StartHistory`, `PutHistory`, `RollBackHistory`, `CommitHistory`); steps that do not
touch transactions or store share `QuietHistory`. The theorems follow from
`Invariance` by PTL.

`ServerImplementsSnapshotIsolation` maps timestamps to sets of transactions. Three facts
carry it: the timestamp of a `MSG_START` is later than every commit, so a new snapshot
is exactly what has committed; the clock at a commit is no earlier than any `read_ts`, so
a commit enters no snapshot that exists; and `RivalsAreConflicts`: the last version of
some key is newer than the snapshot exactly if some committed transaction outside the
snapshot wrote a common key (`NothingLost` one way, `StoreIsHistory` the other).

`LoopsCompute` proves `LoopsAgree`: the loops over the puts compute `Apply` and `Conflicts`, for any
number of puts. After `i` puts the store holds the first put of each key among them
(`ApplyIsLoop`), where the guard of `map::insert` makes the first one win; the search stops at the least
conflict, if there is one (`ConflictsAreFound`).

### The clients

For any clients, transactions and specs, and any replies at any time, in any number and
from anybody: `ClientTypeOK`, `CommitAfterEveryPut`, `OneMessagePerTick`, `VerdictsAgree`. The counter
`completed_puts` decides when the commit is sent, and nothing in the code relates it to
the table of requests. The invariant does: `CountIsRight` says it is the number of
requests with status completed, which `complete_request` keeps because a repeated or foreign
reply finds no request that is still open (`Completion`); `RequestsAreSpec` says that the
requests are the first puts of the spec. `OneMessagePerTick` needs that `OPEN` sends either
a put or the commit: with all puts completed none is left to add. `VerdictsCompute` proves that
the loop over the replies ends in what `AfterVerdicts` says, by induction over the messages
received (`VerdictsAreLoop`).

### The runtime

For any actors that send any fresh messages, also to nobody, and any number of ticks:
`RuntimeTypeOK`, `NoDuplicates`, `TimeAdvances`, and that it implements
`LockstepNetwork`. `AllDue` carries it: while messages are delivered, everything queued has
been sent at or before the current time, so the loop that stops at the first entry that is
not due stops when the heap is empty (`QueueDrained`), and nobody's message is left for the
tick after. Every actor is registered once, so by the end of a tick each inbox has been
handed over (`Inboxes`).

### The program

For any clients, transactions, specs, keys and values, any order of registration and any
number of ticks, of `TxSystem!Spec`: `NoFailure`, `OneMessagePerTransaction`, `PutsInOrder`,
`ClientsAgreeWithServer`, `StoreIsWhatClientsCommitted`, `Conversations`; that the server in
the system behaves as `TxServer` alone (`ServerInSystem`), and so that the program implements
`SnapshotIsolation`. Two hypotheses: `IdsSuffice`, the Generator never runs out of ids (in
the code it counts in 64 bits; the runs have as many ids as their specs draw), and
`ServerIsDiscovered`, the clients know the one server. Without the second `NoFailure` is
false, as the run `client` shows with a `Discovery` of two.

None of these is inductive, and no part can prove them alone: a client is safe because the
server only answers, the server because the client only asks in turn, and both because the
runtime delivers what one tick sent in the next. `Conversation(t)` says it for one transaction.
Number its requests: MSG_START is 1, the puts follow, MSG_COMMIT is last. The states of the two
sides determine what the client has `Sent`, the server has `Handled` and the answers the client
has `Taken`; `Sent - Handled` requests are on their way, at most one ready and one sent in this
tick, and the ready one is number `Handled + 1`; likewise for replies. `SamePuts` and
`SameVerdict` say what the two sides hold at that point. Besides, `NoStrangers`: messages and
server transactions belong to a client transaction that has started; `OneRuns`,
`SilentBefore`, `OneMessageEach`: whose `on_tick` runs, and that an actor has sent nothing before
its turn.

The steps of the system are reduced to that of one part and to one conversation: `ServerKept`,
`ClientsKept` and `RuntimeKept` carry over the invariants of the parts, through instances of
their proof modules with any batch an actor may be called with; `AnswerInv` and `TickInv` say
that a step of server or client moves the messages of one transaction only. What remains is
to go through the states of that one: `StartInv`, `PutInv`, `CommitInv`, `RollBackInv` at the
server, `SendStartInv`, `ReceiveStartAckInv`, `TickOpenInv`, `ReceiveVerdictInv`,
`TickEndedInv` at the client. That the other branches, those that throw, are not taken is
`NothingUnexpected` and `NothingSurprising`.

### The buffer pool

For any number of frames, descriptors, inodes, pages, page values and (finitely many)
holders, with or without reopened files and full disks: `TypeOK`, `LayersAgree`,
`DescriptorsNotReused`, `HeldPagesStay`. They are inductive together with

* `RequestWellFormed`: while `ClockCache::put` runs, its page is in no frame and its
  `File` belongs to a table, so filling a frame never makes a second copy;
* `PagesWellFormed`, `FilesWellFormed`, `DiskBounded`: holders know their frame, tables
  keep their `File`s alive and open on an inode, files stay within `MaxPages`.

`ReplaceEffect` says what one eviction changes; the lemmas per conjunct use only that.

`PutDrawsNearer` proves `PutComesCloser`: `TurnsTo(f)`, the calls of `increase` until the
hand has come to frame `f` and found its usage spent, falls by exactly one in each iteration
of `ClockCache::put`, for every unlocked frame (`StepOfHand`). As it is a natural number,
`put` ends unless all frames are locked; that last step, from measure to termination, is
liveness and stays with `OperationsEnd`.

`PoolImplementsFiles` proves `ImplementsPagedFiles` when `Reopens` is `FALSE`. It needs
`RInv`: one `File` per open file, which knows of every page, and frames hold only pages
that are on disk. So a page is in at most one frame (`ContentOfCached`), and eviction and
reload (`ReplaceContent`), the flush of the destructor (`RestartContent`) and failing
`fallocate`s stutter. Without `~Reopens` one step of the proof fails, `OpenFile`, and with it
the promise: that is finding 3.

`ReadsAreWhole` proves `ReadsWholePages` when `DiskMayFill` is `FALSE`, also with reopened
files: no `File` knows of a page that is not on disk (`SizesOnDisk`). A `fallocate` that
fails is the one step that breaks it, and finding 2.

### The store

Of `Store!Spec`, for any number of frames, descriptors, inodes, pages and crashes, any page
size, schema and rows, and any order of connections, drops, ends and calls:
`RowsAreWhatWasInserted`, `GetsWhatWasInserted`, `ImplementsRowStore`, `GrowsOnlyWhenFull`,
`CallsComeCloser`, `RowsReadBack`, `GetsOnlyWhatWasInserted`. The hypotheses:

* `LayoutFits`: each column declares a length no less than the `sizeof` of its type, and of the
  values that are inserted there. It is true of the schema and rows of the tests
  (`TestLayoutFits`, which TLC evaluates), and not of those of the example. The code does
  not check it.
* `~Reopens`, for all but the last: no file is opened anew while frames hold it. Without it
  finding 3 refutes `GetsWhatWasInserted`.
* for `RowsReadBack` also `~DiskMayFill`, since a read beyond the end of a file is an assert
  too, and `RowsOfSchema`: rows have a value of its type for every column. TLC evaluates
  it for the rows of the tests: it is true of those of the schema's types and false of the one
  with a null (`TestRowsOfSchema`).

From the first the proofs get down to the bytes. `Totals` are the sums of the first lengths:
they are a recursive function, and that they grow and keep order column by column
(`TotalsGrow`, `TotalsBelow`) is by the induction of `Recursion`. `FlattenedSequences` says where the
bytes of each value come to lie in what `serialize_row` writes, so `LayoutIsFit` shows that rows and
what is read for the columns stay in their slots, and `SchemaMarshals` that a row of its schema
comes back out of the bytes it was written as.

Slots are intervals of bytes that lie in the page and do not meet (`SlotsApart`), and a row
is read from its own slot only (`RowIsInSlot`); so a row that is written leaves all others
(`RowBesideRow`) and reads back (`RowReadsBack`). `PagesKeepRows` carries that over to files: if all
pages keep what they hold, all rows stay. The pool shows that they do in every step but
`WritePage`, through an instance of its proofs with the pages of this schema as values
(`KeepsPages`, `PoolKeepsRows`); `Crash`, which is no step of the pool alone, has its own
`CrashIInv` and `CrashRInv`. `SamePool` is there because `Store` uses an instance of
`BufferPool` and the proofs are about one with other values.

`RowsAreWhatWasInserted` is not inductive. It lacks

* `PageIsOperations`: the page the table holds, or waits for, is the one its operation is at,
  so `Page` is the content of that page of that file (`HeldPageIs`);
* `InsertedRow`: between its slot and the return of `insert_row` a row is in the page, was
  free and told to nobody before, and is not on disk, as its page is held;
* `RowsSaved`: what is on disk of a row is the row or nothing yet. This is what a crash
  falls back to, and why it may only take rows away.

`GrowsOnlyWhenFull` needs `PagesBehindFull`: behind `current_page_index_` no slot is free. It holds
because a `Table` leaves a page only when `find_free_slot` finds none (`SkippedPageIsFull`), slots
never become free but by a crash, and a new `Table`, after a crash or not, begins at the first page.
As the page that is made then is empty, the insertion ends on it.

`CallsDrawNearer` proves `CallsComeCloser`. `StepsLeft` counts the steps on a page (it is asked for,
found or filled, and looked at), the pages ahead of `current_page_index_`, and, if none of them has
room (`RoomAhead`), the one that has to be made. Each step of a call takes at least one of them
away, or ends in an assert, or is a turn of the clock. Then the steps left stay, and `TurnsTo` falls
for every frame: as a table holds no page while it waits for one, and every lock is that of a
holder (`NoFrameIsLocked`), no frame can be locked. Steps and turns together, lexicographically, are
the variant of the loops of `insert_row` and `put`. That the steps left are a number needs
`TableInFile`: `current_page_index_` never runs ahead of the file's pages.

`StoreImplementsRowStore` maps the rows of a file to `RowAt`, wherever their pages are, and
those a crash would leave to `SavedRow`. `InsertIntoSlot` is the abstract insertion, `GetReturns`
the read, `Crash` the crash; an eviction, a release or the end of the store is a save of the rows
on the pages it writes (`KeptRowsAreSaved`), and all else stutters.

`NoForeignRows` proves `GetsOnlyWhatWasInserted`, also with `Reopens`, full disks and crashes: what is
left of the promise where finding 3 takes the rest. `get_row` may miss a row, because the page it
reads is behind the one in another frame, or has been written over by it, or zeroed by the
`alloc_page` of a `File` that is behind; but no row it returns is one that `insert_row` did not return
this id for, be it of another slot, page, file, or a dropped table of that name. The store's other
invariants say what *the* content of a page is, which here means nothing, so the proof
has one of its own, `OnlyTold`: every row on disk, and in every frame of every `File`, is one that was
told for its inode, page and slot, except the one that an insertion has in the page it
holds. `TableInv`, the part of the invariant that does not need `~Reopens`, says which frame that
is (`HeldFrameIs`). Frames are filled from disk and written back to the page they are of, in any order
(`DumpedOnlyTold`, `AllDumpedOnlyTold`), and new pages have no rows (`ZeroRangeOnlyTold`).

### Not proved

Only model-checked: liveness (`RunEnds`, `EveryCommitDecided`, `OperationsEnd`), which is out of
reach of the prover, as is `ENABLED`. For `put`, `insert_row` and `get_row` the measure is proved, and the
step from there to termination is not.
No run checks `GetsOnlyWhatWasInserted`: in the run `store` it follows from `RowsAreWhatWasInserted`,
and `store_reconnect` is about the property that fails.
The bounds of the runs (`Bounds`, the sizes in the cfg files) are no part of the theorems;
`MaxPages`, which is in the guards of `BufferPool`, may be any number there.

## Not modelled

* `Database` (stubs), logging, random generator (unused), `ConstructFromProtected`.
* `gets` of a `TxSpec`: no code reads them. Transactions on more than one server:
  `Discovery` throws before they begin.
* What holds when one file is connected to two tables at once. `BufferPool` has the
  behaviours under `Reopens` (stale copies of a page, `alloc_page` of a `File` that is behind
  zeroing a page), and its invariants are proved with them, and that no row appears that was not
  inserted; but no doc or test says what rows ought to survive. `ImplementsPagedFiles` is
  claimed for `~Reopens`.
* What runs past the end of a page, or a row wider than a page (`SlotsAssumption`).
* Files that are no whole number of pages; errors of `open`, `pread` and `pwrite` other
  than reading beyond the end.
* A crash of the machine: `O_SYNC` is taken at its word, and page writes as whole.

## Plan

Done in this order: server and its abstraction, client, runtime, system, proofs about
the server, buffer pool, store, proofs about the buffer pool, both refinements; then `drop`, crashes,
other `Discovery`s, and the measure of `put`; then the proofs about runtime, clients and
the whole program; then the page layout and the store; then the loops of server, client
and `Marshal`, from their closed forms down to the iterations, the measure of `insert_row`, and
what holds of files that are opened anew. What could follow:

1. Which rows a reader of a reopened file sees, if the code were to write frames back before
   a file is opened again; today it does not, and that is finding 3.
2. A schema wider than a page, and files that are no whole number of pages, once the code
   says what ought to happen.
