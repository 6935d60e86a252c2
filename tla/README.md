# A TLA+ verification of node-kv

node-kv is a Node.js binding to three embedded key-value engines (LMDB, LevelDB,
RocksDB), with batching in JavaScript on top of each, and a two-generation disk
cache on top of LMDB. This directory holds TLA+ modules translated from the
code, TLC configurations that check them on small instances, and TLAPS proofs of
the main safety properties for all instances. `PROJECT.json` gives, for every
definition, the source lines it stands for.

## 1. The system and its parts

| Part | Source | State it owns | What drives it | Module |
|---|---|---|---|---|
| LMDB batch queue | `lib/lmdb/env.js`, `lib/lmdb/db.js` | `_batchOps`, `_batchSize`, the debounced `_autoFlush` | application, timer, sync callback of `close` | `LmdbBatch` |
| LMDB transactions, calls without one | `src/lmdb/{txn,db,env}-lmdb.cpp`, `lib/lmdb/txn.js` | write mutex, reader slot, the read lock, `_txn` | application, garbage collector | `LmdbTxn` |
| LMDB handles, `exists` | `lib/lmdb/env.js`, `src/lmdb/{env,db}-lmdb.cpp` | `_env`, `_dbi`, `_cur`, pending syncs; LMDB's slots | application, thread pool, collector | `LmdbHandles` |
| LMDB cursors | `src/lmdb/cursor-lmdb.cpp`, `lib/lmdb/cursor.js` | `MDB_cursor`: index and flags | application, collector, writes beside the cursor | `LmdbCursor` |
| Cache | `lib/cache/env.js`, `lib/cache/db.js` | numbered directories, `_curEnv`, `_oldEnv` | application, timer, `onfull` handler | `CacheEnv` |
| LevelDB batches | `lib/leveldb/{db,batch}.js`, `src/leveldb/{db,batch}-lvl.cpp` | native `WriteBatch`, `_cnt` | application, timer | `LevelBatch` |
| RocksDB environment | `lib/rocksdb/*.js`, `src/rocksdb/{env,db}-rocks.cpp` | list of families, list of handles, `_cfidx` | application, timer | `RocksEnv` (and `LevelBatch` for the count) |
| LevelDB cursors | `src/leveldb/cursor-lvl.cpp`, `lib/leveldb/cursor.js` | LevelDB's `DBIter` | application, writes beside the cursor | `LevelCursor` |
| RocksDB cursors | `src/rocksdb/cursor-rocks.cpp` | RocksDB's iterator | application | the binding is that of `LevelCursor`; the iterator is not modelled |
| Data types | `lib/sanitize.js`, `src/kv-types.*` | none: conversions and orders | every call | `KvTypes` |
| Set-up, `rmdir.js` | the rest of `lib/`, `src/` | none | | not modelled |

They meet in few places. Node runs one JavaScript callback at a time, so a call
is atomic for other callbacks. What makes the system hard is what a call leaves
behind for the next callback, and what can happen inside a call:

* a debounced flush runs later, on whichever object armed it last, because
  `_.debounce(...)` is evaluated once and stored on a prototype;
* LMDB blocks, and the thread it blocks is the only one that could unblock it;
* a batch can fail, or the process can end, between any two records;
* the cache's `onfull` handler runs inside the flush of one environment and
  batches, flushes, and possibly rotates another;
* `close` is asynchronous: a sync on the thread pool, then a callback;
* native objects outlive or predate the state they refer to.

## 2. Modules

Each component module has a module `MC<name>` that adds the symmetry set for
TLC, and, where something is proved, a module `<name>_proofs`.

### BatchOps

The record that `batchPut` and `batchDel` push, and its effect on a table.
`ApplyOp` executes one record; `Applied(table, ops, n)` states the effect of the
first `n` records without an order of execution (a key has the value of the last
record that names it). That the two agree is the lemma `AppliedStep` of
`LmdbBatch_proofs` and `CacheEnv_proofs`.

### LmdbBatch, which implements BatchSpec

State: `batchOps`, `batchSize` and `status` per environment; the owner of LMDB's
write mutex and the table it sees (`writer`, `dirty`); the `this` of the pending
debounced call (`timer`, one for all environments); the `flushBatchOps` call in
progress (`frame`).

| Action | Code |
|---|---|
| `Push` | `_pushBatch`: append, then flush if the size is reached, else arm the timer |
| `Flush`, `EnterFlush` | `flushBatchOps` up to `beginTxn`: returns for an empty queue, takes the mutex, or waits for ever |
| `ExecPut`, `ExecDel` | one `op.exec(txn)` of the loop; `ExecDel` blocks (see section 5) |
| `CommitBatch`, `FlushFails` | the commit and `_batchOps = []`; the catch branch: abort and rethrow |
| `SetBatchSize` | the cap of 256 and the flush that may follow |
| `Put`, `TxnBegin`, `TxnPut`, `TxnCommit`, `TxnAbort` | the application's own writes, also in a transaction held across callbacks |
| `Close`, `CloseDone` | `close` up to the queued sync; the callback after it |
| `TimerFire` | the debounced call |
| `Crash`, `Restart` | the process is killed; the files are opened again |

`flushBatchOps` is one step per LMDB call, because the process can die and an
exec can fail or block between any two. An exception that leaves the timer's
callback is uncaught and ends the process. `BatchSpec` is the promise: accepted
operations wait in order, a flush makes all of them visible at once or none.

### LmdbTxn

One environment, one thread, the `Txn` objects and the calls without a
transaction. LMDB is modelled by what the binding relies on: a write mutex that
is not recursive, ONE reader slot for the thread (the environment is opened
without `MDB_NOTLS`), snapshots as committed tables, and page reuse: `horizon`
is how far writers may have reused the pages of old snapshots, and a read below
it may return anything. `Begin`, `Renew`, `Reset`, `Abort`, `Commit`, `Collect`
are the methods and the destructor of `txn`; `Write` is put or del in a
transaction; `AutoWrite` and `Get` are the calls without one (`txn_scope`);
`ReadLock` is `require_readlock` with its ignored result. The state "loose" is a
read-only transaction whose `renew` failed after LMDB had marked it as running.
Calls that only throw change nothing and are left out.

### CacheEnv, which implements CacheSpec

The cache over two environments with its call stack: `stack` holds the calls in
progress (`flushBatchOps` of an environment before and after `beginTxn`, the
`onfull` replay, the assignment after the handler returns, the second half of
`Env.flushBatchOps`, the second push of `Db.del`). `MapFull` is `MDB_MAP_FULL`:
it calls the rotating handler in the current environment, the handler that throws
'This should not happend.' in one that was rotated away, and no handler in the
one opened as old. `Throw` unwinds the stack. `OpenCur` and `OpenOld` are the two
halves of a start, with a crash possible between them. When the map is full is
LMDB's choice; `MinRoom` says how many records an empty environment takes for
certain. `CacheSpec` is the promise for puts: two generations, a rotation makes
the recent one the older one, a flush moves pending records to the recent one in
order.

### LevelBatch

`batch[d]` is the native batch of a database with the count kept beside it in
JavaScript, `own[d]` one that the application created. `WriteBatch` and
`WriteFails` are the two outcomes of `Batch.write`, in a step of their own so
that a crash can come before them.

### RocksEnv

Which column family each record reaches: `desc` and `handles` are the native
lists, `dbs[n]` the index and handle of a `Db`, `disk` the families that exist,
`written[f]` the databases with records in family `f`. `OpenOk` and `OpenFails`
are `env.open` with the `init` of every `Db`; a failed open may have created the
first families. A `Db` that was never initialised has a NULL family, for which
RocksDB uses the default one, and a NULL database, which ends the process when it
is used.

### LmdbHandles

LMDB's table of open databases (`slots`), the `Db` objects that remember a slot by
its number, the application's write transaction with the slots it has written to,
and the calls of `sync` and `close` as work items of libuv (`jobs`).

| Action | Code |
|---|---|
| `OpenDb`, `CloseDb` | the constructor of `db` (a write transaction of its own) and `db.close`: the first free slot, and the new sequence number of a slot that is closed |
| `Put`, `Exists` | writes and `exists` without a transaction; `exists` keeps a cursor between calls |
| `BeginTxn`, `TxnPut`, `Commit`, `Abort` | a write transaction: it copies the sequence numbers, compares them at its first write to a slot and again at the commit |
| `Sync`, `CloseEnv` | the two calls, up to `uv_queue_work` |
| `Start`, `Finish`, `Callback` | the thread enters `mdb_env_sync`, `fdatasync` returns or fails, `after_sync_cb` runs; for `close` it frees the environment |
| `Collect`, `UseFreed` | the destructor of `env`; a call on what is freed |

`past` is a history variable: what the application or the disk did that a property
makes a condition of. `unsynced` says whether a commit is not yet on disk, and
`all` of a running job whether its `fdatasync` covers every commit so far.

### LmdbCursor

Cursors of one transaction over one leaf page. The page is the set of its keys,
a cursor is the index `ki` with the flags `init`, `eof`, `del` (`C_INITIALIZED`,
`C_EOF`, `C_DEL`). The moves are `mdb_cursor_first`, `last`, `next`, `prev`, `set`
and the current record, each ending as `mdb_cursor_get` ends, by clearing `C_DEL`.
`Put`, `Del` and `CursorDel` are the writes, with `ShiftUp`, `ShiftDown` and
`Emptied` for what they do to the other cursors. `EndTxn` frees the cursors of a
write transaction, which the `Cursor` objects do not learn. The history variables
`on`, `lost` and `alone` say at which key the application must think the cursor is
(that of the record last reported, or of a later seek in vain) and what has come
between, so that a move can be judged against it. `Missed` is a seek or gte that
finds nothing: the index goes where the key would be; a cursor that has a position
keeps its flags, and one that has none gets a position (`mdb_page_search` sets
`C_INITIALIZED` and clears `C_EOF`) unless the tree is empty. What nothing can
observe (the index of a cursor that is stale or has no position) is kept at a fixed
value.

### LevelCursor, which implements CursorSpec

LevelDB keeps every write as an internal entry; entry `n` of `log` is the `n`-th
write. `it` is the `DBIter`: its sequence number, its direction, where the internal
iterator is, and what it has saved. `FindNextUserEntry` and `FindPrevUserEntry`
say what the two loops of `DBIter` find; `MCLevelCursor` has the loops themselves,
step by step, and the invariant `ScansAgree` compares the two. `CursorSpec` is the
promise: a cursor walks a fixed table, in both directions.

### KvTypes

The sanitizers of `lib/sanitize.js` and the conversions of `kv-types`, as functions
(`Sanitize`, `Stored`, `v8value`, `Compare`), and a table of records that `Put` and
`Del` change through them. Integers keep a width (`ToInt32` wraps, `atoll`
saturates), a hex string is a sequence of digits packed two to a byte, a string
gets its NUL and is read up to the first one. `Documented`, `Meaning` and `Below`
are the reference definitions, made without the conversions: which inputs are keys
the documents speak of, what a key stands for, and which key is smaller. Other
inputs (numbers out of range or not integers, hex strings of odd length) are
accepted and stored like in the code, and are in the tables of the run, but
`FindsSame` says nothing of them; `KeyFindsRecord` and `Ordered` do.

## 3. Runs

Passing runs:

| Run | Bounds | What it shows |
|---|---|---|
| `batch_faults` | 1 environment, 3 keys (1 refused by LMDB), 2 values, 3 operations, sizes 0, 2, 3, 300 | with failing puts and commits, closes, held transactions and crashes: `Conservation`, `MutexReleased`, `DirtyIsPrefix`, and the refinement `AtomicBatches` |
| `batch_live` | 2 environments, 3 operations each, sizes 0, 1, 3 | with a shared timer, puts only: `QueueBounded`, and `LastIsFlushed` under fairness |
| `txn_safe` | 2 `Txn` objects, 1 key, 2 values, 4 commits | `MutexOwned`, `SlotOwned`, `SnapshotIntact`, `NoLostUpdate`, `ReadCommitted` |
| `cache_faults` | 2 keys (1 refused), 4 operations, 4 directories, batches of 2 | with errors, deletions, closes, `rmStale` and crashes: `TypeOK`, `PairIsNewest`, `NeverOlder` |
| `cache_puts` | 2 keys, 4 operations, 6 directories, batches of 2 | with puts and crashes: `RotatesOnce`, `ShouldNotHappen`, the refinement `TwoGenerations`, and `AutoFlush` under fairness |
| `level_safe` | 2 databases, 2 batched operations each, and 2 in application batches | `CountExact`, `Conservation` |
| `rocks_safe` | 3 databases | `Isolation`, `FamilyExists`, `OpenIsComplete` |
| `level_cursor` | 3 keys, 4 writes | `RestsBetween`, `ScansAgree`, `MovesAsCalled`, and the refinement `WalksSnapshot` |
| `lmdb_cursor` | 4 keys, 2 cursors | `Placed`, `InPage`, `LoopExact`, `MovesToNeighbour`, `FreedOnce` |
| `lmdb_handles` | 2 databases, 2 slots, 2 calls of `sync` or `close` | `SlotKept`, `OwnDatabase`, `ClosedIsDurable`, `SyncsOpenEnv`, and `CloseEnds` under fairness |
| `kv_types` | integers of 3 bits (int64: 4) and inputs to 9 either side, base 2, 4 digits or characters, 2 records | `FindsSame`, `KeyFindsRecord`, `Ordered` |

Type invariants are proved (section 4); `cache_faults` checks that of `CacheEnv`
as well, and `KvTypes`, which has functions and one table, has none. That the
queues of two environments do not mix is the theorem `NothingLost`, for any number
of environments. `KeptClosed` of `LmdbHandles` is a theorem and in no run.

Each bound is large enough for the case it is there for. Three records in a batch
give a first, a middle and a last one to fail on; two environments are the least
that share a timer; two `Txn` objects and the read lock are three competitors for
one slot, and four commits let a writer pass a snapshot twice; four directories
are the least for which `rmStale` removes one, and they allow two rotations; with
batches of two a replay fills the next batch; three families are the least for which a shifted index can hit a
family of another database. Four writes give a key that is put, deleted and put
again beside a second key, with the cursor's snapshot anywhere between; four keys
leave a record on each side of a cursor and of a deleted neighbour, and two cursors
are one that writes and one that is shifted. Two slots are the least of which one
can be reused, two jobs the least that overlap (three names, and three jobs, were
also checked). Three and four bits with inputs beyond them wrap and saturate; four
digits give hex keys of one and of two bytes, and three an odd length with a full
byte. `MaxOps`, `MaxCommits`,
`MaxWrites`, `MaxSyncs`, `MaxKeys` and `MaxNum` are the only bounds in guards. In `CacheEnv` `MaxNum` cuts behaviours off at the rotation that would need
one more directory. `CHECK_DEADLOCK FALSE` stands where the program really can
stop: the only thread waiting for a mutex it holds, or a closed environment.

Properties that hold only under a condition state it through their constants:

* `RotatesOnce`, `ShouldNotHappen` and `TwoGenerations` need batches that fit an
  empty environment (`MinRoom >= BatchSize`) and no record that fails;
* `NeverOlder` is about processes in which no commit failed (`~eio`): after such
  an error inside `onfull` the same records wait in two queues, and a later flush
  can bring an older value back; TLC finds that when the condition is dropped;
* `LastIsFlushed` excludes what the shared timer takes away (section 5);
* `ReadCommitted` is about gets made while no read-only transaction is open;
* `SlotKept` and half of `OwnDatabase` hold while no `Db` is closed twice: the
  second `close` closes whatever database is in the slot by then;
* `ClosedIsDurable` is about a `close` whose sync succeeded and after which no
  database was opened, `KeptClosed` about the latter, `SyncsOpenEnv` about calls of
  `sync` and `close` that do not overlap;
* `MovesToNeighbour` names the three cases in which `next()` does something else
  (section 5); `LoopExact` is about a cursor beside which nobody writes;
* `FreedOnce` is about cursors that are closed before their transaction ends;
* `KeyFindsRecord` and `Ordered` are about strings without a NUL inside.

### Fairness

`FairSpec` of `LmdbBatch` and `CacheEnv` (and `LevelBatch`) assumes weak fairness of
the debounce timer (libuv runs a due timer once the current callback returns; with
a bounded number of calls the timer cannot be pushed back for ever), of the steps
of a call in progress (a JavaScript call that does not block returns), and of the
sync callback of `close`. Nothing is assumed of the application: it may never
call again. Crashes are allowed in both runs, and no restart is assumed.
`FairSpec` of `LmdbHandles` assumes weak fairness of the thread pool (a queued work
item is started, `fdatasync` returns) and of the event loop (a finished item's
callback is called while the thread is not blocked).

## 4. Proofs

All of them hold for any sets of keys, values, environments, databases and
transactions, any batch sizes and any bounds; the assumptions are the named
`ASSUME`s of the modules (placeholders such as `NoEnv` are not members of the
sets they stand beside, sizes are naturals, the keys of `LmdbCursor` are a finite
set of numbers, the directories of the cache are numbered to at least 2). Some
theorems have a condition more, which they state:

* `QueueStaysBounded`: no commit fails and no key is refused (after a failed flush
  the queue does grow beyond its size);
* `ReadsForward`: no value is falsy in JavaScript. A falsy value is what `get` takes
  for a missing one (section 5): one in the current environment brings back what
  the old one has;
* `RotatesAtMostOnce`, `NeverThrown` and `TwoGenerationsRefined`: `Fits`, which says
  that only `put` is used, no key is refused, no commit fails with EIO, and
  `BatchSize <= MinRoom`. These are the conditions section 3 gives for the
  properties, and the constants of `cache_puts` meet them. Crashes, restarts and
  `close` are not excluded.

| Theorem | Says |
|---|---|
| `LmdbBatch_proofs!NothingLost` | `Conservation`: accepted = committed + queued, per environment |
| `LmdbBatch_proofs!ExecutesInOrder` | `DirtyIsPrefix`: the running batch sees the committed table changed by exactly the records executed so far |
| `LmdbBatch_proofs!MutexNeverLeaks` | `MutexReleased`: no flush that returned or threw holds the mutex |
| `LmdbBatch_proofs!Refinement` | `AtomicBatches`: `LmdbBatch` implements `BatchSpec` |
| `LmdbBatch_proofs!QueueStaysBounded` | `QueueBounded`: between callbacks no queue is longer than its batch size |
| `LmdbTxn_proofs!MutexNeverLeaks`, `SlotNeverStolen` | mutex and slot belong to exactly the running transaction |
| `LmdbTxn_proofs!SnapshotsAreStable` | no page of an open snapshot is reused |
| `LmdbTxn_proofs!UpdatesAreNotLost`, `GetReadsCommitted` | `NoLostUpdate`, `ReadCommitted` |
| `LevelBatch_proofs!CountIsExact`, `NothingLost` | the JavaScript count is exact; `Conservation` |
| `RocksEnv_proofs!DatabasesDoNotMix`, `FamiliesExist`, `OpensCompletely` | `Isolation`, `FamilyExists`, `OpenIsComplete` |
| `LmdbHandles_proofs!HandlesSlotKept`, `HandlesOwnDatabase` | `SlotKept`, `OwnDatabase`: for any databases and slots, no `Db` finds another database in its slot, no commit stores a root under another name |
| `LmdbHandles_proofs!HandlesDurable`, `HandlesSyncsOpenEnv`, `HandlesKeptClosed` | `ClosedIsDurable`, `SyncsOpenEnv`, `KeptClosed` |
| `LevelCursor_proofs!CursorRests`, `CursorMoves` | `RestsBetween`, `MovesAsCalled` |
| `LevelCursor_proofs!CursorRefines` | `WalksSnapshot`: `LevelCursor` implements `CursorSpec`, for any keys, writes and moves |
| `LmdbCursor_proofs!CursorsPlaced`, `CursorsInPage`, `LoopsExact` | `Placed`, `InPage`, `LoopExact`: for any cursors and keys, the index of a cursor stays with its record, or with the place of a key sought in vain, through the writes of others |
| `LmdbCursor_proofs!CursorsFreedOnce`, `CursorsMoveToNeighbour` | `FreedOnce`, `MovesToNeighbour` |
| `CacheEnv_proofs!PairAgreed` | `PairIsNewest`: the cache works on the two newest directories, for any number of them |
| `CacheEnv_proofs!ReadsForward` | `NeverOlder`: no get returns an older value than an earlier one, for any batch size, room and depth of nested calls, with dels, refused keys, closes and crashes |
| `CacheEnv_proofs!RotatesAtMostOnce`, `NeverThrown` | `RotatesOnce`, `ShouldNotHappen` |
| `CacheEnv_proofs!TwoGenerationsRefined` | `TwoGenerations`: `CacheEnv` implements `CacheSpec` |
| `TypeCorrect` in six of the modules, `CursorInv`, `HandlesInv` | the type invariant, and the inductive invariants of the other two |

The argument in each module is one inductive invariant `IInv`, one lemma per
action, and a theorem `Spec => []IInv` that combines them:

* `LmdbBatch`: types, `Conservation`, `MutexReleased` and `DirtyIsPrefix`
  together. The refinement needs `DirtyIsPrefix`: at the commit, it says that the
  table made visible is the old one with the whole queue applied, which is the
  abstract flush. All other steps of a flush are stutters of `BatchSpec`.
  `QueueBounded` speaks of the time between callbacks only; its inductive form
  `BoundInv` lets the one queue that is being flushed be longer, and says that the
  environment of a flush the application called is open.
* `LmdbTxn`: types, `MutexOwned`, `SlotOwned`, `SnapshotIntact`, `NoLostUpdate`.
  `SnapshotIntact` alone is not inductive: that a writer spares an open snapshot
  follows only because the slot carries that snapshot (`SlotOwned`), and that
  nothing commits under an open writer follows from `MutexOwned`.
* `LevelBatch`: types, `CountExact`, `Conservation`. `CountExact` is needed where
  `write` decides by the count.
* `RocksEnv`: types, `Isolation`, and `Indexed` (the index of a `Db` is the place
  of its name in the list, which only grows), `OwnHandle`, `OwnBatch`.
  `OpenIsComplete` needs one fact more, `Listed`: only registered names are listed.
* `LmdbHandles`: types and the properties themselves, with `Named` (a database in a
  slot is that of the `Db` which remembers the slot), `TxnNames` (a transaction's
  slots are the present ones, but for those closed since), `AfterClose` (after
  `close()` no slot has a name, so nothing can be committed, and a sync of `close()`
  covers it all) and `OneJob` (without overlap, one call is under way).
  `ClosedIsDurable` rests on `AfterClose`, `SyncsOpenEnv` on `OneJob`.
* `LevelCursor`: types, `RestsBetween`, and that a valid cursor is at the entry that
  holds its key's value in the snapshot. The proof first describes the two scans
  (what the first yielded entry, and the greatest live key, are in terms of the
  snapshot), then shows for each method that the scan starts where it should.
* `LmdbCursor`: types, and for each cursor `Life` (which cursors are on LMDB's list,
  and how often they were freed) and `Sound` (its position). The proof is about
  ranks: the index of a record is the number of keys below it, so a put or a
  deletion changes it by one or not at all, and the record at an index is the one of
  that rank, because ranks number a page without gaps (a counting argument in place
  of an induction). `Placed` alone is not inductive: where `next()` goes depends on
  the flags, and what they say of a cursor nobody wrote beside is the last part of
  `Sound`. A failed seek establishes `Sound` as a report does, at the rank of a key
  that is not in the table. `MovesToNeighbour` follows from `Sound` before the move.
* `CacheEnv` has three, because they hold under different conditions
  (`TimeInv` and `PutInv` were model-checked on small instances before the proof):
  * `Base`: types, no call and no queue while no process is up (`Quiet`), and the
    place of the two directories (`Numbered`), which for a restart must also be
    known while no process runs: a crash between the two halves of the first start
    leaves the current directory alone on the disk.
  * `TimeInv`, for `NeverOlder`. The property is about the tables alone, but what a
    table will hold is in the queues and in the `onfull` calls on the stack. All
    records still to be executed are in line (`Ready`, `Before`, `Lined`): the later
    record has the newer value, and all are newer than what was or can be read. That
    is not so of the queue of the environment rotated away, whose records `onfull`
    puts again: that queue must never be committed. Either the call that empties it
    is still on the stack (`Guarded`) or it is empty or holds a record that cannot be
    executed, so that every flush of it fails (`Harmless`); and a flush of that
    environment runs only in the second case (`Running`). The proof follows the stack
    with one fact on what a call on top of others adds (`StackCons`). All that serves
    this theorem alone is a named step of its proof, one per action and one per such
    fact, so that the rest of the module does not see it.
  * `PutInv`, for the other three. Under `Fits` the stack is at most four calls deep
    and has one of the shapes that `Plain` and `Rotating` list. Without a rotation in
    progress the old environment has no queue (`Plain`). After one (`Rotating`) the
    handler has put again the first records of the batch (`Replaying`) or all of them
    (`Replayed`), and the new environment is empty until they are committed together.
    So the map cannot be full a second time, and nothing is committed twice. For the
    refinement `pending` is shown to be one queue, the old one during the replay and
    the current one otherwise; a commit is then the abstract flush, and every step
    but a put, a commit, a rotation and the end of the process is a stutter.

Only model-checked: liveness (the prover does not handle fairness), `ScansAgree`
(its loops are recursive operators, for which the prover has no support), and the
properties of `KvTypes`, for which no proofs have been written.

## 5. Where the code and its documents disagree

One of them is kept as a run that is expected to end in a violation.
`batch_batch_del`: the exec of a `batchDel` record passes the transaction as the
value; `del` begins its own transaction and waits for the one of its batch
(`lib/lmdb/db.js:70`). README.md:73 promises an automatic flush, and
`test/lmdb.js:44-49` batches and flushes a deletion.

The modules show more of the kind, with constants and properties that are not
kept as runs:

* the debounced flush is shared: a push on a second environment within the
  millisecond takes over the flush of the first, whose records then wait for its
  next push or flush (`lib/lmdb/env.js:59`; `lib/leveldb/db.js:63` and
  `lib/rocksdb/db.js:64` share theirs in the same way): `AutoFlush` of `LmdbBatch`
  with `LmdbBatch_live.cfg`, of `LevelBatch` with two databases;
* a get without a transaction, made while a read-only transaction is open, reads
  an old snapshot, because the result of `mdb_txn_renew` is ignored
  (`src/lmdb/env-lmdb.cpp:200`; `test/lmdb.js:71-72` gets what was committed):
  `GetSeesCommit` of `LmdbTxn`;
* an exception inside `onfull` skips `_batchOps = []`; the rotated environment
  keeps the batch that did not fit and throws 'This should not happend.' on later
  flushes (`lib/lmdb/env.js:50-56`): `ShouldNotHappen` of `CacheEnv` with a key that
  LMDB refuses;
* LevelDB's `get` of a missing key sets null and then throws
  (`src/leveldb/db-lvl.cpp:76`; `test/leveldb.js:28-29` expects null):
  `NullIfMissing` of `LevelBatch`;
* `close` leaves the queue and the timer, and the flush that follows meets closed
  handles (`lib/lmdb/env.js:81`): `AutoFlush` of `LmdbBatch` with one environment
  and `CloseEnvs = {e1}`;
* the automatic flush fires while the application holds a write transaction, and
  blocks the thread that would end it (`lib/lmdb/env.js:41`): the same with
  `TxnEnvs = {e1}`;
* `put` without a transaction returns true although its commit failed
  (`src/lmdb/db-lmdb.cpp:153`): `PutStores` of `LmdbTxn` with `IOErrors = TRUE`;
* `curDb.get(key) || oldDb.get(key)` takes 0 and the empty string for missing
  (`lib/cache/db.js:15`): `ReadBack` of `CacheEnv` with a value in `Falsy`;
* a `sync` that is still queued when the callback of `close` runs uses the freed
  environment (`src/lmdb/env-lmdb.cpp:139`): `SyncsOpenEnv` without its condition;
* `close` does not look at the error of its sync (`lib/lmdb/env.js:90`):
  `ClosedIsDurable` with failed syncs; the callback of a second `close` throws, as
  the environment is already closed;
* a `Db` that is closed goes on using its slot, in which another database may be by
  then, and closing it again closes that one (`src/lmdb/db-lmdb.cpp:116`); `openDb`
  never forgets a name, so a closed database cannot be opened again
  (`lib/lmdb/env.js:29`);
* LMDB's `next()` repeats a record after somebody else deleted a smaller one
  (`Again`), passes one over after a seek in vain, or when `prev()` found nothing
  after a deletion (`Skips`), and does not see a record put after the end was met, nor
  one behind a key sought in vain after that (`PastEnd`); a seek or gte in vain moves
  the index all the same, and gives a fresh cursor a position (`Missed`), so that
  `key()` then reports, and `del()` deletes, the next record above the key;
  `last()` or `prev()` on a cursor that had met the end of a tree that was then
  emptied works on the removed page;
* a cursor that is open when its write transaction ends is freed by LMDB and again
  by `close` or the destructor (`src/lmdb/cursor-lmdb.cpp:212`): `FreedOnce` without
  its condition;
* `key` and `val` of a LevelDB or RocksDB cursor that is on no record set null and
  go on to the iterator (`src/leveldb/cursor-lvl.cpp:66`): `CallInvalid`;
* README.md:57 of the repository lists a type `number`, for which no class is made;
  README.md:53 says that hex is the same as `Buffer(str, 'hex')`, but a missing last
  digit is taken as 0 (`src/kv-types.cpp:64`), which `test/lmdb.js:83-84` expects, so
  `FindsSame` takes neither side; numbers beyond the width of their type wrap or
  saturate and then share the record of another key (`src/kv-types.h:98`);
  `seek` with a value, and `exists`, throw on a database without duplicates.

## 6. Abstractions, and what is not modelled

* Keys and values are model values; in `CacheEnv` values are numbered in the order
  they are put, so that "older" has a meaning. An environment has one named
  database, and duplicates (`dupSort`) are left out.
* Environments are opened with `MDB_NOSYNC`. A crash is a crash of the process,
  after which LMDB's pages are still in the kernel; a crash of the machine is not
  modelled.
* `console.debug` (`lib/lmdb/env.js:82`) is taken to exist, as in Node 8.10 and
  later; `db-lmdb.cpp:246` is read as if its missing semicolon were there.
* `db.del(key)` sanitises an absent value, which throws for some value types;
  `del` is modelled as reached with a value that can be sanitised.
* A LevelDB or RocksDB batch that the application created is used with the
  database that created it.
* `LmdbCursor` has one leaf page, and so none of what page splits and merges do to
  cursors; no duplicates, and so neither `nextDup` and `prevDup` nor `seek` and `gte`
  with a value. (`firstDup` and `lastDup` are not exported by the binding.)
* `KvTypes` has the types alone: that LMDB refuses an empty key, and the length
  of keys, are left out, as are the sizes of the buffers of `hex_type`.
* In `LmdbHandles` a `Db` object is its name, because `openDb` refuses a name it has
  seen; `get` finds its slot as `put` does and changes nothing.

Not modelled:

* the engines beyond what section 2 says. LMDB, LevelDB, RocksDB and snappy are most
  of the lines of the repository; they are the subject only where a binding relies
  on what they keep between its calls. RocksDB's own iterator is among them;
* in which order the collector destroys unreachable native objects: V8 does not
  say, and a LevelDB cursor destroyed after its database is wrong in any model;
* `exists` and cursors of the cache, and several databases per cache: they are calls
  on the two environments one after the other, without state of their own;
* the LRU cache option, `lib/leveldb/env.js` (one guard, one assignment),
  `rmdir.js` beyond its effect in `rmStale`, and the set-up modules, which register
  classes and have no behaviour at run time.
