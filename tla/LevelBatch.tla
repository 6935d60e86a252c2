----------------------------- MODULE LevelBatch -----------------------------
(***************************************************************************)
(* Batching in lib/leveldb (lib/rocksdb has the same code): every Db has a *)
(* batch of its own behind batchPut and batchDel, and the application may  *)
(* create more.  A batch is a native WriteBatch and a count kept beside it *)
(* in JavaScript; write() trusts the count.  LevelDB applies a WriteBatch  *)
(* atomically.                                                             *)
(*                                                                         *)
(* As in lib/lmdb the auto-flush is one debounced function on the          *)
(* prototype, shared by all Db objects of the process.                     *)
(***************************************************************************)
EXTENDS BatchOps

CONSTANTS
  Dbs,         \* the databases the process opens
  NoDb,
  BatchSizes,  \* what the application passes to setBatchSize
  BatchSize0,  \* the batchSize option
  IOErrors,    \* whether a write may fail
  Crashes,     \* whether the process may be killed
  MaxOps       \* bound: operations batched per database

ASSUME DbAssumption == NoDb \notin Dbs
ASSUME SizeAssumption == BatchSizes \subseteq Nat /\ BatchSize0 \in Nat \ {0}
ASSUME BoundAssumption == MaxOps \in Nat

VARIABLES
  store,      \* the table of each database
  batch,      \* db._batch
  own,        \* a batch the application made with createBatch
  batchSize,  \* db._batchSize
  timer,      \* thisArg of the pending debounced flush, or NoDb
  frame,      \* the database whose batch is being written, or NoDb, and the caller
  proc,       \* "up" or "down"
  last,       \* the last get: what the table holds, and whether get threw
  accepted,   \* history: operations batched and not lost by a crash
  committed   \* history: batched operations that were written

vars == <<store, batch, own, batchSize, timer, frame, proc, last, accepted, committed>>

Batch == [ops : Seq(Op), cnt : Nat]

NoBatch == [ops |-> <<>>, cnt |-> 0]

NoFrame == [db |-> NoDb, by |-> "app"]

TypeOK ==
  /\ store \in [Dbs -> Tables]
  /\ batch \in [Dbs -> Batch]
  /\ own \in [Dbs -> Batch]
  /\ batchSize \in [Dbs -> Nat]
  /\ timer \in Dbs \cup {NoDb}
  /\ frame \in [db : Dbs \cup {NoDb}, by : {"app", "timer"}]
  /\ proc \in {"up", "down"}
  /\ last \in [val : Vals \cup {NoVal}, threw : BOOLEAN]
  /\ accepted \in [Dbs -> Nat]
  /\ committed \in [Dbs -> Nat]

Empty == [k \in Keys |-> NoVal]

Init ==
  /\ store = [d \in Dbs |-> Empty]
  /\ batch = [d \in Dbs |-> NoBatch]
  /\ own = [d \in Dbs |-> NoBatch]
  /\ batchSize = [d \in Dbs |-> BatchSize0]
  /\ timer = NoDb
  /\ frame = NoFrame
  /\ proc = "up"
  /\ last = [val |-> NoVal, threw |-> FALSE]
  /\ accepted = [d \in Dbs |-> 0]
  /\ committed = [d \in Dbs |-> 0]

\* The event loop can run the next callback.
Idle == proc = "up" /\ frame.db = NoDb

-----------------------------------------------------------------------------
(* Batch objects.                                                          *)

\* Batch.put and Batch.del.
Added(b, op) == [ops |-> Append(b.ops, op), cnt |-> b.cnt + 1]

\* The table after a successful native write of b.
Written(table, b) == Applied(table, b.ops, Len(b.ops))

\* Mutant: clear empties the native batch only.
ClearedNative(b) == [ops |-> <<>>, cnt |-> b.cnt]

\* Batch.clear.
Cleared(b) == NoBatch

-----------------------------------------------------------------------------
(* The application's calls.                                                *)

\* batchPut and batchDel.
BatchOp(d, op) ==
  /\ Idle /\ accepted[d] < MaxOps
  /\ batch' = [batch EXCEPT ![d] = Added(@, op)]
  /\ accepted' = [accepted EXCEPT ![d] = @ + 1]
  /\ \/ /\ batch[d].cnt + 1 >= batchSize[d]
        /\ frame' = [db |-> d, by |-> "app"]
        /\ UNCHANGED timer
     \/ /\ batch[d].cnt + 1 < batchSize[d]
        /\ timer' = d
        /\ UNCHANGED frame
  /\ UNCHANGED <<store, own, batchSize, proc, last, committed>>

\* flushBatchOps; with a zero count write() does nothing.
Flush(d) ==
  /\ Idle /\ batch[d].cnt > 0
  /\ frame' = [db |-> d, by |-> "app"]
  /\ UNCHANGED <<store, batch, own, batchSize, timer, proc, last, accepted, committed>>

\* setBatchSize: unlike the LMDB one it flushes nothing and has no upper bound.
SetBatchSize(d, num) ==
  /\ Idle
  /\ batchSize' = [batchSize EXCEPT ![d] = num]
  /\ UNCHANGED <<store, batch, own, timer, frame, proc, last, accepted, committed>>

\* put and del without a batch (one that fails throws and changes nothing).
Write(d, op) ==
  /\ Idle
  /\ store' = [store EXCEPT ![d] = ApplyOp(@, op)]
  /\ UNCHANGED <<batch, own, batchSize, timer, frame, proc, last, accepted, committed>>

\* get: for a missing key the code sets null as the result and then throws.
Get(d, k) ==
  /\ Idle
  /\ last' = [val |-> store[d][k], threw |-> (store[d][k] = NoVal)]
  /\ UNCHANGED <<store, batch, own, batchSize, timer, frame, proc, accepted, committed>>

\* put, del, clear and write of a batch the application created.
OwnAdd(d, op) ==
  /\ Idle /\ own[d].cnt < MaxOps
  /\ own' = [own EXCEPT ![d] = Added(@, op)]
  /\ UNCHANGED <<store, batch, batchSize, timer, frame, proc, last, accepted, committed>>

OwnClear(d) ==
  /\ Idle
  /\ own' = [own EXCEPT ![d] = Cleared(@)]
  /\ UNCHANGED <<store, batch, batchSize, timer, frame, proc, last, accepted, committed>>

OwnWrite(d) ==
  /\ Idle /\ own[d].cnt > 0
  /\ store' = [store EXCEPT ![d] = Written(@, own[d])]
  /\ own' = [own EXCEPT ![d] = Cleared(@)]
  /\ UNCHANGED <<batch, batchSize, timer, frame, proc, last, accepted, committed>>

-----------------------------------------------------------------------------
(* Writing db._batch, and the rest of the process.                         *)

Die ==
  /\ proc' = "down"
  /\ batch' = [d \in Dbs |-> NoBatch]
  /\ own' = [d \in Dbs |-> NoBatch]
  /\ timer' = NoDb
  /\ frame' = NoFrame
  /\ accepted' = committed
  /\ UNCHANGED <<store, batchSize, last, committed>>

InWrite == proc = "up" /\ frame.db # NoDb

WriteBatch ==
  LET d == frame.db IN
  /\ InWrite
  /\ store' = [store EXCEPT ![d] = Written(@, batch[d])]
  /\ committed' = [committed EXCEPT ![d] = @ + Len(batch[d].ops)]
  /\ batch' = [batch EXCEPT ![d] = Cleared(@)]
  /\ frame' = NoFrame
  /\ UNCHANGED <<own, batchSize, timer, proc, last, accepted>>

\* Mutant: the batch is cleared although the write failed.
WriteFailsClears ==
  /\ InWrite /\ IOErrors
  /\ batch' = [batch EXCEPT ![frame.db] = Cleared(@)]
  /\ frame' = NoFrame
  /\ UNCHANGED <<store, own, batchSize, timer, proc, last, accepted, committed>>

\* The native write threw before clear(): the batch keeps its records.  Thrown
\* from the timer the exception ends the process.
WriteFails ==
  /\ InWrite /\ IOErrors
  /\ \/ /\ frame.by = "app"
        /\ frame' = NoFrame
        /\ UNCHANGED <<store, batch, own, batchSize, timer, proc, last, accepted, committed>>
     \/ frame.by = "timer" /\ Die

\* The debounce timer flushes the database that batched last.
TimerFire ==
  /\ Idle /\ timer # NoDb
  /\ timer' = NoDb
  /\ frame' = IF batch[timer].cnt > 0 THEN [db |-> timer, by |-> "timer"] ELSE frame
  /\ UNCHANGED <<store, batch, own, batchSize, proc, last, accepted, committed>>

Crash == Crashes /\ proc = "up" /\ Die

Restart ==
  /\ proc = "down"
  /\ proc' = "up"
  /\ batchSize' = [d \in Dbs |-> BatchSize0]
  /\ UNCHANGED <<store, batch, own, timer, frame, last, accepted, committed>>

Ops == {PutOp(k, v) : k \in Keys, v \in Vals} \cup {DelOp(k) : k \in Keys}

Next ==
  \/ \E d \in Dbs, op \in Ops : BatchOp(d, op) \/ Write(d, op) \/ OwnAdd(d, op)
  \/ \E d \in Dbs : Flush(d) \/ OwnClear(d) \/ OwnWrite(d)
  \/ \E d \in Dbs, num \in BatchSizes : SetBatchSize(d, num)
  \/ \E d \in Dbs, k \in Keys : Get(d, k)
  \/ TimerFire \/ WriteBatch \/ WriteFails \/ Crash \/ Restart

Spec == Init /\ [][Next]_vars

\* libuv runs a due timer, and a call in progress returns.
FairSpec == Spec /\ WF_vars(TimerFire) /\ WF_vars(WriteBatch \/ WriteFails)

-----------------------------------------------------------------------------
(* Properties.                                                             *)

\* The count agrees with the native batch, in the database's batch and in the
\* application's: write() skips a batch whose count is 0, so records behind a
\* zero count would never be written and would be joined by later ones.
CountExact ==
  \A d \in Dbs : /\ batch[d].cnt = Len(batch[d].ops)
                 /\ own[d].cnt = Len(own[d].ops)

\* No batched operation is lost or written twice: it is written or still in the
\* batch, also after failed writes, and only a crash drops it.
Conservation ==
  \A d \in Dbs : accepted[d] = committed[d] + Len(batch[d].ops)

\* The inductive invariant.
IInv == TypeOK /\ CountExact /\ Conservation

\* A batched operation is written without a further call (test/leveldb.js:41-45
\* batches a put and reads it after a pause).
AutoFlush ==
  \A d \in Dbs : \A n \in 1..MaxOps :
    (accepted[d] >= n) ~> (committed[d] >= n)

\* get of a missing key returns null (test/leveldb.js:28-29).
NullIfMissing == last.val = NoVal => ~last.threw
=============================================================================
