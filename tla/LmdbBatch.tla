----------------------------- MODULE LmdbBatch ------------------------------
(***************************************************************************)
(* The batch queue of lib/lmdb/env.js over the LMDB write transaction.     *)
(*                                                                         *)
(* Node runs one callback at a time, so a call of the library is a single  *)
(* step, with one exception: flushBatchOps is spread over the steps it     *)
(* makes in LMDB (begin, one exec per record, commit), because the process *)
(* can die, an exec can fail and an exec can block between any two.        *)
(*                                                                         *)
(* The auto-flush is ONE debounced function: it is built once and stored   *)
(* on Env.prototype, so every environment of the process shares its timer, *)
(* and the timer calls flushBatchOps on the environment that pushed last.  *)
(***************************************************************************)
EXTENDS BatchOps

CONSTANTS
  Envs,        \* the environments the process opens
  NoEnv,       \* "no environment": no timer set, no flush running
  BadKeys,     \* keys mdb_put refuses (MDB_BAD_VALSIZE: empty or over 511 bytes)
  Kinds,       \* the batch operations the application uses
  BatchSizes,  \* what the application passes to setBatchSize
  BatchSize0,  \* the batchSize option of the constructor
  TxnEnvs,     \* environments on which the application holds write
               \* transactions open across callbacks
  CloseEnvs,   \* environments the application closes
  IOErrors,    \* whether mdb_put and mdb_txn_commit may fail (MDB_MAP_FULL, EIO)
  Crashes,     \* whether the process may be killed
  MaxOps       \* bound: batch operations accepted per environment

ASSUME EnvAssumption == NoEnv \notin Envs
ASSUME UseAssumption == TxnEnvs \subseteq Envs /\ CloseEnvs \subseteq Envs
ASSUME KindsAssumption == Kinds \subseteq {"put", "del"}
ASSUME SizeAssumption == BatchSizes \subseteq Nat /\ BatchSize0 \in Nat \ {0}
ASSUME BoundAssumption == MaxOps \in Nat

VARIABLES
  store,      \* committed table of each environment (what a new snapshot reads)
  batchOps,   \* env._batchOps
  batchSize,  \* env._batchSize
  status,     \* "open"; "closing" after close(); "closed" once the sync is done
  writer,     \* who holds the environment's write mutex
  dirty,      \* the table its holder sees
  timer,      \* thisArg of the pending debounced call, NoEnv when none is set
  frame,      \* the flushBatchOps call in progress
  proc,       \* "up"; "hung": the JS thread waits for a mutex it holds; "down"
  accepted,   \* history: operations pushed and not lost by a crash
  committed   \* history: operations a batch transaction committed

vars == <<store, batchOps, batchSize, status, writer, dirty, timer, frame,
          proc, accepted, committed>>

\* The part of the state only LMDB's own transactions change.
txnVars == <<writer, dirty, frame, proc>>

NoFrame == [env |-> NoEnv, next |-> 1, by |-> "app"]

TypeOK ==
  /\ store \in [Envs -> Tables]
  /\ batchOps \in [Envs -> Seq(Op)]
  /\ batchSize \in [Envs -> Nat]
  /\ status \in [Envs -> {"open", "closing", "closed"}]
  /\ writer \in [Envs -> {"free", "app", "batch"}]
  /\ dirty \in [Envs -> Tables]
  /\ timer \in Envs \cup {NoEnv}
  /\ frame \in [env : Envs \cup {NoEnv}, next : Nat \ {0}, by : {"app", "timer"}]
  /\ proc \in {"up", "hung", "down"}
  /\ accepted \in [Envs -> Nat]
  /\ committed \in [Envs -> Nat]

Empty == [k \in Keys |-> NoVal]

Init ==
  /\ store = [e \in Envs |-> Empty]
  /\ batchOps = [e \in Envs |-> <<>>]
  /\ batchSize = [e \in Envs |-> BatchSize0]
  /\ status = [e \in Envs |-> "open"]
  /\ writer = [e \in Envs |-> "free"]
  /\ dirty = [e \in Envs |-> Empty]
  /\ timer = NoEnv
  /\ frame = NoFrame
  /\ proc = "up"
  /\ accepted = [e \in Envs |-> 0]
  /\ committed = [e \in Envs |-> 0]

\* The event loop can run the next callback.
Idle == proc = "up" /\ frame.env = NoEnv

-----------------------------------------------------------------------------
(* Entering flushBatchOps with queue ops.  An empty queue returns at once.  *)
(* beginTxn takes the environment's write mutex; the mutex is not          *)
(* recursive, so if the application's own transaction holds it the only    *)
(* JavaScript thread waits for itself.                                     *)

\* Mutant: the transaction does not start from the last commit.
EnterFlushStale(e, ops, by) ==
  \/ /\ ops = <<>>
     /\ UNCHANGED txnVars
  \/ /\ ops # <<>> /\ writer[e] = "free"
     /\ frame' = [env |-> e, next |-> 1, by |-> by]
     /\ writer' = [writer EXCEPT ![e] = "batch"]
     /\ UNCHANGED <<dirty, proc>>
  \/ /\ ops # <<>> /\ writer[e] # "free"
     /\ proc' = "hung"
     /\ UNCHANGED <<writer, dirty, frame>>

EnterFlush(e, ops, by) ==
  \/ /\ ops = <<>>
     /\ UNCHANGED txnVars
  \/ /\ ops # <<>> /\ writer[e] = "free"
     /\ frame' = [env |-> e, next |-> 1, by |-> by]
     /\ writer' = [writer EXCEPT ![e] = "batch"]
     /\ dirty' = [dirty EXCEPT ![e] = store[e]]
     /\ UNCHANGED proc
  \/ /\ ops # <<>> /\ writer[e] # "free"
     /\ proc' = "hung"
     /\ UNCHANGED <<writer, dirty, frame>>

\* The process dies: everything in memory is gone, LMDB's files keep the last
\* committed table, and the lock file is reinitialised by the next open.
Die ==
  /\ proc' = "down"
  /\ batchOps' = [e \in Envs |-> <<>>]
  /\ writer' = [e \in Envs |-> "free"]
  /\ timer' = NoEnv
  /\ frame' = NoFrame
  /\ accepted' = committed
  /\ UNCHANGED <<store, batchSize, status, dirty, committed>>

-----------------------------------------------------------------------------
(* The application's calls.  It uses an environment until it closes it.    *)

\* Mutant: _pushBatch does not arm the auto-flush.
PushUnarmed(e, op) ==
  /\ Idle /\ status[e] = "open" /\ accepted[e] < MaxOps
  /\ batchOps' = [batchOps EXCEPT ![e] = Append(@, op)]
  /\ accepted' = [accepted EXCEPT ![e] = @ + 1]
  /\ \/ /\ Len(batchOps[e]) + 1 >= batchSize[e]
        /\ EnterFlush(e, Append(batchOps[e], op), "app")
     \/ /\ Len(batchOps[e]) + 1 < batchSize[e]
        /\ UNCHANGED txnVars
  /\ UNCHANGED <<store, batchSize, status, timer, committed>>

\* batchPut / batchDel: _pushBatch.
Push(e, op) ==
  /\ Idle /\ status[e] = "open" /\ accepted[e] < MaxOps
  /\ batchOps' = [batchOps EXCEPT ![e] = Append(@, op)]
  /\ accepted' = [accepted EXCEPT ![e] = @ + 1]
  /\ \/ /\ Len(batchOps[e]) + 1 >= batchSize[e]
        /\ EnterFlush(e, Append(batchOps[e], op), "app")
        /\ UNCHANGED timer
     \/ /\ Len(batchOps[e]) + 1 < batchSize[e]
        /\ timer' = e
        /\ UNCHANGED txnVars
  /\ UNCHANGED <<store, batchSize, status, committed>>

\* flushBatchOps called by the application.
Flush(e) ==
  /\ Idle /\ status[e] = "open"
  /\ EnterFlush(e, batchOps[e], "app")
  /\ UNCHANGED <<store, batchOps, batchSize, status, timer, accepted, committed>>

Capped(num) == IF num < 256 THEN num ELSE 256

\* Mutant: setBatchSize does not flush.
SetBatchSizeOnly(e, num) ==
  /\ Idle /\ status[e] = "open"
  /\ batchSize' = [batchSize EXCEPT ![e] = Capped(num)]
  /\ UNCHANGED <<store, batchOps, status, writer, dirty, timer, frame, proc, accepted,
                 committed>>

\* setBatchSize: a queue longer than the new size is flushed.
SetBatchSize(e, num) ==
  /\ Idle /\ status[e] = "open"
  /\ batchSize' = [batchSize EXCEPT ![e] = Capped(num)]
  /\ \/ /\ Len(batchOps[e]) > Capped(num)
        /\ EnterFlush(e, batchOps[e], "app")
     \/ /\ Len(batchOps[e]) <= Capped(num)
        /\ UNCHANGED txnVars
  /\ UNCHANGED <<store, batchOps, status, timer, accepted, committed>>

\* db.put without a transaction: txn_scope begins, puts and commits (or aborts
\* and throws) inside the call; it blocks if the application's own transaction
\* is open.
Put(e, k, v) ==
  /\ Idle /\ status[e] = "open"
  /\ \/ /\ writer[e] = "free" /\ k \notin BadKeys
        /\ store' = [store EXCEPT ![e] = ApplyOp(@, PutOp(k, v))]
        /\ UNCHANGED proc
     \/ /\ writer[e] = "app"
        /\ proc' = "hung"
        /\ UNCHANGED store
  /\ UNCHANGED <<batchOps, batchSize, status, writer, dirty, timer, frame,
                 accepted, committed>>

\* env.beginTxn(): a second one on the same environment blocks.
TxnBegin(e) ==
  /\ Idle /\ status[e] = "open"
  /\ \/ /\ writer[e] = "free"
        /\ writer' = [writer EXCEPT ![e] = "app"]
        /\ dirty' = [dirty EXCEPT ![e] = store[e]]
        /\ UNCHANGED proc
     \/ /\ writer[e] = "app"
        /\ proc' = "hung"
        /\ UNCHANGED <<writer, dirty>>
  /\ UNCHANGED <<store, batchOps, batchSize, status, timer, frame, accepted, committed>>

\* db.put(key, val, txn).
TxnPut(e, k, v) ==
  /\ Idle /\ writer[e] = "app" /\ k \notin BadKeys
  /\ dirty' = [dirty EXCEPT ![e] = ApplyOp(@, PutOp(k, v))]
  /\ UNCHANGED <<store, batchOps, batchSize, status, writer, timer, frame, proc,
                 accepted, committed>>

\* txn.commit(): a commit that fails has aborted the transaction.
TxnCommit(e) ==
  /\ Idle /\ writer[e] = "app"
  /\ \/ store' = [store EXCEPT ![e] = dirty[e]]
     \/ IOErrors /\ UNCHANGED store
  /\ writer' = [writer EXCEPT ![e] = "free"]
  /\ UNCHANGED <<batchOps, batchSize, status, dirty, timer, frame, proc,
                 accepted, committed>>

\* txn.abort().
TxnAbort(e) ==
  /\ Idle /\ writer[e] = "app"
  /\ writer' = [writer EXCEPT ![e] = "free"]
  /\ UNCHANGED <<store, batchOps, batchSize, status, dirty, timer, frame, proc,
                 accepted, committed>>

\* env.close(): closes the dbs and queues a sync; the queue and the timer stay.
Close(e) ==
  /\ Idle /\ status[e] = "open" /\ writer[e] = "free"
  /\ status' = [status EXCEPT ![e] = "closing"]
  /\ UNCHANGED <<store, batchOps, batchSize, writer, dirty, timer, frame, proc,
                 accepted, committed>>

-----------------------------------------------------------------------------
(* What the event loop runs by itself.                                     *)

\* The sync queued by close() has finished: the environment is closed.
CloseDone(e) ==
  /\ Idle /\ status[e] = "closing"
  /\ status' = [status EXCEPT ![e] = "closed"]
  /\ UNCHANGED <<store, batchOps, batchSize, writer, dirty, timer, frame, proc,
                 accepted, committed>>

\* The debounce timer calls flushBatchOps on the environment that pushed last.
\* On a closed environment with a non-empty queue, beginTxn dereferences the
\* environment's null MDB_env and the process dies.
TimerFire ==
  /\ Idle /\ timer # NoEnv
  /\ \/ /\ status[timer] # "closed" \/ batchOps[timer] = <<>>
        /\ EnterFlush(timer, batchOps[timer], "timer")
        /\ timer' = NoEnv
        /\ UNCHANGED <<store, batchOps, batchSize, status, accepted, committed>>
     \/ /\ status[timer] = "closed" /\ batchOps[timer] # <<>>
        /\ Die

-----------------------------------------------------------------------------
(* The body of flushBatchOps.                                              *)

InFlush == proc = "up" /\ frame.env # NoEnv

NextOp == batchOps[frame.env][frame.next]

\* op.exec(txn) of a put record, when mdb_put succeeds.
ExecPut ==
  /\ InFlush /\ frame.next <= Len(batchOps[frame.env])
  /\ NextOp.op = "put" /\ NextOp.key \notin BadKeys
  /\ status[frame.env] = "open"
  /\ dirty' = [dirty EXCEPT ![frame.env] = ApplyOp(@, NextOp)]
  /\ frame' = [frame EXCEPT !.next = @ + 1]
  /\ UNCHANGED <<store, batchOps, batchSize, status, writer, timer, proc,
                 accepted, committed>>

\* op.exec(txn) of a del record calls the native del(key, txn): the transaction
\* lands in the parameter of the value and the parameter of the transaction is
\* undefined, so del begins a write transaction of its own and waits for the
\* mutex the batch holds.
ExecDel ==
  /\ InFlush /\ frame.next <= Len(batchOps[frame.env])
  /\ NextOp.op = "del"
  /\ proc' = "hung"
  /\ UNCHANGED <<store, batchOps, batchSize, status, writer, dirty, timer, frame,
                 accepted, committed>>

\* Mutant: the queue is not reset after the commit.
CommitBatchKeeps ==
  LET e == frame.env IN
  /\ InFlush /\ frame.next > Len(batchOps[e])
  /\ store' = [store EXCEPT ![e] = dirty[e]]
  /\ writer' = [writer EXCEPT ![e] = "free"]
  /\ committed' = [committed EXCEPT ![e] = @ + Len(batchOps[e])]
  /\ frame' = NoFrame
  /\ UNCHANGED <<batchOps, batchSize, status, dirty, timer, proc, accepted>>

\* txn.commit() and this._batchOps = [].
CommitBatch ==
  LET e == frame.env IN
  /\ InFlush /\ frame.next > Len(batchOps[e])
  /\ store' = [store EXCEPT ![e] = dirty[e]]
  /\ writer' = [writer EXCEPT ![e] = "free"]
  /\ committed' = [committed EXCEPT ![e] = @ + Len(batchOps[e])]
  /\ batchOps' = [batchOps EXCEPT ![e] = <<>>]
  /\ frame' = NoFrame
  /\ UNCHANGED <<batchSize, status, dirty, timer, proc, accepted>>

\* Mutant: the catch block does not abort.
FlushFailsLocked ==
  LET e == frame.env IN
  /\ InFlush /\ frame.by = "app"
  /\ \/ frame.next > Len(batchOps[e]) /\ IOErrors
     \/ frame.next <= Len(batchOps[e]) /\ NextOp.key \in BadKeys
  /\ frame' = NoFrame
  /\ UNCHANGED <<store, batchOps, batchSize, status, writer, dirty, timer, proc,
                 accepted, committed>>

\* Mutant: the catch block commits what was executed.
FlushFailsCommits ==
  LET e == frame.env IN
  /\ InFlush /\ frame.by = "app"
  /\ \/ frame.next > Len(batchOps[e]) /\ IOErrors
     \/ frame.next <= Len(batchOps[e]) /\ NextOp.key \in BadKeys
  /\ store' = [store EXCEPT ![e] = dirty[e]]
  /\ writer' = [writer EXCEPT ![e] = "free"]
  /\ frame' = NoFrame
  /\ UNCHANGED <<batchOps, batchSize, status, dirty, timer, proc, accepted, committed>>

\* An exec or the commit threw: the transaction is aborted and the exception
\* leaves flushBatchOps before the queue is reset.  The application's call
\* throws; thrown from the timer nobody catches it and the process ends.
FlushFails ==
  LET e == frame.env IN
  /\ InFlush
  /\ \/ frame.next > Len(batchOps[e]) /\ IOErrors
     \/ /\ frame.next <= Len(batchOps[e]) /\ NextOp.op = "put"
        /\ IOErrors \/ NextOp.key \in BadKeys \/ status[e] = "closing"
  /\ \/ /\ frame.by = "app"
        /\ writer' = [writer EXCEPT ![e] = "free"]
        /\ frame' = NoFrame
        /\ UNCHANGED <<store, batchOps, batchSize, status, dirty, timer, proc,
                       accepted, committed>>
     \/ frame.by = "timer" /\ Die

-----------------------------------------------------------------------------
(* The environment.                                                        *)

Crash == Crashes /\ proc # "down" /\ Die

\* A new process opens the environments again.
Restart ==
  /\ proc = "down"
  /\ proc' = "up"
  /\ batchSize' = [e \in Envs |-> BatchSize0]
  /\ status' = [e \in Envs |-> "open"]
  /\ UNCHANGED <<store, batchOps, writer, dirty, timer, frame, accepted, committed>>

AppStep ==
  \/ \E e \in Envs, k \in Keys, v \in Vals :
       \/ "put" \in Kinds /\ Push(e, PutOp(k, v))
       \/ Put(e, k, v)
       \/ TxnPut(e, k, v)
  \/ \E e \in Envs, k \in Keys : "del" \in Kinds /\ Push(e, DelOp(k))
  \/ \E e \in Envs : Flush(e) \/ TxnCommit(e) \/ TxnAbort(e)
  \/ \E e \in Envs, num \in BatchSizes : SetBatchSize(e, num)
  \/ \E e \in TxnEnvs : TxnBegin(e)
  \/ \E e \in CloseEnvs : Close(e)

LoopStep ==
  \/ TimerFire
  \/ \E e \in Envs : CloseDone(e)
  \/ ExecPut \/ ExecDel \/ CommitBatch \/ FlushFails

Next == AppStep \/ LoopStep \/ Crash \/ Restart

Spec == Init /\ [][Next]_vars

\* libuv runs a due timer and a finished sync, and a JavaScript call that does
\* not block returns.  Nothing is assumed of the application.
Fairness ==
  /\ WF_vars(TimerFire)
  /\ WF_vars(ExecPut \/ ExecDel \/ CommitBatch \/ FlushFails)
  /\ \A e \in Envs : WF_vars(CloseDone(e))

FairSpec == Spec /\ Fairness

-----------------------------------------------------------------------------
(* Properties.                                                             *)

\* No accepted operation is lost or committed twice: whatever mix of flushes,
\* failures, closes and hangs happened, an operation that _pushBatch accepted
\* is either committed or still queued (lib/lmdb/env.js:50-56 keeps the queue
\* when a flush throws and resets it only after the commit).
Conservation ==
  \A e \in Envs : accepted[e] = committed[e] + Len(batchOps[e])

\* A flush never leaks the write mutex: between callbacks no environment's
\* mutex is held by a batch, whether the flush committed or threw, so a later
\* flush or put of the same environment is not blocked by an earlier one.
MutexReleased ==
  \A e \in Envs : writer[e] = "batch" <=> frame.env = e

\* While a batch is executing, its transaction sees the committed table changed
\* by exactly the records executed so far.
DirtyIsPrefix ==
  LET e == frame.env IN
  e # NoEnv =>
    /\ batchOps[e] # <<>> /\ frame.next - 1 <= Len(batchOps[e])
    /\ dirty[e] = Applied(store[e], batchOps[e], frame.next - 1)

\* The inductive invariant.
IInv == TypeOK /\ Conservation /\ MutexReleased /\ DirtyIsPrefix

\* Between callbacks the queue is never longer than the batch size: the size
\* test of _pushBatch (>=) and the one of setBatchSize (>) together keep it so,
\* as long as no flush fails.
QueueBounded ==
  Idle => \A e \in Envs : Len(batchOps[e]) <= batchSize[e]

\* Its inductive form: only the queue being flushed may be longer.
BoundInv ==
  /\ proc = "up" => \A e \in Envs : frame.env # e => Len(batchOps[e]) <= batchSize[e]
  /\ proc = "down" => frame.env = NoEnv /\ \A e \in Envs : batchOps[e] = <<>>
  /\ frame.by = "app" /\ frame.env # NoEnv => status[frame.env] = "open"

\* What the application's open write transaction sees; a batch has no view.
appView == [e \in Envs |-> IF writer[e] = "app" THEN {dirty[e]} ELSE {}]

Abs == INSTANCE BatchSpec WITH queue <- batchOps, view <- appView

\* Batches are atomic: record by record execution, failures half way, blocked
\* calls, closes and crashes included, the environments behave as BatchSpec.
AtomicBatches == Abs!Spec

\* Every accepted operation is committed without any further call by the
\* application (README.md:73 "Data will be flushed automatically after 1ms").
AutoFlush ==
  \A e \in Envs : \A n \in 1..MaxOps :
    (accepted[e] >= n) ~> (committed[e] >= n)

\* The automatic flush with what the shared timer costs: what an environment has
\* accepted is committed without any further call, unless the process is killed,
\* if no other environment has batched, or if it pushed last and no other one
\* takes the timer over.
LastIsFlushed ==
  \A e \in Envs : \A n \in 1..MaxOps :
    /\ (accepted[e] >= n) ~>
         (committed[e] >= n \/ accepted[e] < n \/ \E f \in Envs \ {e} : accepted[f] > 0)
    /\ (accepted[e] >= n /\ e \in {timer, frame.env}) ~>
         (committed[e] >= n \/ accepted[e] < n \/ timer \in Envs \ {e})
=============================================================================
