-------------------------- MODULE LmdbBatch_proofs --------------------------
(***************************************************************************)
(* Proofs about LmdbBatch, for any environments, keys, values and bounds.  *)
(***************************************************************************)
EXTENDS LmdbBatch, TLAPS

-----------------------------------------------------------------------------
(* Facts about the records of BatchOps and about Applied: the declarative  *)
(* "last write wins" effect of a batch prefix is what executing the        *)
(* records one by one computes.                                            *)

\* The records the two batch calls push.
LEMMA OpTypes ==
  ASSUME NEW k \in Keys
  PROVE  /\ \A v \in Vals : PutOp(k, v) \in Op
         /\ DelOp(k) \in Op
BY DEF PutOp, DelOp, Op

\* One record turns a table into a table.
LEMMA ApplyOpType ==
  ASSUME NEW table \in Tables, NEW op \in Op
  PROVE  ApplyOp(table, op) \in Tables
BY DEF ApplyOp, Tables, Op

\* At most one record is the last one on a key.
LEMMA LastUnique ==
  ASSUME NEW ops, NEW n \in Nat, NEW k, NEW i, NEW j,
         IsLastOn(ops, n, k, i), IsLastOn(ops, n, k, j)
  PROVE  i = j
BY DEF IsLastOn

\* The value Applied gives to a key with a last record.
LEMMA AppliedLast ==
  ASSUME NEW table, NEW ops, NEW n \in Nat, NEW k \in Keys, NEW i,
         IsLastOn(ops, n, k, i)
  PROVE  Applied(table, ops, n)[k] = ops[i].val
<1>1. i \in 1..n
  BY DEF IsLastOn
<1> DEFINE c == CHOOSE j \in 1..n : IsLastOn(ops, n, k, j)
<1>2. IsLastOn(ops, n, k, c)
  BY <1>1
<1>3. c = i
  <2> HIDE DEF c
  <2> QED BY <1>2, LastUnique
<1>4. Applied(table, ops, n)[k] = ops[c].val
  BY <1>1 DEF Applied
<1> QED BY <1>3, <1>4

\* The value Applied gives to a key without one.
LEMMA AppliedNone ==
  ASSUME NEW table, NEW ops, NEW n \in Nat, NEW k \in Keys,
         \A i \in 1..n : ~IsLastOn(ops, n, k, i)
  PROVE  Applied(table, ops, n)[k] = table[k]
BY DEF Applied

\* Executing no record changes nothing (a flush that has just begun).
LEMMA AppliedZero ==
  ASSUME NEW table \in Tables, NEW ops
  PROVE  Applied(table, ops, 0) = table
BY DEF Applied, Tables, IsLastOn

\* Executing record n + 1 is ApplyOp (one op.exec of the forEach in
\* flushBatchOps).
LEMMA AppliedStep ==
  ASSUME NEW table \in Tables, NEW ops \in Seq(Op), NEW n \in Nat, n < Len(ops)
  PROVE  Applied(table, ops, n + 1) = ApplyOp(Applied(table, ops, n), ops[n + 1])
<1> DEFINE op == ops[n + 1]
           before == Applied(table, ops, n)
           after == Applied(table, ops, n + 1)
<1>0. op.key \in Keys
  <2>1. n + 1 \in 1..Len(ops)
    OBVIOUS
  <2>2. op \in Op
    BY <2>1
  <2> QED BY <2>2 DEF Op
<1>1. /\ DOMAIN after = Keys
      /\ DOMAIN ApplyOp(before, op) = Keys
  BY DEF Applied, ApplyOp
<1>2. ASSUME NEW k \in Keys
      PROVE  after[k] = ApplyOp(before, op)[k]
  <2>1. CASE k = op.key
    <3>1. IsLastOn(ops, n + 1, k, n + 1)
      BY <2>1 DEF IsLastOn
    <3>2. after[k] = op.val
      BY <3>1, AppliedLast
    <3>3. ApplyOp(before, op)[k] = op.val
      BY <2>1 DEF ApplyOp, Applied
    <3> QED BY <3>2, <3>3
  <2>2. CASE k # op.key
    <3>1. ApplyOp(before, op)[k] = before[k]
      BY <2>2 DEF ApplyOp, Applied
    <3>2. \A i : IsLastOn(ops, n + 1, k, i) <=> IsLastOn(ops, n, k, i)
      BY <2>2 DEF IsLastOn
    <3>3. CASE \E i \in 1..n : IsLastOn(ops, n, k, i)
      <4>1. PICK i \in 1..n : IsLastOn(ops, n, k, i)
        BY <3>3
      <4> QED BY <3>1, <3>2, <4>1, AppliedLast
    <3>4. CASE \A i \in 1..n : ~IsLastOn(ops, n, k, i)
      <4>1. \A i \in 1..(n + 1) : ~IsLastOn(ops, n + 1, k, i)
        BY <3>2, <3>4 DEF IsLastOn
      <4> HIDE DEF op
      <4> QED BY <3>1, <3>4, <4>1, AppliedNone
    <3> QED BY <3>3, <3>4
  <2> QED BY <2>1, <2>2
<1>3. after = [k \in Keys |-> after[k]]
  BY DEF Applied
<1>4. ApplyOp(before, op) = [k \in Keys |-> ApplyOp(before, op)[k]]
  BY DEF Applied, ApplyOp
<1> HIDE DEF op, before, after
<1> QED BY <1>2, <1>3, <1>4 DEF op, before, after

-----------------------------------------------------------------------------

USE EnvAssumption

\* Every environment starts with an empty table, no queue and no flush.
LEMMA InitInv == Init => IInv
<1> SUFFICES ASSUME Init PROVE IInv
  OBVIOUS
<1> USE DEF Init
<1>1. TypeOK
  BY SizeAssumption DEF TypeOK, Empty, Tables, NoFrame
<1>2. Conservation
  BY DEF Conservation
<1>3. MutexReleased
  BY DEF MutexReleased, NoFrame
<1>4. DirtyIsPrefix
  BY DEF DirtyIsPrefix, NoFrame
<1> QED BY <1>1, <1>2, <1>3, <1>4 DEF IInv

\* The death of the process preserves the invariant.
LEMMA DieInv == IInv /\ Die => IInv'
<1> SUFFICES ASSUME IInv, Die PROVE IInv'
  OBVIOUS
<1> USE DEF IInv, Die
<1>1. TypeOK'
  BY DEF TypeOK, NoFrame
<1>2. Conservation'
  BY DEF Conservation, TypeOK
<1>3. MutexReleased'
  BY DEF MutexReleased, NoFrame
<1>4. DirtyIsPrefix'
  BY DEF DirtyIsPrefix, NoFrame
<1> QED BY <1>1, <1>2, <1>3, <1>4

\* Entering flushBatchOps between callbacks, with the queue it will flush in
\* place, establishes the flush part of the invariant.
LEMMA EnterFlushInv ==
  ASSUME IInv, Idle, NEW e \in Envs, NEW by \in {"app", "timer"},
         EnterFlush(e, batchOps'[e], by),
         store' = store, batchOps' \in [Envs -> Seq(Op)]
  PROVE  /\ writer' \in [Envs -> {"free", "app", "batch"}]
         /\ dirty' \in [Envs -> Tables]
         /\ frame' \in [env : Envs \cup {NoEnv}, next : Nat \ {0}, by : {"app", "timer"}]
         /\ proc' \in {"up", "hung", "down"}
         /\ MutexReleased'
         /\ DirtyIsPrefix'
<1> USE DEF IInv, TypeOK, Idle
<1>1. CASE UNCHANGED txnVars
  BY <1>1 DEF txnVars, MutexReleased, DirtyIsPrefix
<1>2. CASE proc' = "hung" /\ UNCHANGED <<writer, dirty, frame>>
  BY <1>2 DEF MutexReleased, DirtyIsPrefix
<1>3. CASE /\ batchOps'[e] # <<>> /\ writer[e] = "free"
           /\ frame' = [env |-> e, next |-> 1, by |-> by]
           /\ writer' = [writer EXCEPT ![e] = "batch"]
           /\ dirty' = [dirty EXCEPT ![e] = store[e]]
           /\ UNCHANGED proc
  <2>1. MutexReleased'
    BY <1>3 DEF MutexReleased
  <2>2. dirty'[e] = Applied(store'[e], batchOps'[e], 0)
    BY <1>3, AppliedZero
  <2>3. Len(batchOps'[e]) \in Nat
    OBVIOUS
  <2>4. DirtyIsPrefix'
    BY <1>3, <2>2, <2>3 DEF DirtyIsPrefix
  <2> QED BY <1>3, <2>1, <2>4
<1> QED BY <1>1, <1>2, <1>3 DEF EnterFlush

\* batchPut and batchDel.
LEMMA PushInv ==
  ASSUME NEW e \in Envs, NEW op \in Op, IInv, Push(e, op)
  PROVE  IInv'
<1>a. /\ Idle
      /\ batchOps' = [batchOps EXCEPT ![e] = Append(@, op)]
      /\ accepted' = [accepted EXCEPT ![e] = @ + 1]
      /\ UNCHANGED <<store, batchSize, status, committed>>
  BY DEF Push
<1>b. \/ EnterFlush(e, Append(batchOps[e], op), "app") /\ UNCHANGED timer
      \/ timer' = e /\ UNCHANGED txnVars
  BY DEF Push
<1>c. /\ batchOps \in [Envs -> Seq(Op)]
      /\ accepted \in [Envs -> Nat] /\ committed \in [Envs -> Nat]
  BY DEF IInv, TypeOK
<1>0. /\ batchOps[e] \in Seq(Op) /\ Len(batchOps[e]) \in Nat
      /\ batchOps' \in [Envs -> Seq(Op)]
      /\ batchOps'[e] = Append(batchOps[e], op)
      /\ Len(batchOps'[e]) = Len(batchOps[e]) + 1
      /\ \A d \in Envs \ {e} : batchOps'[d] = batchOps[d]
  BY <1>a, <1>c
<1>1. /\ accepted' \in [Envs -> Nat] /\ accepted'[e] = accepted[e] + 1
      /\ \A d \in Envs \ {e} : accepted'[d] = accepted[d]
  BY <1>a, <1>c
<1>2. Conservation'
  BY <1>0, <1>1, <1>a, <1>c DEF Conservation, IInv
<1>3. CASE EnterFlush(e, Append(batchOps[e], op), "app") /\ UNCHANGED timer
  <2>1. EnterFlush(e, batchOps'[e], "app")
    BY <1>0, <1>3
  <2> QED BY <1>a, <1>0, <1>1, <1>2, <1>3, <2>1, EnterFlushInv DEF IInv, TypeOK
<1>4. CASE timer' = e /\ UNCHANGED txnVars
  BY <1>a, <1>0, <1>1, <1>2, <1>4 DEF IInv, TypeOK, txnVars, Idle, MutexReleased, DirtyIsPrefix
<1> QED BY <1>b, <1>3, <1>4

\* flushBatchOps called by the application.
LEMMA FlushInv ==
  ASSUME NEW e \in Envs, IInv, Flush(e)
  PROVE  IInv'
<1>1. /\ Idle /\ EnterFlush(e, batchOps'[e], "app") /\ store' = store
      /\ batchOps' \in [Envs -> Seq(Op)]
  BY DEF Flush, IInv, TypeOK
<1>2. Conservation'
  BY DEF Flush, IInv, Conservation
<1> QED BY <1>1, <1>2, EnterFlushInv DEF Flush, IInv, TypeOK

\* setBatchSize.
LEMMA SetBatchSizeInv ==
  ASSUME NEW e \in Envs, NEW num \in BatchSizes, IInv, SetBatchSize(e, num)
  PROVE  IInv'
<1>1. /\ Idle /\ store' = store /\ batchOps' \in [Envs -> Seq(Op)]
      /\ batchOps' = batchOps
  BY DEF SetBatchSize, IInv, TypeOK
<1>2. Conservation'
  BY DEF SetBatchSize, IInv, Conservation
<1>3. batchSize' \in [Envs -> Nat]
  BY SizeAssumption DEF SetBatchSize, IInv, TypeOK, Capped
<1>4. CASE EnterFlush(e, batchOps[e], "app")
  BY <1>1, <1>2, <1>3, <1>4, EnterFlushInv DEF SetBatchSize, IInv, TypeOK
<1>5. CASE UNCHANGED txnVars
  BY <1>1, <1>2, <1>3, <1>5 DEF SetBatchSize, IInv, TypeOK, txnVars, MutexReleased, DirtyIsPrefix
<1> QED BY <1>4, <1>5 DEF SetBatchSize

\* db.put, with and without the application's own transaction: between
\* callbacks, so no flush is in progress.
LEMMA PutInv ==
  ASSUME IInv, NEW e \in Envs, NEW k \in Keys, NEW v \in Vals,
         Put(e, k, v) \/ TxnPut(e, k, v)
  PROVE  IInv'
<1>0. /\ ApplyOp(store[e], PutOp(k, v)) \in Tables
      /\ ApplyOp(dirty[e], PutOp(k, v)) \in Tables
  BY OpTypes, ApplyOpType DEF IInv, TypeOK
<1>1. frame.env = NoEnv /\ frame' = frame /\ writer' = writer
  BY DEF Put, TxnPut, Idle
<1>2. MutexReleased' /\ DirtyIsPrefix'
  BY <1>1 DEF IInv, MutexReleased, DirtyIsPrefix
<1>3. Conservation'
  BY DEF IInv, Conservation, Put, TxnPut
<1>4. CASE Put(e, k, v)
  <2>1. store' \in [Envs -> Tables]
    BY <1>0, <1>4 DEF Put, IInv, TypeOK
  <2>2. proc' \in {"up", "hung", "down"}
    BY <1>4 DEF Put, IInv, TypeOK
  <2> QED BY <1>2, <1>3, <1>4, <2>1, <2>2 DEF Put, IInv, TypeOK
<1>5. CASE TxnPut(e, k, v)
  BY <1>0, <1>2, <1>3, <1>5 DEF TxnPut, IInv, TypeOK
<1> QED BY <1>4, <1>5

\* The application's own write transactions.
LEMMA TxnInv ==
  ASSUME IInv, NEW e \in Envs, TxnBegin(e) \/ TxnCommit(e) \/ TxnAbort(e)
  PROVE  IInv'
<1>1. frame.env = NoEnv /\ frame' = frame
  BY DEF TxnBegin, TxnCommit, TxnAbort, Idle
<1>2. DirtyIsPrefix'
  BY <1>1 DEF DirtyIsPrefix
<1>3. Conservation'
  BY DEF IInv, Conservation, TxnBegin, TxnCommit, TxnAbort
<1>4. TypeOK'
  <2>1. writer' \in [Envs -> {"free", "app", "batch"}]
    <3>1. \/ writer' = writer
          \/ writer' = [writer EXCEPT ![e] = "app"]
          \/ writer' = [writer EXCEPT ![e] = "free"]
      BY DEF TxnBegin, TxnCommit, TxnAbort
    <3> QED BY <3>1 DEF IInv, TypeOK
  <2>2. dirty' \in [Envs -> Tables]
    <3>1. dirty' = dirty \/ dirty' = [dirty EXCEPT ![e] = store[e]]
      BY DEF TxnBegin, TxnCommit, TxnAbort
    <3>2. dirty \in [Envs -> Tables] /\ store[e] \in Tables
      BY DEF IInv, TypeOK
    <3> QED BY <3>1, <3>2
  <2>3. store' \in [Envs -> Tables]
    BY DEF IInv, TypeOK, TxnBegin, TxnCommit, TxnAbort
  <2>4. proc' \in {"up", "hung", "down"}
    BY DEF IInv, TypeOK, TxnBegin, TxnCommit, TxnAbort
  <2> QED
    BY <2>1, <2>2, <2>3, <2>4 DEF IInv, TypeOK, TxnBegin, TxnCommit, TxnAbort
<1>5. MutexReleased'
  BY <1>1 DEF IInv, TypeOK, MutexReleased, TxnBegin, TxnCommit, TxnAbort
<1> QED BY <1>2, <1>3, <1>4, <1>5 DEF IInv

\* close() and the end of its sync.
LEMMA CloseInv ==
  ASSUME IInv, NEW e \in Envs, Close(e) \/ CloseDone(e)
  PROVE  IInv'
<1>1. frame.env = NoEnv /\ frame' = frame /\ writer' = writer
  BY DEF Close, CloseDone, Idle
<1>2. TypeOK'
  BY DEF IInv, TypeOK, Close, CloseDone
<1>3. Conservation'
  BY DEF IInv, Conservation, Close, CloseDone
<1>4. MutexReleased' /\ DirtyIsPrefix'
  BY <1>1 DEF IInv, MutexReleased, DirtyIsPrefix
<1> QED BY <1>2, <1>3, <1>4 DEF IInv

\* The debounce timer.
LEMMA TimerFireInv ==
  ASSUME IInv, TimerFire
  PROVE  IInv'
<1>0. timer \in Envs /\ Idle
  BY DEF TimerFire, IInv, TypeOK
<1>1. CASE /\ EnterFlush(timer, batchOps[timer], "timer")
           /\ timer' = NoEnv
           /\ UNCHANGED <<store, batchOps, batchSize, status, accepted, committed>>
  <2>1. /\ EnterFlush(timer, batchOps'[timer], "timer") /\ store' = store
        /\ batchOps' \in [Envs -> Seq(Op)]
    BY <1>1 DEF IInv, TypeOK
  <2>2. Conservation'
    BY <1>1 DEF IInv, Conservation
  <2> QED BY <1>0, <1>1, <2>1, <2>2, EnterFlushInv DEF IInv, TypeOK
<1>2. CASE Die
  BY <1>2, DieInv
<1> QED BY <1>1, <1>2 DEF TimerFire

\* The environment a flush works on.
LEMMA FrameEnv ==
  ASSUME IInv, InFlush
  PROVE  /\ frame.env \in Envs
         /\ batchOps[frame.env] \in Seq(Op)
         /\ Len(batchOps[frame.env]) \in Nat
         /\ writer[frame.env] = "batch"
BY DEF IInv, TypeOK, InFlush, MutexReleased

\* One put record executed.
LEMMA ExecPutInv ==
  ASSUME IInv, ExecPut
  PROVE  IInv'
<1> DEFINE e == frame.env
           n == frame.next
<1>0. /\ e \in Envs /\ batchOps[e] \in Seq(Op) /\ n \in Nat \ {0}
      /\ n <= Len(batchOps[e]) /\ Len(batchOps[e]) \in Nat
      /\ store[e] \in Tables /\ dirty[e] \in Tables
  BY FrameEnv DEF ExecPut, IInv, TypeOK
<1>1. NextOp \in Op
  BY <1>0 DEF NextOp
<1>2. ApplyOp(dirty[e], NextOp) \in Tables
  BY <1>0, <1>1, ApplyOpType
<1>3. /\ frame'.env = e /\ frame'.next = n + 1 /\ frame'.by = frame.by
      /\ frame' \in [env : Envs \cup {NoEnv}, next : Nat \ {0}, by : {"app", "timer"}]
      /\ dirty' = [dirty EXCEPT ![e] = ApplyOp(dirty[e], NextOp)]
  <2>1. frame' = [frame EXCEPT !.next = n + 1] /\ n + 1 \in Nat \ {0}
    BY <1>0 DEF ExecPut
  <2>2. frame \in [env : Envs \cup {NoEnv}, next : Nat \ {0}, by : {"app", "timer"}]
    BY DEF IInv, TypeOK
  <2>3. dirty' = [dirty EXCEPT ![e] = ApplyOp(dirty[e], NextOp)]
    BY DEF ExecPut
  <2> HIDE DEF n
  <2> QED BY <2>1, <2>2, <2>3
<1>4. TypeOK'
  <2>1. dirty' \in [Envs -> Tables]
    <3>1. dirty \in [Envs -> Tables]
      BY DEF IInv, TypeOK
    <3> HIDE DEF e
    <3> QED BY <1>0, <1>2, <1>3, <3>1
  <2>2. UNCHANGED <<store, batchOps, batchSize, status, writer, timer, proc, accepted, committed>>
    BY DEF ExecPut
  <2> QED BY <1>3, <2>1, <2>2 DEF IInv, TypeOK
<1>5. Conservation' /\ MutexReleased'
  BY <1>3 DEF ExecPut, IInv, Conservation, MutexReleased
<1>6. DirtyIsPrefix'
  <2>1. dirty[e] = Applied(store[e], batchOps[e], n - 1)
    BY <1>0 DEF ExecPut, InFlush, IInv, DirtyIsPrefix
  <2>2. Applied(store[e], batchOps[e], (n - 1) + 1)
          = ApplyOp(Applied(store[e], batchOps[e], n - 1), batchOps[e][(n - 1) + 1])
    <3>1. n - 1 \in Nat /\ n - 1 < Len(batchOps[e])
      BY <1>0
    <3> QED BY <1>0, <3>1, AppliedStep
  <2>3. (n - 1) + 1 = n /\ (n + 1) - 1 = n
    BY <1>0
  <2>4. dirty'[e] = Applied(store[e], batchOps[e], n)
    BY <1>0, <1>3, <2>1, <2>2, <2>3 DEF NextOp, IInv, TypeOK
  <2>5. batchOps[e] # <<>>
    BY DEF ExecPut, InFlush, IInv, DirtyIsPrefix
  <2>6. batchOps' = batchOps /\ store' = store
    BY DEF ExecPut
  <2> HIDE DEF e, n
  <2> QED BY <1>0, <1>3, <2>3, <2>4, <2>5, <2>6 DEF DirtyIsPrefix
<1> QED BY <1>4, <1>5, <1>6 DEF IInv

\* A del record blocks the process.
LEMMA ExecDelInv ==
  ASSUME IInv, ExecDel
  PROVE  IInv'
BY DEF ExecDel, IInv, TypeOK, Conservation, MutexReleased, DirtyIsPrefix

\* The commit of a batch.
LEMMA CommitBatchInv ==
  ASSUME IInv, CommitBatch
  PROVE  IInv'
<1> DEFINE e == frame.env
<1>0. /\ e \in Envs /\ batchOps[e] \in Seq(Op) /\ Len(batchOps[e]) \in Nat
      /\ writer[e] = "batch"
  BY FrameEnv DEF CommitBatch
<1>1. frame'.env = NoEnv
  BY DEF CommitBatch, NoFrame
<1>2. committed' = [committed EXCEPT ![e] = committed[e] + Len(batchOps[e])]
  BY DEF CommitBatch
<1>3. committed' \in [Envs -> Nat] /\ batchOps' \in [Envs -> Seq(Op)]
  BY <1>0, <1>2 DEF CommitBatch, IInv, TypeOK
<1>4. TypeOK'
  BY <1>0, <1>3 DEF CommitBatch, NoFrame, IInv, TypeOK
<1>5. Conservation'
  BY <1>0, <1>2, <1>3 DEF CommitBatch, IInv, TypeOK, Conservation
<1>6. MutexReleased'
  BY <1>0, <1>1 DEF CommitBatch, IInv, TypeOK, MutexReleased
<1>7. DirtyIsPrefix'
  BY <1>1 DEF DirtyIsPrefix
<1> QED BY <1>4, <1>5, <1>6, <1>7 DEF IInv

\* A flush that throws.
LEMMA FlushFailsInv ==
  ASSUME IInv, FlushFails
  PROVE  IInv'
<1>0. frame.env \in Envs /\ writer[frame.env] = "batch"
  BY FrameEnv DEF FlushFails
<1>1. CASE Die
  BY <1>1, DieInv
<1>2. CASE /\ writer' = [writer EXCEPT ![frame.env] = "free"]
           /\ frame' = NoFrame
           /\ UNCHANGED <<store, batchOps, batchSize, status, dirty, timer, proc,
                          accepted, committed>>
  <2>1. TypeOK'
    BY <1>0, <1>2 DEF NoFrame, IInv, TypeOK
  <2>2. Conservation'
    BY <1>2 DEF IInv, Conservation
  <2>3. MutexReleased' /\ DirtyIsPrefix'
    BY <1>0, <1>2 DEF NoFrame, IInv, TypeOK, MutexReleased, DirtyIsPrefix
  <2> QED BY <2>1, <2>2, <2>3 DEF IInv
<1> QED BY <1>1, <1>2 DEF FlushFails

\* A new process.
LEMMA RestartInv ==
  ASSUME IInv, Restart
  PROVE  IInv'
BY SizeAssumption DEF Restart, IInv, TypeOK, Conservation, MutexReleased, DirtyIsPrefix

-----------------------------------------------------------------------------

\* Every step of the library, the event loop and the environment preserves the
\* invariant.
LEMMA NextInv == IInv /\ [Next]_vars => IInv'
<1> SUFFICES ASSUME IInv, [Next]_vars PROVE IInv'
  OBVIOUS
<1>1. CASE AppStep
  <2>1. ASSUME NEW e \in Envs, NEW k \in Keys, NEW v \in Vals, Push(e, PutOp(k, v))
        PROVE  IInv'
    BY <2>1, OpTypes, PushInv
  <2>2. ASSUME NEW e \in Envs, NEW k \in Keys, Push(e, DelOp(k))
        PROVE  IInv'
    BY <2>2, OpTypes, PushInv
  <2>3. ASSUME NEW e \in Envs, NEW k \in Keys, NEW v \in Vals,
               Put(e, k, v) \/ TxnPut(e, k, v)
        PROVE  IInv'
    BY <2>3, PutInv
  <2>4. ASSUME NEW e \in Envs, TxnBegin(e) \/ TxnCommit(e) \/ TxnAbort(e)
        PROVE  IInv'
    BY <2>4, TxnInv
  <2>5. ASSUME NEW e \in Envs, Flush(e)
        PROVE  IInv'
    BY <2>5, FlushInv
  <2>6. ASSUME NEW e \in Envs, NEW num \in BatchSizes, SetBatchSize(e, num)
        PROVE  IInv'
    BY <2>6, SetBatchSizeInv
  <2>7. ASSUME NEW e \in Envs, Close(e)
        PROVE  IInv'
    BY <2>7, CloseInv
  <2> QED
    BY <1>1, <2>1, <2>2, <2>3, <2>4, <2>5, <2>6, <2>7, UseAssumption DEF AppStep
<1>2. CASE LoopStep
  BY <1>2, TimerFireInv, CloseInv, ExecPutInv, ExecDelInv, CommitBatchInv,
     FlushFailsInv DEF LoopStep
<1>3. CASE Crash
  BY <1>3, DieInv DEF Crash
<1>4. CASE Restart
  BY <1>4, RestartInv
<1>5. CASE UNCHANGED vars
  BY <1>5 DEF vars, IInv, TypeOK, Conservation, MutexReleased, DirtyIsPrefix
<1> QED BY <1>1, <1>2, <1>3, <1>4, <1>5 DEF Next

\* The invariant holds in every reachable state.
THEOREM Invariance == Spec => []IInv
BY InitInv, NextInv, PTL DEF Spec

\* Every reachable state is well typed; in particular batch sizes stay natural
\* numbers and a flush only ever executes an environment's queue.
THEOREM TypeCorrect == Spec => []TypeOK
<1>1. IInv => TypeOK
  BY DEF IInv
<1> QED BY Invariance, <1>1, PTL

\* No accepted operation is lost or committed twice, whatever the interleaving
\* of pushes, flushes, failures, timers, closes and crashes.
THEOREM NothingLost == Spec => []Conservation
<1>1. IInv => Conservation
  BY DEF IInv
<1> QED BY Invariance, <1>1, PTL

\* At every point of a flush the transaction sees exactly the executed records.
THEOREM ExecutesInOrder == Spec => []DirtyIsPrefix
<1>1. IInv => DirtyIsPrefix
  BY DEF IInv
<1> QED BY Invariance, <1>1, PTL

\* No flush, failed or not, leaves the write mutex locked behind it.
THEOREM MutexNeverLeaks == Spec => []MutexReleased
<1>1. IInv => MutexReleased
  BY DEF IInv
<1> QED BY Invariance, <1>1, PTL

-----------------------------------------------------------------------------
(* The length of the queue, when no flush called by the application fails. *)

\* The death of the process empties the queues.
LEMMA DieBound == ASSUME Die PROVE BoundInv'
BY DEF Die, BoundInv, NoFrame

\* Entering a flush excuses its queue from the bound.
LEMMA EnterFlushBound ==
  ASSUME TypeOK, BoundInv, Idle, NEW e \in Envs, NEW by \in {"app", "timer"},
         EnterFlush(e, batchOps'[e], by), by = "app" => status[e] = "open", status' = status,
         batchOps'[e] = <<>> => Len(batchOps'[e]) <= batchSize'[e],
         \A d \in Envs : d # e => batchOps'[d] = batchOps[d] /\ batchSize'[d] = batchSize[d]
  PROVE  BoundInv'
<1> USE DEF TypeOK, Idle, BoundInv
<1>1. CASE batchOps'[e] = <<>> /\ UNCHANGED txnVars
  BY <1>1 DEF txnVars
<1>2. CASE proc' = "hung" /\ UNCHANGED <<writer, dirty, frame>>
  BY <1>2
<1>3. CASE frame' = [env |-> e, next |-> 1, by |-> by] /\ UNCHANGED proc
  <2>1. frame'.env = e /\ frame'.by = by /\ proc' = "up"
    BY <1>3
  <2> QED BY <2>1
<1> QED BY <1>1, <1>2, <1>3 DEF EnterFlush

\* Every step keeps the bound, if no operation can fail.
LEMMA NextBound ==
  ASSUME ~IOErrors, BadKeys = {}, TypeOK, BoundInv, [Next]_vars
  PROVE  BoundInv'
<1>0. \A e \in Envs : Len(batchOps[e]) \in Nat /\ batchSize[e] \in Nat /\ batchOps[e] \in Seq(Op)
  BY DEF TypeOK
<1>1. ASSUME NEW e \in Envs, NEW op, Push(e, op) PROVE BoundInv'
  <2>1. /\ Idle /\ status[e] = "open" /\ UNCHANGED <<batchSize, status>>
        /\ batchOps' = [batchOps EXCEPT ![e] = Append(@, op)]
    BY <1>1 DEF Push
  <2>2. /\ batchOps'[e] = Append(batchOps[e], op)
        /\ \A d \in Envs : d # e => batchOps'[d] = batchOps[d] /\ batchSize'[d] = batchSize[d]
    BY <2>1 DEF TypeOK
  <2>3. batchOps'[e] # <<>> /\ Len(batchOps'[e]) = Len(batchOps[e]) + 1
    BY <1>0, <2>2
  <2>4. CASE EnterFlush(e, Append(batchOps[e], op), "app")
    BY <2>1, <2>2, <2>3, <2>4, EnterFlushBound
  <2>5. CASE Len(batchOps[e]) + 1 < batchSize[e] /\ UNCHANGED txnVars
    BY <1>0, <2>1, <2>2, <2>3, <2>5 DEF txnVars, Idle, BoundInv
  <2> QED BY <1>1, <2>4, <2>5 DEF Push
<1>2. ASSUME NEW e \in Envs, Flush(e) PROVE BoundInv'
  <2>1. /\ Idle /\ status[e] = "open" /\ UNCHANGED <<batchOps, batchSize, status>>
        /\ EnterFlush(e, batchOps'[e], "app")
    BY <1>2 DEF Flush
  <2>2. batchOps'[e] = <<>> => Len(batchOps'[e]) <= batchSize'[e]
    BY <1>0, <2>1
  <2> QED BY <2>1, <2>2, EnterFlushBound
<1>3. ASSUME NEW e \in Envs, NEW num \in BatchSizes, SetBatchSize(e, num) PROVE BoundInv'
  <2>1. /\ Idle /\ status[e] = "open" /\ UNCHANGED <<batchOps, status>>
        /\ batchSize' = [batchSize EXCEPT ![e] = Capped(num)]
    BY <1>3 DEF SetBatchSize
  <2>2. Capped(num) \in Nat
    BY SizeAssumption DEF Capped
  <2>3. batchSize'[e] = Capped(num) /\ \A d \in Envs : d # e => batchSize'[d] = batchSize[d]
    BY <2>1 DEF TypeOK
  <2>4. CASE EnterFlush(e, batchOps[e], "app")
    <3>1. batchOps'[e] = <<>> => Len(batchOps'[e]) <= batchSize'[e]
      BY <1>0, <2>1, <2>2, <2>3
    <3> QED BY <2>1, <2>3, <2>4, <3>1, EnterFlushBound
  <2>5. CASE Len(batchOps[e]) <= Capped(num) /\ UNCHANGED txnVars
    BY <2>1, <2>3, <2>5 DEF txnVars, Idle, BoundInv
  <2> QED BY <1>3, <2>4, <2>5 DEF SetBatchSize
<1>4. CASE TimerFire
  <2>1. CASE Die
    BY <2>1, DieBound
  <2>2. CASE /\ EnterFlush(timer, batchOps[timer], "timer")
             /\ UNCHANGED <<batchOps, batchSize, status>>
    <3>1. timer \in Envs /\ Idle
      BY <1>4 DEF TimerFire, TypeOK
    <3>2. batchOps'[timer] = <<>> => Len(batchOps'[timer]) <= batchSize'[timer]
      BY <1>0, <2>2, <3>1
    <3> QED BY <2>2, <3>1, <3>2, EnterFlushBound
  <2> QED BY <1>4, <2>1, <2>2 DEF TimerFire
<1>5. CASE FlushFails
  <2>1. CASE Die
    BY <2>1, DieBound
  <2>2. CASE ~Die
    <3>1. frame.by = "app" /\ frame.env # NoEnv /\ status[frame.env] = "closing"
      BY <1>5, <2>2 DEF FlushFails, InFlush
    <3> QED BY <3>1 DEF BoundInv
  <2> QED BY <2>1, <2>2
<1>6. CASE CommitBatch
  <2>1. /\ proc = "up" /\ frame' = NoFrame /\ UNCHANGED <<batchSize, status, proc>>
        /\ batchOps' = [batchOps EXCEPT ![frame.env] = <<>>]
    BY <1>6 DEF CommitBatch, InFlush
  <2>2. ASSUME NEW d \in Envs PROVE Len(batchOps'[d]) <= batchSize'[d]
    <3>1. CASE d = frame.env
      BY <1>0, <2>1, <3>1 DEF TypeOK
    <3>2. CASE d # frame.env
      BY <1>0, <2>1, <3>2 DEF TypeOK, BoundInv
    <3> QED BY <3>1, <3>2
  <2> QED BY <2>1, <2>2 DEF BoundInv, NoFrame
<1>7. CASE ExecPut
  <2>1. /\ frame'.env = frame.env /\ frame'.by = frame.by
        /\ UNCHANGED <<batchOps, batchSize, status, proc>>
    BY <1>7 DEF ExecPut, TypeOK
  <2> QED BY <2>1 DEF BoundInv
<1>8. CASE ExecDel
  BY <1>8 DEF ExecDel, BoundInv
<1>9. ASSUME NEW e \in Envs, Close(e) \/ CloseDone(e) PROVE BoundInv'
  BY <1>9 DEF Close, CloseDone, Idle, BoundInv
<1>10. CASE Restart
  BY <1>10, SizeAssumption DEF Restart, BoundInv
<1>11. CASE Crash
  BY <1>11, DieBound DEF Crash
<1>12. ASSUME NEW e \in Envs, NEW k, NEW v, Put(e, k, v) \/ TxnPut(e, k, v) PROVE BoundInv'
  BY <1>12 DEF Put, TxnPut, Idle, BoundInv
<1>13. ASSUME NEW e \in Envs, TxnBegin(e) \/ TxnCommit(e) \/ TxnAbort(e) PROVE BoundInv'
  BY <1>13 DEF TxnBegin, TxnCommit, TxnAbort, Idle, BoundInv
<1>14. CASE UNCHANGED vars
  BY <1>14 DEF vars, BoundInv
<1>15. CASE AppStep
  BY <1>1, <1>2, <1>3, <1>9, <1>12, <1>13, <1>15, UseAssumption DEF AppStep
<1>16. CASE LoopStep
  BY <1>4, <1>5, <1>6, <1>7, <1>8, <1>9, <1>16 DEF LoopStep
<1> QED BY <1>10, <1>11, <1>14, <1>15, <1>16 DEF Next

\* Where no put and no commit can fail, the queue is never longer than the batch
\* size between callbacks, for any sizes and any changes of them: also if the
\* application closes environments or the process dies and is restarted.
THEOREM QueueStaysBounded ==
  ASSUME ~IOErrors, BadKeys = {}
  PROVE  Spec => []QueueBounded
<1>1. Init => BoundInv
  BY SizeAssumption DEF Init, BoundInv, NoFrame
<1>2. TypeOK /\ BoundInv /\ [Next]_vars => BoundInv'
  BY NextBound
<1>3. TypeOK /\ BoundInv => QueueBounded
  BY DEF BoundInv, QueueBounded, Idle
<1> QED BY <1>1, <1>2, <1>3, TypeCorrect, PTL DEF Spec

-----------------------------------------------------------------------------
(* LmdbBatch implements BatchSpec.  Executing a record, entering a flush    *)
(* and failing one are stutters; the commit of a batch is the whole flush. *)

\* The abstract specification speaks of the same operations and tables.
LEMMA SameOps ==
  /\ Abs!Op = Op
  /\ Abs!Tables = Tables
  /\ \A k, v : Abs!PutOp(k, v) = PutOp(k, v)
  /\ \A table, op : Abs!ApplyOp(table, op) = ApplyOp(table, op)
  /\ \A table, ops, n : Abs!Applied(table, ops, n) = Applied(table, ops, n)
BY DEF Abs!Op, Op, Abs!Tables, Tables, Abs!PutOp, PutOp, Abs!ApplyOp, ApplyOp,
       Abs!Applied, Applied, Abs!IsLastOn, IsLastOn

\* The initial states map to initial states.
LEMMA InitRefines == Init => Abs!Init
BY SameOps DEF Init, appView, Empty, Tables, Abs!Init

\* Entering a flush changes no view: the mutex goes from free to the batch.
LEMMA EnterFlushView ==
  ASSUME IInv, NEW e \in Envs, NEW ops, NEW by, EnterFlush(e, ops, by)
  PROVE  appView' = appView
BY DEF EnterFlush, txnVars, appView, IInv, TypeOK

\* The death of the process drops every queue and every open transaction.
LEMMA DieRefines == Die => Abs!Die
BY DEF Die, appView, Abs!Die

\* A push is an Accept, whether it also enters a flush or arms the timer.
LEMMA PushRefines ==
  ASSUME IInv, NEW e \in Envs, NEW op \in Op, Push(e, op)
  PROVE  Abs!Accept(e, op)
<1>1. appView' = appView
  BY EnterFlushView DEF Push, txnVars, appView
<1> QED BY <1>1 DEF Push, Abs!Accept

\* A put without a transaction takes effect at once, or blocks and changes nothing.
LEMMA PutRefines ==
  ASSUME IInv, NEW e \in Envs, NEW k \in Keys, NEW v \in Vals, Put(e, k, v)
  PROVE  Abs!Put(e, k, v) \/ UNCHANGED Abs!vars
<1>1. appView' = appView
  BY DEF Put, appView
<1> QED BY <1>1, SameOps DEF Put, appView, Abs!Put, Abs!vars

\* Beginning a transaction opens a view of the committed table, or blocks.
LEMMA TxnBeginRefines ==
  ASSUME IInv, NEW e \in Envs, TxnBegin(e)
  PROVE  Abs!Begin(e) \/ UNCHANGED Abs!vars
<1>1. CASE writer[e] = "app"
  <2>1. UNCHANGED <<store, batchOps, writer, dirty>>
    BY <1>1 DEF TxnBegin
  <2> QED BY <2>1 DEF appView, Abs!vars
<1>2. CASE writer[e] = "free"
  <2>1. /\ writer' = [writer EXCEPT ![e] = "app"]
        /\ dirty' = [dirty EXCEPT ![e] = store[e]]
        /\ UNCHANGED <<store, batchOps>>
    BY <1>2 DEF TxnBegin
  <2>2. writer \in [Envs -> {"free", "app", "batch"}] /\ dirty \in [Envs -> Tables]
    BY DEF IInv, TypeOK
  <2>3. appView[e] = {} /\ appView' = [appView EXCEPT ![e] = {store[e]}]
    BY <1>2, <2>1, <2>2 DEF appView
  <2> QED BY <2>1, <2>3 DEF Abs!Begin
<1> QED BY <1>1, <1>2 DEF TxnBegin

\* A put in the application's transaction changes its view only.
LEMMA TxnPutRefines ==
  ASSUME IInv, NEW e \in Envs, NEW k \in Keys, NEW v \in Vals, TxnPut(e, k, v)
  PROVE  Abs!TxnPut(e, k, v)
<1>1. appView[e] = {dirty[e]}
  BY DEF TxnPut, appView
<1>2. appView' = [appView EXCEPT ![e] = {ApplyOp(dirty[e], PutOp(k, v))}]
  BY DEF TxnPut, appView, IInv, TypeOK
<1> QED BY <1>1, <1>2, SameOps DEF TxnPut, Abs!TxnPut

\* A commit that fails has the effect of an abort.
LEMMA TxnEndRefines ==
  ASSUME IInv, NEW e \in Envs, TxnCommit(e) \/ TxnAbort(e)
  PROVE  Abs!Commit(e) \/ Abs!Abort(e)
<1>1. appView[e] = {dirty[e]}
  BY DEF TxnCommit, TxnAbort, appView
<1>2. appView' = [appView EXCEPT ![e] = {}]
  BY DEF TxnCommit, TxnAbort, appView, IInv, TypeOK
<1> QED BY <1>1, <1>2 DEF TxnCommit, TxnAbort, Abs!Commit, Abs!Abort

\* The steps that change neither a table, nor a queue, nor a view.
LEMMA Stutters ==
  ASSUME IInv,
         \/ \E e \in Envs : Flush(e) \/ Close(e) \/ CloseDone(e)
         \/ \E e \in Envs, num \in BatchSizes : SetBatchSize(e, num)
         \/ TimerFire /\ ~Die
         \/ ExecPut \/ ExecDel
         \/ FlushFails /\ ~Die
         \/ Restart
  PROVE  UNCHANGED Abs!vars
<1>1. ASSUME NEW e \in Envs, Flush(e) \/ Close(e) \/ CloseDone(e)
      PROVE  UNCHANGED Abs!vars
  BY <1>1, EnterFlushView DEF Flush, Close, CloseDone, appView, Abs!vars
<1>2. ASSUME NEW e \in Envs, NEW num \in BatchSizes, SetBatchSize(e, num)
      PROVE  UNCHANGED Abs!vars
  BY <1>2, EnterFlushView DEF SetBatchSize, txnVars, appView, Abs!vars
<1>3. CASE TimerFire /\ ~Die
  <2>1. timer \in Envs
    BY <1>3 DEF TimerFire, IInv, TypeOK
  <2> QED BY <1>3, <2>1, EnterFlushView DEF TimerFire, Abs!vars
<1>4. CASE ExecPut
  <2>1. frame.env \in Envs /\ writer[frame.env] = "batch"
    BY <1>4, FrameEnv DEF ExecPut
  <2>2. /\ dirty' = [dirty EXCEPT ![frame.env] = ApplyOp(@, NextOp)]
        /\ UNCHANGED <<store, batchOps, writer>>
    BY <1>4 DEF ExecPut
  <2>3. dirty \in [Envs -> Tables]
    BY DEF IInv, TypeOK
  <2>4. appView' = appView
    BY <2>1, <2>2, <2>3 DEF appView
  <2> QED BY <2>2, <2>4 DEF Abs!vars
<1>5. CASE ExecDel \/ Restart
  BY <1>5 DEF ExecDel, Restart, appView, Abs!vars
<1>6. CASE FlushFails /\ ~Die
  <2>1. frame.env \in Envs /\ writer[frame.env] = "batch"
    BY <1>6, FrameEnv DEF FlushFails
  <2>2. /\ writer' = [writer EXCEPT ![frame.env] = "free"]
        /\ UNCHANGED <<store, batchOps, dirty>>
    BY <1>6 DEF FlushFails
  <2>3. writer \in [Envs -> {"free", "app", "batch"}]
    BY DEF IInv, TypeOK
  <2>4. appView' = appView
    BY <2>1, <2>2, <2>3 DEF appView
  <2> QED BY <2>2, <2>4 DEF Abs!vars
<1> QED BY <1>1, <1>2, <1>3, <1>4, <1>5, <1>6

\* The commit makes the whole queue visible: by the invariant the transaction
\* has executed every record of it and nothing else.
LEMMA CommitBatchRefines ==
  ASSUME IInv, CommitBatch
  PROVE  frame.env \in Envs /\ Abs!Flush(frame.env)
<1> DEFINE e == frame.env
<1>1. /\ e \in Envs /\ writer[e] = "batch" /\ Len(batchOps[e]) \in Nat
      /\ frame.next \in Nat \ {0}
  BY FrameEnv DEF CommitBatch, IInv, TypeOK
<1>2. /\ batchOps[e] # <<>> /\ frame.next - 1 <= Len(batchOps[e])
      /\ dirty[e] = Applied(store[e], batchOps[e], frame.next - 1)
  BY DEF CommitBatch, InFlush, IInv, DirtyIsPrefix
<1>3. frame.next - 1 = Len(batchOps[e])
  BY <1>1, <1>2 DEF CommitBatch
<1>4. appView[e] = {} /\ appView' = appView
  BY <1>1 DEF CommitBatch, appView, IInv, TypeOK
<1> QED BY <1>1, <1>2, <1>3, <1>4, SameOps DEF CommitBatch, Abs!Flush

\* Every step is a step of the abstract specification or a stutter.
LEMMA NextRefines == IInv /\ [Next]_vars => [Abs!Next]_(Abs!vars)
<1> SUFFICES ASSUME IInv, [Next]_vars PROVE [Abs!Next]_(Abs!vars)
  OBVIOUS
<1>1. CASE AppStep
  <2>1. ASSUME NEW e \in Envs, NEW op \in Op, Push(e, op)
        PROVE  Abs!Next
    BY <2>1, PushRefines, SameOps DEF Abs!Next
  <2>2. ASSUME NEW e \in Envs, NEW k \in Keys, NEW v \in Vals,
               Put(e, k, v) \/ TxnPut(e, k, v)
        PROVE  Abs!Next \/ UNCHANGED Abs!vars
    BY <2>2, PutRefines, TxnPutRefines DEF Abs!Next
  <2>3. ASSUME NEW e \in Envs, TxnBegin(e) \/ TxnCommit(e) \/ TxnAbort(e)
        PROVE  Abs!Next \/ UNCHANGED Abs!vars
    BY <2>3, TxnBeginRefines, TxnEndRefines DEF Abs!Next
  <2>4. ASSUME NEW e \in Envs, Flush(e) \/ Close(e)
        PROVE  UNCHANGED Abs!vars
    BY <2>4, Stutters
  <2>5. ASSUME NEW e \in Envs, NEW num \in BatchSizes, SetBatchSize(e, num)
        PROVE  UNCHANGED Abs!vars
    BY <2>5, Stutters
  <2> QED
    BY <1>1, <2>1, <2>2, <2>3, <2>4, <2>5, OpTypes, UseAssumption DEF AppStep
<1>2. CASE Die
  BY <1>2, DieRefines DEF Abs!Next
<1>3. CASE LoopStep /\ ~Die
  BY <1>3, Stutters, CommitBatchRefines DEF LoopStep, Abs!Next
<1>4. CASE Restart
  BY <1>4, Stutters
<1>5. CASE UNCHANGED vars
  BY <1>5 DEF vars, appView, Abs!vars
<1> QED BY <1>1, <1>2, <1>3, <1>4, <1>5 DEF Next, Crash

\* Batches are atomic: executed record by record, interrupted by failures,
\* blocked calls, timers and crashes, the library implements BatchSpec.
THEOREM Refinement == Spec => AtomicBatches
BY InitRefines, NextRefines, Invariance, PTL DEF Spec, AtomicBatches, Abs!Spec
=============================================================================
