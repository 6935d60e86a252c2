------------------------- MODULE LevelBatch_proofs --------------------------
(***************************************************************************)
(* Proofs about LevelBatch, for any databases, keys, values and bounds.    *)
(***************************************************************************)
EXTENDS LevelBatch, TLAPS

-----------------------------------------------------------------------------
(* Facts about the records of BatchOps and about Applied.                  *)

\* The records the two batch calls push.
LEMMA OpTypes ==
  ASSUME NEW k \in Keys
  PROVE  /\ \A v \in Vals : PutOp(k, v) \in Op
         /\ DelOp(k) \in Op
BY DEF PutOp, DelOp, Op

\* One record turns a table into a table.
LEMMA ApplyOpType ==
  ASSUME NEW table \in Tables, NEW op \in Op
  PROVE  ApplyOp(table, op) \in Tables
BY DEF ApplyOp, Tables, Op

\* At most one record is the last one on a key.
LEMMA LastUnique ==
  ASSUME NEW ops, NEW n \in Nat, NEW k, NEW i, NEW j,
         IsLastOn(ops, n, k, i), IsLastOn(ops, n, k, j)
  PROVE  i = j
BY DEF IsLastOn

\* The value Applied gives to a key with a last record.
LEMMA AppliedLast ==
  ASSUME NEW table, NEW ops, NEW n \in Nat, NEW k \in Keys, NEW i,
         IsLastOn(ops, n, k, i)
  PROVE  Applied(table, ops, n)[k] = ops[i].val
<1>1. i \in 1..n
  BY DEF IsLastOn
<1> DEFINE c == CHOOSE j \in 1..n : IsLastOn(ops, n, k, j)
<1>2. IsLastOn(ops, n, k, c)
  BY <1>1
<1>3. c = i
  <2> HIDE DEF c
  <2> QED BY <1>2, LastUnique
<1>4. Applied(table, ops, n)[k] = ops[c].val
  BY <1>1 DEF Applied
<1> QED BY <1>3, <1>4

\* The value Applied gives to a key without one.
LEMMA AppliedNone ==
  ASSUME NEW table, NEW ops, NEW n \in Nat, NEW k \in Keys,
         \A i \in 1..n : ~IsLastOn(ops, n, k, i)
  PROVE  Applied(table, ops, n)[k] = table[k]
BY DEF Applied

\* A prefix of a batch turns a table into a table.
LEMMA AppliedType ==
  ASSUME NEW table \in Tables, NEW ops \in Seq(Op), NEW n \in Nat, n <= Len(ops)
  PROVE  Applied(table, ops, n) \in Tables
<1>1. ASSUME NEW k \in Keys
      PROVE  Applied(table, ops, n)[k] \in Vals \cup {NoVal}
  <2>1. CASE \E i \in 1..n : IsLastOn(ops, n, k, i)
    <3>1. PICK i \in 1..n : IsLastOn(ops, n, k, i)
      BY <2>1
    <3>2. ops[i] \in Op
      <4>1. i \in 1..Len(ops)
        OBVIOUS
      <4> QED BY <4>1
    <3>3. ops[i].val \in Vals \cup {NoVal}
      BY <3>2 DEF Op
    <3> QED BY <3>1, <3>3, AppliedLast
  <2>2. CASE \A i \in 1..n : ~IsLastOn(ops, n, k, i)
    BY <2>2, AppliedNone DEF Tables
  <2> QED BY <2>1, <2>2
<1> QED BY <1>1 DEF Applied, Tables

-----------------------------------------------------------------------------

USE DbAssumption

\* The invariant of one Batch object.
Exact(b) == b \in Batch /\ b.cnt = Len(b.ops)

\* A new batch, and a cleared one, is exact.
LEMMA NoBatchExact == Exact(NoBatch) /\ Len(NoBatch.ops) = 0
BY DEF Exact, NoBatch, Batch

\* Batch.put and Batch.del add one record and one to the count.
LEMMA AddedExact ==
  ASSUME NEW b, Exact(b), NEW op \in Op
  PROVE  Exact(Added(b, op)) /\ Len(Added(b, op).ops) = Len(b.ops) + 1
<1>1. b.ops \in Seq(Op) /\ b.cnt \in Nat /\ b.cnt = Len(b.ops)
  BY DEF Exact, Batch
<1>2. Append(b.ops, op) \in Seq(Op) /\ Len(Append(b.ops, op)) = Len(b.ops) + 1
  BY <1>1
<1> QED BY <1>1, <1>2 DEF Exact, Added, Batch

\* The native write of a batch turns a table into a table.
LEMMA WrittenType ==
  ASSUME NEW table \in Tables, NEW b, Exact(b)
  PROVE  Written(table, b) \in Tables
<1>1. b.ops \in Seq(Op) /\ Len(b.ops) \in Nat
  BY DEF Exact, Batch
<1> QED BY <1>1, AppliedType DEF Written

\* The records of the enumerated operations.
LEMMA OpsAreOps == Ops \subseteq Op
BY OpTypes DEF Ops

\* The invariant, by what it says of every Batch object.
LEMMA Batches == IInv <=> /\ TypeOK
                          /\ \A d \in Dbs : /\ Exact(batch[d])
                                            /\ Exact(own[d])
                                            /\ accepted[d] = committed[d] + Len(batch[d].ops)
BY DEF IInv, TypeOK, CountExact, Conservation, Exact

\* Databases start empty, with empty batches.
LEMMA InitInv == Init => IInv
<1> SUFFICES ASSUME Init PROVE IInv
  OBVIOUS
<1>1. TypeOK
  BY SizeAssumption, NoBatchExact DEF Init, TypeOK, Empty, Tables, NoFrame, Exact
<1>2. CountExact /\ Conservation
  BY NoBatchExact DEF Init, CountExact, Conservation, Exact
<1> QED BY <1>1, <1>2 DEF IInv

\* The death of the process empties the batches and forgives their records.
LEMMA DieInv == IInv /\ Die => IInv'
<1> SUFFICES ASSUME IInv, Die PROVE IInv'
  OBVIOUS
<1>1. TypeOK'
  BY NoBatchExact DEF IInv, Die, TypeOK, NoFrame, Exact
<1>2. CountExact' /\ Conservation'
  BY NoBatchExact DEF IInv, Die, TypeOK, CountExact, Conservation, Exact
<1> QED BY <1>1, <1>2 DEF IInv

\* batchPut and batchDel.
LEMMA BatchOpInv ==
  ASSUME IInv, NEW d \in Dbs, NEW op \in Op, BatchOp(d, op)
  PROVE  IInv'
<1>1. Exact(batch[d]) /\ batch'[d] = Added(batch[d], op)
  BY Batches DEF BatchOp, TypeOK
<1>2. Exact(batch'[d]) /\ Len(batch'[d].ops) = Len(batch[d].ops) + 1
  BY <1>1, AddedExact
<1>3. TypeOK'
  BY <1>2 DEF IInv, TypeOK, BatchOp, Exact
<1>4. CountExact'
  BY <1>2 DEF IInv, TypeOK, BatchOp, CountExact, Exact
<1>5. Len(batch[d].ops) \in Nat
  BY <1>1 DEF Exact, Batch
<1>6. Conservation'
  <2> SUFFICES ASSUME NEW c \in Dbs
               PROVE  accepted'[c] = committed'[c] + Len(batch'[c].ops)
    BY DEF Conservation
  <2>1. /\ committed[c] \in Nat /\ accepted[c] \in Nat
        /\ accepted[c] = committed[c] + Len(batch[c].ops)
        /\ committed' = committed
    BY DEF IInv, TypeOK, Conservation, BatchOp
  <2>2. CASE c = d
    <3>1. accepted'[d] = accepted[d] + 1
      BY DEF IInv, TypeOK, BatchOp
    <3> QED BY <1>2, <1>5, <2>1, <2>2, <3>1
  <2>3. CASE c # d
    <3>1. accepted'[c] = accepted[c] /\ batch'[c] = batch[c]
      BY <2>3 DEF IInv, TypeOK, BatchOp
    <3> QED BY <2>1, <3>1
  <2> QED BY <2>2, <2>3
<1> QED BY <1>3, <1>4, <1>6 DEF IInv

\* put and del of a batch the application created.
LEMMA OwnAddInv ==
  ASSUME IInv, NEW d \in Dbs, NEW op \in Op, OwnAdd(d, op)
  PROVE  IInv'
<1>1. Exact(own[d]) /\ own'[d] = Added(own[d], op)
  BY Batches DEF OwnAdd, TypeOK
<1>2. Exact(own'[d])
  BY <1>1, AddedExact
<1>3. TypeOK' /\ CountExact'
  BY <1>2 DEF IInv, TypeOK, OwnAdd, CountExact, Exact
<1>4. Conservation'
  BY DEF IInv, OwnAdd, Conservation
<1> QED BY <1>3, <1>4 DEF IInv

\* put and del without a batch.
LEMMA WriteInv ==
  ASSUME IInv, NEW d \in Dbs, NEW op \in Op, Write(d, op)
  PROVE  IInv'
<1>1. store[d] \in Tables
  BY DEF IInv, TypeOK
<1>2. TypeOK'
  BY <1>1, ApplyOpType DEF IInv, TypeOK, Write
<1>3. CountExact' /\ Conservation'
  BY DEF IInv, Write, CountExact, Conservation
<1> QED BY <1>2, <1>3 DEF IInv

\* clear and write of a batch the application created.
LEMMA OwnClearInv ==
  ASSUME IInv, NEW d \in Dbs, OwnClear(d) \/ OwnWrite(d)
  PROVE  IInv'
<1>1. own' = [own EXCEPT ![d] = NoBatch] /\ UNCHANGED <<batch, accepted, committed>>
  BY DEF OwnClear, OwnWrite, Cleared
<1>2. store' \in [Dbs -> Tables]
  <2>1. store[d] \in Tables /\ Exact(own[d])
    BY Batches DEF TypeOK
  <2>2. Written(store[d], own[d]) \in Tables
    BY <2>1, WrittenType
  <2> QED BY <2>2 DEF OwnClear, OwnWrite, IInv, TypeOK
<1>3. TypeOK'
  BY <1>1, <1>2, NoBatchExact DEF OwnClear, OwnWrite, IInv, TypeOK, Exact
<1>4. CountExact' /\ Conservation'
  BY <1>1, NoBatchExact DEF IInv, TypeOK, CountExact, Conservation, Exact
<1> QED BY <1>3, <1>4 DEF IInv

\* A successful write of db._batch moves its records from pending to written.
LEMMA WriteBatchInv ==
  ASSUME IInv, WriteBatch
  PROVE  IInv'
<1> DEFINE d == frame.db
<1>1. d \in Dbs
  BY DEF WriteBatch, InWrite, IInv, TypeOK
<1>2. /\ store' = [store EXCEPT ![d] = Written(@, batch[d])]
      /\ committed' = [committed EXCEPT ![d] = @ + Len(batch[d].ops)]
      /\ batch' = [batch EXCEPT ![d] = NoBatch]
      /\ frame' = NoFrame
      /\ UNCHANGED <<own, batchSize, timer, proc, last, accepted>>
  BY DEF WriteBatch, Cleared
<1> HIDE DEF d
<1>3. /\ store[d] \in Tables /\ Exact(batch[d])
      /\ accepted[d] = committed[d] + Len(batch[d].ops)
  BY <1>1, Batches DEF TypeOK
<1>4. Written(store[d], batch[d]) \in Tables /\ Len(batch[d].ops) \in Nat
  BY <1>3, WrittenType DEF Exact, Batch
<1>5. TypeOK'
  BY <1>1, <1>2, <1>4, NoBatchExact DEF IInv, TypeOK, NoFrame, Exact
<1>6. CountExact'
  BY <1>1, <1>2, NoBatchExact DEF IInv, TypeOK, CountExact, Exact
<1>7. Conservation'
  <2> SUFFICES ASSUME NEW c \in Dbs
               PROVE  accepted'[c] = committed'[c] + Len(batch'[c].ops)
    BY DEF Conservation
  <2>1. committed[c] \in Nat /\ accepted[c] \in Nat
    BY DEF IInv, TypeOK
  <2>2. CASE c = d
    BY <1>1, <1>2, <1>3, <1>4, <2>1, <2>2, NoBatchExact DEF IInv, TypeOK
  <2>3. CASE c # d
    BY <1>2, <2>3 DEF IInv, TypeOK, Conservation
  <2> QED BY <2>2, <2>3
<1> QED BY <1>5, <1>6, <1>7 DEF IInv

\* The steps that touch no batch, table or history.
LEMMA OtherInv ==
  ASSUME IInv,
         \/ \E d \in Dbs : Flush(d)
         \/ \E d \in Dbs, num \in BatchSizes : SetBatchSize(d, num)
         \/ \E d \in Dbs, k \in Keys : Get(d, k)
         \/ TimerFire \/ Restart \/ UNCHANGED vars
  PROVE  IInv'
<1>1. UNCHANGED <<store, batch, own, accepted, committed>>
  BY DEF Flush, SetBatchSize, Get, TimerFire, Restart, vars
<1>2. CountExact' /\ Conservation'
  BY <1>1 DEF IInv, CountExact, Conservation
<1>3. TypeOK'
  <2>1. CASE \E d \in Dbs : Flush(d)
    BY <2>1 DEF Flush, IInv, TypeOK
  <2>2. CASE \E d \in Dbs, num \in BatchSizes : SetBatchSize(d, num)
    BY <2>2, SizeAssumption DEF SetBatchSize, IInv, TypeOK
  <2>3. CASE \E d \in Dbs, k \in Keys : Get(d, k)
    BY <2>3 DEF Get, IInv, TypeOK, Tables
  <2>4. CASE TimerFire
    BY <2>4 DEF TimerFire, IInv, TypeOK
  <2>5. CASE Restart
    BY <2>5, SizeAssumption DEF Restart, IInv, TypeOK
  <2>6. CASE UNCHANGED vars
    BY <2>6 DEF vars, IInv, TypeOK
  <2> QED BY <2>1, <2>2, <2>3, <2>4, <2>5, <2>6
<1> QED BY <1>2, <1>3 DEF IInv

\* A failed write keeps the batch, or ends the process from the timer.
LEMMA WriteFailsInv == IInv /\ WriteFails => IInv'
<1> SUFFICES ASSUME IInv, WriteFails PROVE IInv'
  OBVIOUS
<1>1. CASE frame' = NoFrame /\ UNCHANGED <<store, batch, own, batchSize, timer, proc, last, accepted, committed>>
  BY <1>1 DEF IInv, TypeOK, NoFrame, CountExact, Conservation
<1>2. CASE Die
  BY <1>2, DieInv
<1> QED BY <1>1, <1>2 DEF WriteFails

\* Every step preserves the invariant.
LEMMA NextInv == IInv /\ [Next]_vars => IInv'
<1> SUFFICES ASSUME IInv, [Next]_vars PROVE IInv'
  OBVIOUS
<1>1. CASE \E d \in Dbs, op \in Ops : BatchOp(d, op) \/ Write(d, op) \/ OwnAdd(d, op)
  BY <1>1, OpsAreOps, BatchOpInv, WriteInv, OwnAddInv
<1>2. CASE \E d \in Dbs : OwnClear(d) \/ OwnWrite(d)
  BY <1>2, OwnClearInv
<1>3. CASE WriteBatch
  BY <1>3, WriteBatchInv
<1>4. CASE WriteFails
  BY <1>4, WriteFailsInv
<1>5. CASE Crash
  BY <1>5, DieInv DEF Crash
<1> QED BY <1>1, <1>2, <1>3, <1>4, <1>5, OtherInv DEF Next

\* The inductive invariant holds in every reachable state.
THEOREM Invariance == Spec => []IInv
BY InitInv, NextInv, PTL DEF Spec

\* Type correctness of the LevelDB and RocksDB batch state.
THEOREM TypeCorrect == Spec => []TypeOK
<1>1. IInv => TypeOK
  BY DEF IInv
<1> QED BY <1>1, Invariance, PTL

\* write() is right to trust the count kept in JavaScript.
THEOREM CountIsExact == Spec => []CountExact
<1>1. IInv => CountExact
  BY DEF IInv
<1> QED BY <1>1, Invariance, PTL

\* A batched operation is written once or is still in the batch, whatever
\* writes failed in between.
THEOREM NothingLost == Spec => []Conservation
<1>1. IInv => Conservation
  BY DEF IInv
<1> QED BY <1>1, Invariance, PTL
=============================================================================
