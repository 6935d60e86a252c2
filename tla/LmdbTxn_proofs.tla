--------------------------- MODULE LmdbTxn_proofs ---------------------------
(***************************************************************************)
(* Proofs about LmdbTxn, for any number of transactions and commits.       *)
(***************************************************************************)
EXTENDS LmdbTxn, TLAPS

-----------------------------------------------------------------------------
(* Facts about the records of BatchOps.                                    *)

\* The records the two batch calls push.
LEMMA OpTypes ==
  ASSUME NEW k \in Keys
  PROVE  /\ \A v \in Vals : PutOp(k, v) \in Op
         /\ DelOp(k) \in Op
BY DEF PutOp, DelOp, Op

\* One record turns a table into a table.
LEMMA ApplyOpType ==
  ASSUME NEW table \in Tables, NEW op \in Op
  PROVE  ApplyOp(table, op) \in Tables
BY DEF ApplyOp, Tables, Op

-----------------------------------------------------------------------------

USE TxnAssumption

\* The shape of the state the proofs of single actions use.
LEMMA StateFacts ==
  ASSUME TypeOK
  PROVE  /\ newest \in Nat \ {0}
         /\ current \in Tables
         /\ \A n \in 1..newest : versions[n] \in Tables
BY DEF TypeOK, newest, current

\* A commit grows the history by one table.
LEMMA AppendVersion ==
  ASSUME TypeOK, NEW table \in Tables
  PROVE  /\ Append(versions, table) \in Seq(Tables)
         /\ Append(versions, table) # <<>>
         /\ Len(Append(versions, table)) = newest + 1
         /\ Append(versions, table)[newest + 1] = table
BY StateFacts DEF TypeOK, newest

\* Taking pages never passes the last commit, nor the snapshot in the slot.
LEMMA ReuseBounded ==
  ASSUME IInv, ReusePages
  PROVE  /\ horizon' \in Nat
         /\ horizon' <= newest
         /\ \A t \in Txns : txn[t].mode = "ro" /\ txn[t].st = "live"
                              => horizon' <= txn[t].snap + 1
<1>1. newest \in Nat /\ horizon \in Nat /\ slot.snap \in Nat
  BY StateFacts DEF IInv, TypeOK
<1>2. horizon' = horizon \/ horizon' = oldest
  BY DEF ReusePages
<1>3. oldest \in Nat /\ oldest <= newest
  BY <1>1 DEF oldest
<1>4. ASSUME NEW t \in Txns, txn[t].mode = "ro", txn[t].st = "live"
      PROVE  horizon' <= txn[t].snap + 1
  <2>1. slot.owner = t /\ slot.snap = txn[t].snap /\ txn[t].snap <= newest
        /\ horizon <= txn[t].snap + 1 /\ txn[t].snap \in Nat
    BY <1>1, <1>4 DEF IInv, SlotOwned, SnapshotIntact, TypeOK
  <2>2. oldest <= slot.snap
    BY <1>1, <2>1 DEF oldest, slotFree
  <2> QED BY <1>1, <1>2, <1>3, <2>1, <2>2
<1> QED BY <1>1, <1>2, <1>3, <1>4 DEF IInv, SnapshotIntact

\* A new environment has one committed table, no reader and no writer.
LEMMA InitInv == Init => IInv
<1> SUFFICES ASSUME Init PROVE IInv
  OBVIOUS
<1>1. Empty \in Tables
  BY DEF Empty, Tables
<1>2. versions \in Seq(Tables) /\ versions # <<>> /\ Len(versions) = 1
  BY <1>1 DEF Init
<1> QED
  BY <1>1, <1>2 DEF Init, IInv, TypeOK, MutexOwned, SlotOwned, SnapshotIntact,
                    NoLostUpdate, NoObject, TxnStates, Maybe, newest

\* beginTxn, and renew of a closed write transaction.
LEMMA StartWriteInv ==
  ASSUME IInv, NEW t \in Txns, writer = NoTxn, StartWrite(t),
         ~(txn[t].mode = "ro" /\ txn[t].st = "live")
  PROVE  IInv'
<1> DEFINE rec == [mode |-> "rw", st |-> "live", snap |-> newest, err |-> FALSE]
<1>1. /\ newest \in Nat /\ newest' = newest /\ current \in Tables
      /\ txn' = [txn EXCEPT ![t] = rec] /\ writer' = t /\ slot' = slot
      /\ horizon' = horizon
  BY StateFacts DEF StartWrite, newest, IInv
<1>2. /\ txn'[t] = rec
      /\ \A u \in Txns \ {t} : txn'[u] = txn[u]
  BY <1>1 DEF IInv, TypeOK
<1>3. TypeOK'
  <2>1. txn' \in [Txns -> [mode : {"ro", "rw"}, st : TxnStates, snap : Nat, err : BOOLEAN]]
    BY <1>1 DEF IInv, TypeOK, TxnStates
  <2> QED BY <1>1, <1>2, <2>1 DEF StartWrite, IInv, TypeOK
<1>4. MutexOwned'
  BY <1>1, <1>2 DEF IInv, MutexOwned
<1>5. SlotOwned'
  BY <1>1, <1>2 DEF IInv, SlotOwned
<1>6. SnapshotIntact'
  BY <1>1, <1>2 DEF IInv, SnapshotIntact
<1>7. NoLostUpdate'
  BY <1>1, <1>2 DEF NoLostUpdate
<1> QED BY <1>3, <1>4, <1>5, <1>6, <1>7 DEF IInv

\* beginTxn(true), and renew of a reset read-only transaction.
LEMMA StartReadInv ==
  ASSUME IInv, NEW t \in Txns, slotFree, StartRead(t), writer # t
  PROVE  IInv'
<1> DEFINE rec == [mode |-> "ro", st |-> "live", snap |-> newest, err |-> FALSE]
<1>1. /\ newest \in Nat /\ newest' = newest
      /\ txn' = [txn EXCEPT ![t] = rec] /\ writer' = writer
      /\ slot' = [owner |-> t, snap |-> newest] /\ horizon' = horizon
      /\ horizon \in Nat /\ horizon <= newest
  BY StateFacts DEF StartRead, newest, IInv, SnapshotIntact, TypeOK
<1>2. /\ txn'[t] = rec
      /\ \A u \in Txns \ {t} : txn'[u] = txn[u]
  BY <1>1 DEF IInv, TypeOK
<1>3. TypeOK'
  <2>1. txn' \in [Txns -> [mode : {"ro", "rw"}, st : TxnStates, snap : Nat, err : BOOLEAN]]
    BY <1>1 DEF IInv, TypeOK, TxnStates
  <2> QED BY <1>1, <1>2, <2>1 DEF StartRead, IInv, TypeOK
<1>4. MutexOwned'
  BY <1>1, <1>2 DEF IInv, MutexOwned
<1>5. SlotOwned'
  BY <1>1, <1>2 DEF IInv, SlotOwned, slotFree
<1>6. SnapshotIntact'
  BY <1>1, <1>2 DEF IInv, SnapshotIntact
<1>7. NoLostUpdate'
  BY <1>1, <1>2 DEF IInv, NoLostUpdate
<1> QED BY <1>3, <1>4, <1>5, <1>6, <1>7 DEF IInv

\* The end of transaction t (reset, abort, commit, destructor): its object
\* becomes rec, the slot and the mutex are released if they were its own.
LEMMA EndInv ==
  ASSUME IInv, NEW t \in Txns,
         NEW rec \in [mode : {"ro", "rw"}, st : TxnStates, snap : Nat, err : BOOLEAN],
         rec.st # "live", rec.st \in {"reset", "loose"} => rec.mode = "ro",
         txn' = [txn EXCEPT ![t] = rec],
         slot' = Released(t),
         writer' = IF writer = t THEN NoTxn ELSE writer,
         view' = view, lock' = lock, proc' = proc, last' = last,
         \/ versions' = versions
         \/ versions' = Append(versions, view) /\ writer = t,
         horizon' = horizon \/ ReusePages
  PROVE  IInv'
<1>1. /\ newest \in Nat /\ newest' \in Nat /\ newest <= newest'
      /\ versions' \in Seq(Tables) /\ versions' # <<>>
      /\ writer # t => newest' = newest
  <2>1. CASE versions' = versions
    BY <2>1, StateFacts DEF IInv, TypeOK, newest
  <2>2. CASE versions' = Append(versions, view) /\ writer = t
    <3>1. view \in Tables
      BY DEF IInv, TypeOK
    <3> QED BY <2>2, <3>1, StateFacts, AppendVersion DEF IInv, newest
  <2> QED BY <2>1, <2>2
<1>2. /\ txn'[t] = rec
      /\ \A u \in Txns \ {t} : txn'[u] = txn[u]
      /\ txn' \in [Txns -> [mode : {"ro", "rw"}, st : TxnStates, snap : Nat, err : BOOLEAN]]
  BY DEF IInv, TypeOK
<1>3. /\ slot'.owner = (IF slot.owner = t THEN NoTxn ELSE slot.owner)
      /\ slot'.snap = slot.snap
      /\ slot' \in [owner : Txns \cup {NoTxn}, snap : Nat]
  BY DEF IInv, TypeOK, Released
<1>4. /\ horizon' \in Nat /\ horizon' <= newest
      /\ \A u \in Txns : txn[u].mode = "ro" /\ txn[u].st = "live"
                           => horizon' <= txn[u].snap + 1 /\ txn[u].snap <= newest
  BY ReuseBounded, <1>1 DEF IInv, TypeOK, SnapshotIntact
<1>5. TypeOK'
  BY <1>1, <1>2, <1>3, <1>4 DEF IInv, TypeOK, newest
<1>6. MutexOwned'
  BY <1>2 DEF IInv, MutexOwned
<1>7. SlotOwned'
  BY <1>2, <1>3 DEF IInv, SlotOwned
<1>8. SnapshotIntact'
  BY <1>1, <1>2, <1>4 DEF IInv, TypeOK, SnapshotIntact
<1>9. NoLostUpdate'
  BY <1>1, <1>2 DEF IInv, NoLostUpdate
<1> QED BY <1>5, <1>6, <1>7, <1>8, <1>9 DEF IInv

\* reset and abort.
LEMMA FinishInv ==
  ASSUME IInv, NEW t \in Txns, NEW st \in {"reset", "closed"}, Finish(t, st),
         st = "reset" => txn[t].mode = "ro",
         \/ versions' = versions
         \/ versions' = Append(versions, view) /\ writer = t,
         horizon' = horizon \/ ReusePages
  PROVE  IInv'
<1> DEFINE rec == [txn[t] EXCEPT !.st = st]
<1>1. /\ rec \in [mode : {"ro", "rw"}, st : TxnStates, snap : Nat, err : BOOLEAN]
      /\ rec.st = st /\ rec.mode = txn[t].mode
  BY DEF IInv, TypeOK, TxnStates
<1>2. txn' = [txn EXCEPT ![t] = rec]
  BY DEF Finish
<1> HIDE DEF rec
<1> QED BY <1>1, <1>2, EndInv DEF Finish

\* commit, whether it succeeds or throws.
LEMMA CommitInv ==
  ASSUME IInv, NEW t \in Txns, Commit(t)
  PROVE  IInv'
<1>1. txn[t].mode = "rw" => writer = t
  BY DEF Commit, IInv, TypeOK, MutexOwned
<1> QED BY <1>1, FinishInv DEF Commit

\* The destructor of an unreachable Txn object.
LEMMA CollectInv ==
  ASSUME IInv, NEW t \in Txns, Collect(t)
  PROVE  IInv'
<1>1. /\ NoObject \in [mode : {"ro", "rw"}, st : TxnStates, snap : Nat, err : BOOLEAN]
      /\ NoObject.st = "none"
  BY DEF NoObject, TxnStates
<1> QED BY <1>1, EndInv DEF Collect

\* A blocked call.
LEMMA HangInv == IInv /\ Hang => IInv'
BY DEF Hang, IInv, TypeOK, MutexOwned, SlotOwned, SnapshotIntact, NoLostUpdate, newest

\* beginTxn, for reading, for writing, and blocked.
LEMMA BeginInv ==
  ASSUME IInv, NEW t \in Txns, NEW mode \in Modes, Begin(t, mode)
  PROVE  IInv'
<1>1. txn[t].st = "none" /\ writer # t
  BY DEF Begin, IInv, MutexOwned
<1> QED BY <1>1, StartWriteInv, StartReadInv, HangInv DEF Begin

\* renew, including the one that fails because the reader slot is taken.
LEMMA RenewInv ==
  ASSUME IInv, NEW t \in Txns, Renew(t)
  PROVE  IInv'
<1>1. txn[t].st \in {"reset", "closed"} /\ writer # t
  BY DEF Renew, IInv, MutexOwned
<1>2. CASE /\ txn[t].mode = "ro" /\ txn[t].st = "reset"
           /\ txn' = [txn EXCEPT ![t].st = "loose"]
           /\ UNCHANGED <<versions, horizon, writer, view, slot, lock, proc, last>>
  <2> DEFINE rec == [txn[t] EXCEPT !.st = "loose"]
  <2>1. /\ rec \in [mode : {"ro", "rw"}, st : TxnStates, snap : Nat, err : BOOLEAN]
        /\ rec.st = "loose" /\ rec.mode = "ro"
    BY <1>2 DEF IInv, TypeOK, TxnStates
  <2>2. txn' = [txn EXCEPT ![t] = rec]
    BY <1>2
  <2>3. slot' = Released(t) /\ writer' = (IF writer = t THEN NoTxn ELSE writer)
    BY <1>1, <1>2 DEF Released, IInv, SlotOwned
  <2> HIDE DEF rec
  <2> QED BY <1>2, <2>1, <2>2, <2>3, EndInv
<1>3. CASE txn[t].mode = "ro" /\ txn[t].st = "reset" /\ slotFree /\ StartRead(t)
  BY <1>1, <1>3, StartReadInv
<1>4. CASE txn[t].mode = "rw" /\ writer = NoTxn /\ StartWrite(t)
  BY <1>1, <1>4, StartWriteInv
<1>5. CASE Hang
  BY <1>5, HangInv
<1> QED BY <1>2, <1>3, <1>4, <1>5 DEF Renew

\* The operations an application can issue are batch records.
LEMMA OpsType == Ops \subseteq Op
BY OpTypes DEF Ops

\* put and del in a write transaction.
LEMMA WriteInv ==
  ASSUME IInv, NEW t \in Txns, NEW op \in Ops, Write(t, op)
  PROVE  IInv'
<1>1. /\ horizon' \in Nat /\ horizon' <= newest
      /\ \A u \in Txns : txn[u].mode = "ro" /\ txn[u].st = "live"
                           => horizon' <= txn[u].snap + 1 /\ txn[u].snap <= newest
      /\ newest' = newest /\ newest \in Nat
  BY ReuseBounded, StateFacts DEF Write, IInv, SnapshotIntact, newest
<1>2. view' \in Tables
  BY OpsType, ApplyOpType DEF Write, IInv, TypeOK
<1>3. /\ txn' \in [Txns -> [mode : {"ro", "rw"}, st : TxnStates, snap : Nat, err : BOOLEAN]]
      /\ \A u \in Txns : /\ txn'[u].mode = txn[u].mode
                         /\ txn'[u].st = txn[u].st
                         /\ txn'[u].snap = txn[u].snap
  <2>1. CASE txn' = txn
    BY <2>1 DEF IInv, TypeOK
  <2>2. CASE txn' = [txn EXCEPT ![t].err = TRUE]
    <3>1. txn \in [Txns -> [mode : {"ro", "rw"}, st : TxnStates, snap : Nat, err : BOOLEAN]]
      BY DEF IInv, TypeOK
    <3>2. [txn[t] EXCEPT !.err = TRUE]
            \in [mode : {"ro", "rw"}, st : TxnStates, snap : Nat, err : BOOLEAN]
      BY <3>1
    <3>3. txn' = [txn EXCEPT ![t] = [txn[t] EXCEPT !.err = TRUE]]
      BY <2>2
    <3> QED BY <3>1, <3>2, <3>3
  <2> QED BY <2>1, <2>2 DEF Write
<1>4. TypeOK'
  BY <1>1, <1>2, <1>3 DEF Write, IInv, TypeOK
<1>5. MutexOwned' /\ SlotOwned' /\ NoLostUpdate'
  BY <1>1, <1>3 DEF Write, IInv, MutexOwned, SlotOwned, NoLostUpdate
<1>6. SnapshotIntact'
  BY <1>1, <1>3 DEF IInv, TypeOK, SnapshotIntact
<1> QED BY <1>4, <1>5, <1>6 DEF IInv

\* What a get without a transaction can return.
LEMMA ReadAtType ==
  ASSUME TypeOK, NEW n \in 1..newest, NEW k \in Keys
  PROVE  ReadAt(n, k) \subseteq Maybe
BY StateFacts DEF ReadAt, Maybe, Tables

\* get without a transaction.
LEMMA GetInv ==
  ASSUME IInv, NEW k \in Keys, Get(k)
  PROVE  IInv'
<1>1. /\ newest \in 1..newest /\ newest' = newest
      /\ current[k] \in Maybe
  BY StateFacts DEF Get, ReadLock, IInv, newest, Tables, Maybe
<1>2. /\ lock' \in [made : BOOLEAN, snap : Nat]
      /\ lock'.snap \in 1..newest
  BY <1>1 DEF Get, ReadLock, IInv, TypeOK, newest
<1>3. PICK v \in ReadAt(lock'.snap, k) :
        last' = [op |-> "get", val |-> v, stored |-> current[k], busy |-> ~slotFree]
  BY DEF Get, ReadLock
<1>4. v \in Maybe
  BY <1>2, <1>3, ReadAtType DEF IInv
<1>5. (~slotFree) \in BOOLEAN
  BY DEF slotFree
<1>6. last' \in [op : {"none", "get", "put"}, val : Maybe, stored : Maybe, busy : BOOLEAN]
  BY <1>1, <1>3, <1>4, <1>5
<1>7. TypeOK'
  BY <1>1, <1>2, <1>6 DEF Get, ReadLock, IInv, TypeOK, newest
<1> QED
  BY <1>1, <1>7 DEF Get, ReadLock, IInv, MutexOwned, SlotOwned, SnapshotIntact, NoLostUpdate

\* put and del without a transaction.
LEMMA AutoWriteInv ==
  ASSUME IInv, NEW op \in Ops, AutoWrite(op)
  PROVE  IInv'
<1>1. CASE Hang
  BY <1>1, HangInv
<1>2. CASE ~Hang
  <2>0. /\ writer = NoTxn /\ ReusePages /\ op \in Op
        /\ UNCHANGED <<writer, view, slot, lock, txn, proc>>
        /\ \/ versions' = Append(versions, ApplyOp(current, op))
           \/ versions' = versions
        /\ last' = [op |-> "put", val |-> op.val,
                    stored |-> versions'[Len(versions')][op.key], busy |-> FALSE]
    BY <1>2, OpsType DEF AutoWrite
  <2>1. /\ horizon' \in Nat /\ horizon' <= newest
        /\ \A u \in Txns : txn[u].mode = "ro" /\ txn[u].st = "live"
                             => horizon' <= txn[u].snap + 1 /\ txn[u].snap <= newest
    BY <2>0, ReuseBounded DEF IInv, SnapshotIntact
  <2>2. /\ newest \in Nat /\ newest' \in Nat \ {0} /\ newest <= newest'
        /\ versions' \in Seq(Tables) /\ versions' # <<>>
    <3>1. ApplyOp(current, op) \in Tables
      BY <2>0, StateFacts, ApplyOpType DEF IInv
    <3>2. CASE versions' = versions
      BY <3>2, StateFacts DEF IInv, TypeOK, newest
    <3>3. CASE versions' = Append(versions, ApplyOp(current, op))
      BY <3>1, <3>3, StateFacts, AppendVersion DEF IInv, newest
    <3> QED BY <2>0, <3>2, <3>3
  <2>3. last' \in [op : {"none", "get", "put"}, val : Maybe, stored : Maybe, busy : BOOLEAN]
    <3>1. versions'[Len(versions')] \in Tables
      BY <2>2 DEF newest
    <3>2. op.val \in Maybe /\ op.key \in Keys
      BY <2>0 DEF Op, Maybe
    <3> QED BY <2>0, <3>1, <3>2 DEF Tables, Maybe
  <2>4. TypeOK'
    BY <2>0, <2>1, <2>2, <2>3 DEF IInv, TypeOK, newest
  <2>5. MutexOwned' /\ SlotOwned'
    BY <2>0 DEF IInv, MutexOwned, SlotOwned
  <2>6. SnapshotIntact'
    BY <2>0, <2>1, <2>2 DEF IInv, TypeOK, SnapshotIntact
  <2>7. NoLostUpdate'
    BY <2>0 DEF NoLostUpdate
  <2> QED BY <2>4, <2>5, <2>6, <2>7 DEF IInv
<1> QED BY <1>1, <1>2

\* Every step preserves the inductive invariant.
LEMMA NextInv == IInv /\ [Next]_vars => IInv'
<1> SUFFICES ASSUME IInv, [Next]_vars PROVE IInv'
  OBVIOUS
<1>1. ASSUME NEW t \in Txns, Reset(t) \/ Abort(t)
      PROVE  IInv'
  BY <1>1, FinishInv DEF Reset, Abort
<1>2. ASSUME NEW t \in Txns, Renew(t) \/ Commit(t) \/ Collect(t)
      PROVE  IInv'
  BY <1>2, RenewInv, CommitInv, CollectInv
<1>3. CASE UNCHANGED vars
  BY <1>3 DEF vars, IInv, TypeOK, MutexOwned, SlotOwned, SnapshotIntact, NoLostUpdate, newest
<1> QED
  BY <1>1, <1>2, <1>3, BeginInv, WriteInv, GetInv, AutoWriteInv DEF Next

\* The write mutex, the reader slot and the page horizon of LMDB stay consistent
\* with the Txn objects of the binding in every reachable state.
THEOREM Invariance == Spec => []IInv
BY InitInv, NextInv, PTL DEF Spec

\* Every reachable state is well typed; in particular only read-only Txn objects
\* are ever reset, and the read lock's snapshot is one that was committed.
THEOREM TypeCorrect == Spec => []TypeOK
<1>1. IInv => TypeOK
  BY DEF IInv
<1> QED BY Invariance, <1>1, PTL

\* No sequence of commit, abort, renew, put, get and collection leaves the write
\* mutex locked without a running write transaction, or the reverse.
THEOREM MutexNeverLeaks == Spec => []MutexOwned
<1>1. IInv => MutexOwned
  BY DEF IInv
<1> QED BY Invariance, <1>1, PTL

\* The thread's reader slot always belongs to the running read-only transaction.
THEOREM SlotNeverStolen == Spec => []SlotOwned
<1>1. IInv => SlotOwned
  BY DEF IInv
<1> QED BY Invariance, <1>1, PTL

\* A running read-only transaction's snapshot is never overwritten, whatever
\* writers and other readers do.
THEOREM SnapshotsAreStable == Spec => []SnapshotIntact
<1>1. IInv => SnapshotIntact
  BY DEF IInv
<1> QED BY Invariance, <1>1, PTL

\* No commit happens underneath an open write transaction.
THEOREM UpdatesAreNotLost == Spec => []NoLostUpdate
<1>1. IInv => NoLostUpdate
  BY DEF IInv
<1> QED BY Invariance, <1>1, PTL

\* A get without a transaction returns the last committed value when the
\* reader slot is free.
THEOREM GetReadsCommitted == Spec => []ReadCommitted
<1>1. Init => ReadCommitted
  BY DEF Init, ReadCommitted
<1>2. IInv /\ ReadCommitted /\ [Next]_vars => ReadCommitted'
  <2> SUFFICES ASSUME IInv, ReadCommitted, [Next]_vars PROVE ReadCommitted'
    OBVIOUS
  <2>1. ASSUME NEW k \in Keys, Get(k), slotFree
        PROVE  ReadCommitted'
    <3>1. newest + 1 >= horizon
      BY StateFacts DEF IInv, TypeOK, SnapshotIntact
    <3>2. lock'.snap = newest
      BY <2>1 DEF Get, ReadLock
    <3> QED BY <2>1, <3>1, <3>2 DEF Get, ReadLock, ReadAt, ReadCommitted, current
  <2>2. ASSUME NEW k \in Keys, Get(k), ~slotFree
        PROVE  ReadCommitted'
    <3>1. (~slotFree) = TRUE
      BY <2>2
    <3>2. last'.busy = ~slotFree
      BY <2>2 DEF Get, ReadLock
    <3> QED BY <3>1, <3>2 DEF ReadCommitted
  <2>3. ASSUME NEW op \in Ops, AutoWrite(op)
        PROVE  ReadCommitted'
    BY <2>3 DEF AutoWrite, Hang, ReadCommitted
  <2>4. CASE last' = last
    BY <2>4 DEF ReadCommitted
  <2>5. ASSUME NEW t \in Txns, Renew(t) \/ Reset(t) \/ Abort(t) \/ Commit(t) \/ Collect(t)
        PROVE  last' = last
    BY <2>5 DEF Renew, Reset, Abort, Commit, Collect, StartRead, StartWrite, Finish, Hang
  <2>6. ASSUME NEW t \in Txns, NEW mode \in Modes, Begin(t, mode)
        PROVE  last' = last
    BY <2>6 DEF Begin, StartRead, StartWrite, Hang
  <2>7. ASSUME NEW t \in Txns, NEW op \in Ops, Write(t, op)
        PROVE  last' = last
    BY <2>7 DEF Write
  <2>8. CASE UNCHANGED vars
    BY <2>4, <2>8 DEF vars
  <2> QED
    BY <2>1, <2>2, <2>3, <2>4, <2>5, <2>6, <2>7, <2>8 DEF Next
<1> QED BY <1>1, <1>2, Invariance, PTL DEF Spec
=============================================================================
