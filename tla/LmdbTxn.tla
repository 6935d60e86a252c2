------------------------------ MODULE LmdbTxn -------------------------------
(***************************************************************************)
(* Transactions of the LMDB binding (src/lmdb/txn-lmdb.cpp, the txn_scope  *)
(* of db-lmdb.cpp, the read lock of env-lmdb.cpp) over what LMDB does for  *)
(* them in one thread: a write mutex, ONE reader slot, and page reuse.     *)
(*                                                                         *)
(* The environment is opened without MDB_NOTLS, so all read transactions   *)
(* of the JavaScript thread compete for the thread's reader slot: the      *)
(* read-only Txn objects of the application, and the read lock that get    *)
(* and exists use when they are given no transaction.                      *)
(*                                                                         *)
(* Snapshot n is the n-th committed table.  A writer may reuse the pages   *)
(* of snapshots older than both the last commit and the slot's snapshot;   *)
(* horizon is the newest snapshot up to which that has happened.           *)
(***************************************************************************)
EXTENDS BatchOps

CONSTANTS
  Txns,       \* JavaScript Txn objects
  NoTxn,
  Modes,      \* the transactions the application begins: "ro", "rw"
  IOErrors,   \* whether mdb_put and mdb_txn_commit may fail (MDB_MAP_FULL, EIO)
  MaxCommits  \* bound: committed tables

ASSUME TxnAssumption == NoTxn \notin Txns
ASSUME ModesAssumption == Modes \subseteq {"ro", "rw"}
ASSUME CommitsAssumption == MaxCommits \in Nat

VARIABLES
  versions,  \* committed tables, oldest first
  horizon,   \* snapshots below horizon - 1 may have had pages reused
  writer,    \* the Txn object holding the write mutex, or NoTxn
  view,      \* the table the write transaction sees
  slot,      \* the thread's reader slot: owner and snapshot
  lock,      \* env::_read_lock: whether it exists, and its last snapshot
  txn,       \* the Txn objects
  proc,      \* "up", or "hung" waiting for the mutex the thread holds itself
  last       \* the last completed get or put without a transaction

vars == <<versions, horizon, writer, view, slot, lock, txn, proc, last>>

\* States of a Txn object: "none" before construction and after collection;
\* "live"; "reset" (read-only, mdb_txn_reset); "loose" (read-only, a failed
\* renew: LMDB treats it as running, but it has no reader slot); "closed":
\* _txn is NULL.
TxnStates == {"none", "live", "reset", "loose", "closed"}

NoObject == [mode |-> "ro", st |-> "none", snap |-> 0, err |-> FALSE]

Maybe == Vals \cup {NoVal}

TypeOK ==
  /\ versions \in Seq(Tables) /\ versions # <<>>
  /\ horizon \in Nat
  /\ writer \in Txns \cup {NoTxn}
  /\ view \in Tables
  /\ slot \in [owner : Txns \cup {NoTxn}, snap : Nat]
  /\ lock \in [made : BOOLEAN, snap : Nat]
  /\ lock.made => lock.snap \in 1..Len(versions)
  /\ txn \in [Txns -> [mode : {"ro", "rw"}, st : TxnStates, snap : Nat, err : BOOLEAN]]
  /\ \A t \in Txns : txn[t].st \in {"reset", "loose"} => txn[t].mode = "ro"
  /\ proc \in {"up", "hung"}
  /\ last \in [op : {"none", "get", "put"}, val : Maybe, stored : Maybe, busy : BOOLEAN]

Empty == [k \in Keys |-> NoVal]

Init ==
  /\ versions = <<Empty>>
  /\ horizon = 0
  /\ writer = NoTxn
  /\ view = Empty
  /\ slot = [owner |-> NoTxn, snap |-> 0]
  /\ lock = [made |-> FALSE, snap |-> 0]
  /\ txn = [t \in Txns |-> NoObject]
  /\ proc = "up"
  /\ last = [op |-> "none", val |-> NoVal, stored |-> NoVal, busy |-> FALSE]

-----------------------------------------------------------------------------
(* LMDB.                                                                   *)

newest == Len(versions)

current == versions[newest]

slotFree == slot.owner = NoTxn

\* Mutant: the reader slot is not consulted.
oldestUnread == newest

\* mdb_find_oldest: the writer spares the slot's snapshot and the last commit.
oldest == IF slotFree \/ newest < slot.snap THEN newest ELSE slot.snap

\* mdb_page_alloc of a put, del or commit takes pages freed before oldest (also
\* counted when the transaction is aborted later and never writes them).
ReusePages == horizon' = IF horizon < oldest THEN oldest ELSE horizon

\* What a read of key k in snapshot n can return.
ReadAt(n, k) == IF n + 1 >= horizon THEN {versions[n][k]} ELSE Maybe

\* Mutant: any transaction that stops clears the slot.
ReleasedAny(t) == [slot EXCEPT !.owner = NoTxn]

\* The slot after t stops running.
Released(t) == IF slot.owner = t THEN [slot EXCEPT !.owner = NoTxn] ELSE slot

\* A call blocks for ever on the write mutex.
Hang == proc' = "hung" /\ UNCHANGED <<versions, horizon, writer, view, slot, lock, txn, last>>

-----------------------------------------------------------------------------
(* Txn objects.  Calls that only throw (a second read-only transaction, a   *)
(* renew of a running one, a call on a closed one) change nothing and are  *)
(* left out.                                                               *)

StartWrite(t) ==
  /\ writer' = t
  /\ view' = current
  /\ txn' = [txn EXCEPT ![t] = [mode |-> "rw", st |-> "live", snap |-> newest, err |-> FALSE]]
  /\ UNCHANGED <<versions, horizon, slot, lock, proc, last>>

StartRead(t) ==
  /\ slot' = [owner |-> t, snap |-> newest]
  /\ txn' = [txn EXCEPT ![t] = [mode |-> "ro", st |-> "live", snap |-> newest, err |-> FALSE]]
  /\ UNCHANGED <<versions, horizon, writer, view, lock, proc, last>>

\* env.beginTxn(readonly).
Begin(t, mode) ==
  /\ proc = "up" /\ txn[t].st = "none"
  /\ \/ mode = "rw" /\ writer = NoTxn /\ StartWrite(t)
     \/ mode = "rw" /\ writer # NoTxn /\ Hang
     \/ mode = "ro" /\ slotFree /\ StartRead(t)

\* txn.renew(): a read-only one must be reset, a write one closed.  Renewing
\* while another read transaction holds the slot throws MDB_BAD_RSLOT, after
\* LMDB has already marked the transaction as running.
Renew(t) ==
  /\ proc = "up"
  /\ \/ txn[t].mode = "ro" /\ txn[t].st = "reset" /\ slotFree /\ StartRead(t)
     \/ /\ txn[t].mode = "ro" /\ txn[t].st = "reset" /\ ~slotFree
        /\ txn' = [txn EXCEPT ![t].st = "loose"]
        /\ UNCHANGED <<versions, horizon, writer, view, slot, lock, proc, last>>
     \/ txn[t].mode = "rw" /\ txn[t].st = "closed" /\ writer = NoTxn /\ StartWrite(t)
     \/ txn[t].mode = "rw" /\ txn[t].st = "closed" /\ writer # NoTxn /\ Hang

\* Mutant: the end of a transaction leaves the write mutex locked.
FinishLocked(t, st) ==
  /\ txn' = [txn EXCEPT ![t].st = st]
  /\ slot' = Released(t)
  /\ UNCHANGED <<writer, view, lock, proc, last>>

\* t stops running and its object is left in state st.
Finish(t, st) ==
  /\ txn' = [txn EXCEPT ![t].st = st]
  /\ slot' = Released(t)
  /\ writer' = IF writer = t THEN NoTxn ELSE writer
  /\ UNCHANGED <<view, lock, proc, last>>

\* txn.reset(), read-only transactions only.
Reset(t) ==
  /\ proc = "up" /\ txn[t].mode = "ro" /\ txn[t].st \in {"live", "reset", "loose"}
  /\ Finish(t, "reset")
  /\ UNCHANGED <<versions, horizon>>

\* txn.abort().
Abort(t) ==
  /\ proc = "up" /\ txn[t].st \in {"live", "reset", "loose"}
  /\ Finish(t, "closed")
  /\ UNCHANGED <<versions, horizon>>

\* txn.commit(): a write transaction that met an error (MDB_BAD_TXN) or whose
\* commit fails is aborted and the call throws; a read-only one just ends.
Commit(t) ==
  /\ proc = "up" /\ txn[t].st \in {"live", "reset", "loose"}
  /\ Finish(t, "closed")
  /\ \/ /\ txn[t].mode = "ro"
        /\ UNCHANGED <<versions, horizon>>
     \/ /\ txn[t].mode = "rw" /\ ~txn[t].err /\ newest < MaxCommits
        /\ versions' = Append(versions, view)
        /\ ReusePages
     \/ /\ txn[t].mode = "rw"
        /\ txn[t].err \/ IOErrors
        /\ UNCHANGED versions
        /\ ReusePages

\* The object is unreachable and collected: the destructor aborts what is open.
Collect(t) ==
  /\ proc = "up" /\ txn[t].st # "none"
  /\ txn' = [txn EXCEPT ![t] = NoObject]
  /\ slot' = Released(t)
  /\ writer' = IF writer = t THEN NoTxn ELSE writer
  /\ UNCHANGED <<versions, horizon, view, lock, proc, last>>

\* db.put(key, val, txn) and db.del(key, txn).  A failing mdb_put throws and
\* leaves the transaction in error.
Write(t, op) ==
  /\ proc = "up" /\ writer = t /\ ~txn[t].err
  /\ op.op = "del" => view[op.key] # NoVal
  /\ ReusePages
  /\ \/ view' = ApplyOp(view, op) /\ UNCHANGED txn
     \/ IOErrors /\ txn' = [txn EXCEPT ![t].err = TRUE] /\ UNCHANGED view
  /\ UNCHANGED <<versions, writer, slot, lock, proc, last>>

-----------------------------------------------------------------------------
(* Calls without a transaction.                                            *)

\* Mutant: the read lock is made once and not renewed.
ReadLockUnrenewed == [made |-> TRUE, snap |-> IF lock.made THEN lock.snap ELSE newest]

\* The read lock as require_readlock leaves it: begun or renewed, the result
\* ignored.  With the slot taken the lock keeps the snapshot it had before.
\* release_readlock resets it, which gives the slot back.
ReadLock == [made |-> TRUE, snap |-> IF slotFree THEN newest ELSE lock.snap]

\* db.get(key).  With the slot taken and no read lock made yet, there is no
\* transaction to read in and the call throws.
Get(k) ==
  /\ proc = "up"
  /\ slotFree \/ lock.made
  /\ lock' = ReadLock
  /\ \E v \in ReadAt(lock'.snap, k) :
       last' = [op |-> "get", val |-> v, stored |-> current[k], busy |-> ~slotFree]
  /\ UNCHANGED <<versions, horizon, writer, view, slot, txn, proc>>

\* Mutant: a write without a transaction does not take the write mutex.
AutoWriteUnlocked(op) ==
  /\ proc = "up" /\ newest < MaxCommits
  /\ ReusePages
  /\ versions' = Append(versions, ApplyOp(current, op))
  /\ last' = [op |-> "put", val |-> op.val, stored |-> op.val, busy |-> FALSE]
  /\ UNCHANGED <<writer, view, slot, lock, txn, proc>>

\* db.put(key, val) and db.del(key): txn_scope begins a write transaction; its
\* destructor commits it and ignores the result.
AutoWrite(op) ==
  /\ proc = "up"
  /\ \/ writer # NoTxn /\ Hang
     \/ /\ writer = NoTxn /\ newest < MaxCommits
        /\ op.op = "del" => current[op.key] # NoVal
        /\ ReusePages
        /\ \/ versions' = Append(versions, ApplyOp(current, op))
           \/ IOErrors /\ UNCHANGED versions
        /\ last' = [op |-> "put", val |-> op.val, stored |-> versions'[Len(versions')][op.key],
                    busy |-> FALSE]
        /\ UNCHANGED <<writer, view, slot, lock, txn, proc>>

Ops == {PutOp(k, v) : k \in Keys, v \in Vals} \cup {DelOp(k) : k \in Keys}

Next ==
  \/ \E t \in Txns : Renew(t) \/ Reset(t) \/ Abort(t) \/ Commit(t) \/ Collect(t)
  \/ \E t \in Txns, mode \in Modes : Begin(t, mode)
  \/ \E t \in Txns, op \in Ops : Write(t, op)
  \/ \E k \in Keys : Get(k)
  \/ \E op \in Ops : AutoWrite(op)

Spec == Init /\ [][Next]_vars

-----------------------------------------------------------------------------
(* Properties.                                                             *)

\* The write mutex belongs to exactly the running write transaction: commit,
\* abort, renew and the destructor never leave it locked without an owner.
MutexOwned ==
  \A t \in Txns : writer = t <=> txn[t].mode = "rw" /\ txn[t].st = "live"

\* The reader slot belongs to exactly the running read-only transaction and
\* carries its snapshot: neither a get without a transaction nor the end of a
\* transaction whose renew failed frees another transaction's slot.
SlotOwned ==
  \A t \in Txns :
    /\ slot.owner = t <=> txn[t].mode = "ro" /\ txn[t].st = "live"
    /\ slot.owner = t => slot.snap = txn[t].snap

\* Snapshots are stable: however many writers have run since, no page of a
\* running read-only transaction's snapshot was reused, so its reads repeat.
SnapshotIntact ==
  /\ horizon <= newest
  /\ \A t \in Txns :
       txn[t].mode = "ro" /\ txn[t].st = "live" =>
         txn[t].snap <= newest /\ txn[t].snap + 1 >= horizon

\* No lost update: nothing is committed between the begin and the commit of a
\* write transaction, so its commit overwrites nobody's changes.
NoLostUpdate ==
  \A t \in Txns : writer = t => txn[t].snap = newest

\* The inductive invariant.
IInv == TypeOK /\ MutexOwned /\ SlotOwned /\ SnapshotIntact /\ NoLostUpdate

\* A get without a transaction, made while no read-only transaction of the
\* application is running, returns the last committed value.
ReadCommitted ==
  last.op = "get" /\ ~last.busy => last.val = last.stored

\* The same whatever transactions are running (test/lmdb.js:71-72 commits a
\* transaction and expects db.get to return its value).
GetSeesCommit ==
  last.op = "get" => last.val = last.stored

\* A put that returns true has stored its value (test/lmdb.js:34-35).
PutStores ==
  last.op = "put" => last.val = last.stored
=============================================================================
