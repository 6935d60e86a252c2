----------------------------- MODULE LmdbHandles ----------------------------
(***************************************************************************)
(* The handles of an LMDB environment: the database slots of LMDB, the Db   *)
(* objects that remember a slot by its number, the write transaction of the *)
(* application, and env.sync() and env.close(), whose fdatasync runs on a   *)
(* thread of libuv's pool and whose callback frees the environment          *)
(* (lib/lmdb/env.js, src/lmdb/env-lmdb.cpp, src/lmdb/db-lmdb.cpp).          *)
(*                                                                         *)
(* env.openDb refuses a name it has seen, so a Db object is its name.       *)
(* Calls that only throw change nothing and are left out.                   *)
(***************************************************************************)
EXTENDS Integers, FiniteSets

CONSTANTS
  Names,    \* names of databases
  NoName,
  MaxDbs,   \* opt.maxDbs
  MaxSyncs  \* bound: calls of sync() and close()

ASSUME NamesAssumption == NoName \notin Names
ASSUME MaxDbsAssumption == MaxDbs \in Nat
ASSUME MaxSyncsAssumption == MaxSyncs \in Nat

Slots == 1..MaxDbs   \* a dbi, counted from the first one for named databases

Jobs == 1..MaxSyncs

VARIABLES
  me,        \* the MDB_env: "open", or "freed"
  slots,     \* me_dbxs: the name in each slot
  db,        \* the Db objects: slot (0: not opened), and whether close() was called
  kept,      \* Db objects whose exists() keeps a cursor
  wt,        \* the write transaction of the application
  unsynced,  \* there are committed writes that are not on disk (MDB_NOSYNC)
  jobs,      \* calls of sync and close, in their order
  proc,      \* "up", "hung", or "undefined": freed memory was used
  past       \* what the application or the disk did: see Past

vars == <<me, slots, db, kept, wt, unsynced, jobs, proc, past>>

\* overlap: sync(), close() or the loss of the last reference came while a call
\* of sync or close was under way; reclosed: a Db was closed that was closed
\* before; late: a Db was opened after close(); failed: an fdatasync failed;
\* closing: close() was called; closed: its callback freed the environment.
Past == {"overlap", "reclosed", "late", "failed", "closing", "closed"}

JobStates == {"idle", "queued", "running", "ok", "failed", "called"}

\* all: the fdatasync that is running covers every commit so far.
Job == [kind : {"sync", "close"}, st : JobStates, all : BOOLEAN]

\* names: the slots when the transaction began; changed: the slots whose
\* sequence number is not the one of then (TXN_DBI_CHANGED).
TypeOK ==
  /\ me \in {"open", "freed"}
  /\ slots \in [Slots -> Names \cup {NoName}]
  /\ db \in [Names -> [dbi : Slots \cup {0}, closed : BOOLEAN]]
  /\ kept \subseteq {d \in Names : db[d].dbi # 0}
  /\ wt \in [live : BOOLEAN, names : [Slots -> Names \cup {NoName}],
             changed : SUBSET Slots, dirty : SUBSET Slots]
  /\ \A i \in wt.dirty : wt.names[i] # NoName
  /\ unsynced \in BOOLEAN
  /\ jobs \in [Jobs -> Job]
  /\ proc \in {"up", "hung", "undefined"}
  /\ past \subseteq Past

NoWt == [live |-> FALSE, names |-> [i \in Slots |-> NoName], changed |-> {}, dirty |-> {}]

Init ==
  /\ me = "open"
  /\ slots = [i \in Slots |-> NoName]
  /\ db = [d \in Names |-> [dbi |-> 0, closed |-> FALSE]]
  /\ kept = {}
  /\ wt = NoWt
  /\ unsynced = FALSE
  /\ jobs = [j \in Jobs |-> [kind |-> "sync", st |-> "idle", all |-> FALSE]]
  /\ proc = "up"
  /\ past = {}

-----------------------------------------------------------------------------
(* Databases.                                                              *)

Calm == proc = "up" /\ me = "open"

Free == {i \in Slots : slots[i] = NoName}

\* Mutant: a slot in use may be taken.
FirstFreeOver(i) == i \in Slots /\ \A j \in Free : i <= j

\* mdb_dbi_open takes the first slot without a name.
FirstFree(i) == i \in Free /\ \A j \in Free : i <= j

\* A call blocks for ever on the write mutex.
Hang == proc' = "hung" /\ UNCHANGED <<me, slots, db, kept, wt, unsynced, jobs, past>>

\* A commit: a running fdatasync may miss it.
Written ==
  /\ unsynced' = TRUE
  /\ jobs' = [j \in Jobs |-> [kind |-> jobs[j].kind, st |-> jobs[j].st, all |-> FALSE]]

\* env.openDb({name: d}): the constructor of the Db begins a write transaction,
\* and waits for ever if the application has one.  With all slots in use it
\* throws MDB_DBS_FULL.  A database that is new on disk is written.
OpenDb(d) ==
  /\ Calm /\ db[d].dbi = 0
  /\ \/ wt.live /\ Hang
     \/ /\ ~wt.live
        /\ \E i \in Slots :
             /\ FirstFree(i)
             /\ slots' = [slots EXCEPT ![i] = d]
             /\ db' = [db EXCEPT ![d].dbi = i]
        /\ Written \/ UNCHANGED <<unsynced, jobs>>
        /\ past' = past \cup (IF "closing" \in past THEN {"late"} ELSE {})
        /\ UNCHANGED <<me, kept, wt, proc>>

\* Mutant: the sequence numbers stay.
CloseSlotsQuiet(I) ==
  /\ slots' = [i \in Slots |-> IF i \in I THEN NoName ELSE slots[i]]
  /\ UNCHANGED wt

\* mdb_dbi_close of the slots in I: they lose their names, and get new
\* sequence numbers if they had one.
CloseSlots(I) ==
  /\ slots' = [i \in Slots |-> IF i \in I THEN NoName ELSE slots[i]]
  /\ wt' = [wt EXCEPT !.changed = IF wt.live THEN @ \cup (I \ Free) ELSE @]

\* db.close().
CloseDb(d) ==
  /\ Calm /\ db[d].dbi # 0
  /\ CloseSlots({db[d].dbi})
  /\ db' = [db EXCEPT ![d].closed = TRUE]
  /\ kept' = kept \ {d}
  /\ past' = past \cup (IF db[d].closed THEN {"reclosed"} ELSE {})
  /\ UNCHANGED <<me, unsynced, jobs, proc>>

\* db.put(key, val) and db.del(key) in a transaction of their own; on a slot
\* without a name they throw EINVAL.
Put(d) ==
  /\ Calm /\ db[d].dbi # 0
  /\ \/ wt.live /\ Hang
     \/ /\ ~wt.live /\ slots[db[d].dbi] # NoName
        /\ Written
        /\ UNCHANGED <<me, slots, db, kept, wt, proc, past>>

\* db.exists(key, val): the first call opens a cursor that the later ones
\* renew.  mdb_cursor_renew fails on a slot without a name; nobody looks at
\* that, and the cursor is used where it was.
Exists(d) ==
  /\ Calm /\ db[d].dbi # 0
  /\ \/ /\ slots[db[d].dbi] # NoName
        /\ kept' = kept \cup {d}
        /\ UNCHANGED proc
     \/ /\ slots[db[d].dbi] = NoName /\ d \in kept
        /\ proc' = "undefined"
        /\ UNCHANGED kept
  /\ UNCHANGED <<me, slots, db, wt, unsynced, jobs, past>>

-----------------------------------------------------------------------------
(* The write transaction of the application.                               *)

\* env.beginTxn().
BeginTxn ==
  /\ Calm
  /\ \/ wt.live /\ Hang
     \/ /\ ~wt.live
        /\ wt' = [live |-> TRUE, names |-> slots, changed |-> {}, dirty |-> {}]
        /\ UNCHANGED <<me, slots, db, kept, unsynced, jobs, proc, past>>

\* db.put(key, val, txn): the sequence number is looked at (MDB_BAD_DBI) until
\* the transaction has written to the slot once.
TxnPut(d) ==
  /\ Calm /\ wt.live /\ db[d].dbi # 0
  /\ LET i == db[d].dbi
     IN  /\ wt.names[i] # NoName
         /\ i \in wt.dirty \/ i \notin wt.changed
         /\ wt' = [wt EXCEPT !.dirty = @ \cup {i}]
  /\ UNCHANGED <<me, slots, db, kept, unsynced, jobs, proc, past>>

\* Mutant: commit does not look at the sequence numbers.
CommitUnchecked ==
  /\ Calm /\ wt.live
  /\ wt' = NoWt
  /\ \/ wt.dirty # {} /\ Written
     \/ wt.dirty = {} /\ UNCHANGED <<unsynced, jobs>>
  /\ UNCHANGED <<me, slots, db, kept, proc, past>>

\* txn.commit(): throws MDB_BAD_DBI, and stores nothing, if a slot it wrote to
\* was closed since it began.
Commit ==
  /\ Calm /\ wt.live
  /\ wt' = NoWt
  /\ \/ /\ wt.dirty \cap wt.changed = {}
        /\ \/ wt.dirty # {} /\ Written
           \/ wt.dirty = {} /\ UNCHANGED <<unsynced, jobs>>
     \/ /\ wt.dirty \cap wt.changed # {}
        /\ UNCHANGED <<unsynced, jobs>>
  /\ UNCHANGED <<me, slots, db, kept, proc, past>>

\* txn.abort().
Abort ==
  /\ Calm /\ wt.live
  /\ wt' = NoWt
  /\ UNCHANGED <<me, slots, db, kept, unsynced, jobs, proc, past>>

-----------------------------------------------------------------------------
(* sync and close.                                                         *)

\* Calls whose callback has not run.
UnderWay == {j \in Jobs : jobs[j].st \in {"queued", "running", "ok", "failed"}}

Overlap == IF UnderWay = {} THEN {} ELSE {"overlap"}

\* env.sync queues a work item for the pool.
Queue(kind) ==
  \E j \in Jobs :
    /\ jobs[j].st = "idle" /\ \A i \in Jobs : i < j => jobs[i].st # "idle"
    /\ jobs' = [jobs EXCEPT ![j] = [kind |-> kind, st |-> "queued", all |-> FALSE]]

\* env.sync(cb).
Sync ==
  /\ Calm
  /\ Queue("sync")
  /\ past' = past \cup Overlap
  /\ UNCHANGED <<me, slots, db, kept, wt, unsynced, proc>>

Opened == {d \in Names : db[d].dbi # 0}

\* Mutant: the environment is closed at once, not in the callback.
CloseEnvNow ==
  /\ Calm
  /\ CloseSlots({db[d].dbi : d \in Opened})
  /\ db' = [d \in Names |-> [db[d] EXCEPT !.closed = @ \/ d \in Opened]]
  /\ kept' = {}
  /\ Queue("close")
  /\ past' = past \cup Overlap \cup {"closing"}
  /\ me' = "freed"
  /\ UNCHANGED <<unsynced, proc>>

\* env.close(cb): closes every Db that was ever opened, then syncs.
CloseEnv ==
  /\ Calm
  /\ CloseSlots({db[d].dbi : d \in Opened})
  /\ db' = [d \in Names |-> [db[d] EXCEPT !.closed = @ \/ d \in Opened]]
  /\ kept' = {}
  /\ Queue("close")
  /\ past' = past \cup Overlap \cup {"closing"}
  /\ UNCHANGED <<me, unsynced, proc>>

\* Job j gets on.
Moves(j, st, all) == jobs' = [jobs EXCEPT ![j] = [kind |-> jobs[j].kind, st |-> st, all |-> all]]

\* A thread of the pool takes the next work item and enters mdb_env_sync with
\* the pointer env.sync stored.
Start(j) ==
  /\ proc # "undefined"
  /\ jobs[j].st = "queued" /\ \A i \in Jobs : i < j => jobs[i].st # "queued"
  /\ \/ /\ me = "open"
        /\ Moves(j, "running", TRUE)
        /\ UNCHANGED proc
     \/ /\ me = "freed"
        /\ proc' = "undefined"
        /\ UNCHANGED jobs
  /\ UNCHANGED <<me, slots, db, kept, wt, unsynced, past>>

\* fdatasync returns.
Finish(j) ==
  /\ proc # "undefined" /\ jobs[j].st = "running"
  /\ \/ /\ Moves(j, "ok", FALSE)
        /\ unsynced' = (unsynced /\ ~jobs[j].all)
        /\ UNCHANGED past
     \/ /\ Moves(j, "failed", FALSE)
        /\ past' = past \cup {"failed"}
        /\ UNCHANGED unsynced
  /\ UNCHANGED <<me, slots, db, kept, wt, proc>>

\* Mutant: the environment stays open when its sync failed.
CallbackIfOk(j) ==
  /\ proc = "up" /\ jobs[j].st \in {"ok", "failed"}
  /\ Moves(j, "called", FALSE)
  /\ \/ /\ jobs[j].kind = "close" /\ me = "open" /\ jobs[j].st = "ok"
        /\ me' = "freed"
        /\ past' = past \cup {"closed"}
     \/ /\ jobs[j].kind = "sync" \/ me = "freed" \/ jobs[j].st = "failed"
        /\ UNCHANGED <<me, past>>
  /\ UNCHANGED <<slots, db, kept, wt, unsynced, proc>>

\* after_sync_cb.  The callback of close() frees the environment whatever the
\* result of the sync; it throws when another one has freed it already.
Callback(j) ==
  /\ proc = "up" /\ jobs[j].st \in {"ok", "failed"}
  /\ Moves(j, "called", FALSE)
  /\ \/ /\ jobs[j].kind = "close" /\ me = "open"
        /\ me' = "freed"
        /\ past' = past \cup {"closed"}
     \/ /\ jobs[j].kind = "sync" \/ me = "freed"
        /\ UNCHANGED <<me, past>>
  /\ UNCHANGED <<slots, db, kept, wt, unsynced, proc>>

\* The application has lost its last reference to the environment, and the
\* collector destroys it; the callback of close() still refers to it.
Collect ==
  /\ Calm
  /\ \A j \in UnderWay : jobs[j].kind # "close"
  /\ me' = "freed"
  /\ past' = past \cup Overlap
  /\ UNCHANGED <<slots, db, kept, wt, unsynced, jobs, proc>>

\* A call of a Db or of the transaction after the environment was freed.
UseFreed ==
  /\ proc = "up" /\ me = "freed"
  /\ "closed" \in past \/ wt.live
  /\ proc' = "undefined"
  /\ UNCHANGED <<me, slots, db, kept, wt, unsynced, jobs, past>>

Next ==
  \/ \E d \in Names : OpenDb(d) \/ CloseDb(d) \/ Put(d) \/ Exists(d) \/ TxnPut(d)
  \/ BeginTxn \/ Commit \/ Abort
  \/ Sync \/ CloseEnv \/ Collect \/ UseFreed
  \/ \E j \in Jobs : Start(j) \/ Finish(j) \/ Callback(j)

Spec == Init /\ [][Next]_vars

\* libuv's threads run what is queued, and its loop the callbacks.
Fairness == \A j \in Jobs : WF_vars(Start(j)) /\ WF_vars(Finish(j)) /\ WF_vars(Callback(j))

FairSpec == Spec /\ Fairness

-----------------------------------------------------------------------------
(* Properties.                                                             *)

\* No other database is in the slot of a Db, however databases were opened and
\* closed around it, as long as nobody closes a Db twice.
SlotKept ==
  "reclosed" \notin past =>
    \A d \in Names : db[d].dbi # 0 /\ ~db[d].closed => slots[db[d].dbi] = d

\* The write transaction writes a Db's records to the database it was opened
\* for, and its commit stores the root of a database under its own name or
\* fails.  (A Db that is closed writes to whatever was opened in its slot.)
OwnDatabase ==
  wt.live =>
    /\ \A i \in wt.dirty \ wt.changed : slots[i] = wt.names[i]
    /\ "reclosed" \notin past =>
         \A d \in Names : db[d].dbi # 0 /\ ~db[d].closed => wt.names[db[d].dbi] = d

\* When the callback of close() has run, all that was ever committed is on
\* disk: nothing can be committed between the call and the callback, not by a
\* transaction begun before either.
ClosedIsDurable ==
  "closed" \in past /\ past \cap {"late", "failed"} = {} => ~unsynced

\* No thread is in, or about to enter, mdb_env_sync of a freed environment, if
\* the application waits for the callback of each sync() before the next call.
SyncsOpenEnv ==
  "overlap" \notin past => \A j \in Jobs : jobs[j].st \in {"queued", "running"} => me = "open"

\* The cursors that exists() keeps are closed before close() ends the read
\* transaction they belong to.
KeptClosed ==
  "closed" \in past /\ "late" \notin past => kept = {}

\* The inductive invariant.  A database is in the slot its Db remembers:
Named == \A i \in Slots : slots[i] # NoName => db[slots[i]].dbi = i

\* the transaction's slots are the present ones, but for those closed since;
TxnNames ==
  wt.live => \A i \in Slots : slots[i] = IF i \in wt.changed THEN NoName ELSE wt.names[i]

\* after close() nothing can be written, and a sync of close() covers it all;
AfterClose ==
  "closing" \in past /\ "late" \notin past =>
    /\ kept = {}
    /\ \A i \in Slots : slots[i] = NoName
    /\ \A j \in Jobs : jobs[j].kind = "close" =>
         /\ jobs[j].st = "running" => jobs[j].all
         /\ jobs[j].st = "ok" => ~unsynced
         /\ jobs[j].st = "failed" => "failed" \in past

\* and without overlap one call is under way.
OneJob ==
  /\ "closed" \in past => "closing" \in past
  /\ \A j \in Jobs : jobs[j].kind = "close" => "closing" \in past
  /\ "overlap" \notin past => \A i, j \in UnderWay : i = j

IInv ==
  /\ TypeOK /\ Named /\ SlotKept /\ TxnNames /\ OwnDatabase
  /\ AfterClose /\ ClosedIsDurable /\ KeptClosed
  /\ OneJob /\ SyncsOpenEnv

\* close() ends: the environment is freed, unless the application blocks.
CloseEnds == "closing" \in past ~> me = "freed" \/ proc # "up"
=============================================================================
