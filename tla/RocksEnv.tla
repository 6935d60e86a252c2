------------------------------ MODULE RocksEnv ------------------------------
(***************************************************************************)
(* Column families in the RocksDB binding (lib/rocksdb/env.js and db.js,   *)
(* src/rocksdb/env-rocks.cpp and db-rocks.cpp).                            *)
(*                                                                         *)
(* registerDb gives a Db an index into the list of families that env.open  *)
(* will open; open() then hands every Db the handle at its index.  A       *)
(* batched record remembers the family of the handle its Db had when it    *)
(* was batched; with no handle yet RocksDB takes family 0, the default.    *)
(*                                                                         *)
(* Data is abstracted to who wrote it: a family holds the set of Db names  *)
(* whose records are in it.  LevelBatch has the batches' own bookkeeping.  *)
(***************************************************************************)
EXTENDS Integers, Sequences

CONSTANTS
  Names,    \* names the application registers
  Default,  \* the family RocksDB always has
  NoCf,     \* a NULL handle
  Wild,     \* what an index out of range would fetch
  IOErrors, \* whether open and write may fail
  Crashes   \* whether the process may be killed

Families == Names \cup {Default}

ASSUME NamesAssumption ==
  /\ Default \notin Names
  /\ NoCf \notin Families
  /\ Wild \notin Families \cup {NoCf}

VARIABLES
  desc,     \* env::_desc, the families to open, in order of registration
  handles,  \* env::_handles, by the family they are for
  isOpen,   \* env::_db is set
  dbs,      \* per name: is it registered, its _cfidx, its _cf
  batch,    \* per name: the families of the records in its batch
  timer,    \* thisArg of the pending debounced flush, or NoCf
  proc,     \* "up" or "down"
  disk,     \* families that exist on disk
  written,  \* per family: names whose records are in it
  early     \* history: names that batched before they had a handle

vars == <<desc, handles, isOpen, dbs, batch, timer, proc, disk, written, early>>

NoDb == [made |-> FALSE, idx |-> 0, cf |-> NoCf]

TypeOK ==
  /\ desc \in Seq(Families)
  /\ handles \in Seq(Families)
  /\ isOpen \in BOOLEAN
  /\ dbs \in [Names -> [made : BOOLEAN, idx : Nat, cf : Families \cup {NoCf}]]
  /\ batch \in [Names -> SUBSET Families]
  /\ timer \in Names \cup {NoCf}
  /\ proc \in {"up", "down"}
  /\ disk \subseteq Families
  /\ written \in [Families -> SUBSET Names]
  /\ early \subseteq Names

Init ==
  /\ desc = <<Default>>
  /\ handles = <<>>
  /\ isOpen = FALSE
  /\ dbs = [n \in Names |-> NoDb]
  /\ batch = [n \in Names |-> {}]
  /\ timer = NoCf
  /\ proc = "up"
  /\ disk = {}
  /\ written = [f \in Families |-> {}]
  /\ early = {}

-----------------------------------------------------------------------------
(* The process ends and a new one starts.                                  *)

Die ==
  /\ proc' = "down"
  /\ UNCHANGED <<desc, handles, isOpen, dbs, batch, timer, disk, written, early>>

Crash == Crashes /\ proc = "up" /\ Die

Restart ==
  /\ proc = "down" /\ proc' = "up"
  /\ desc' = <<Default>> /\ handles' = <<>> /\ isOpen' = FALSE
  /\ dbs' = [n \in Names |-> NoDb]
  /\ batch' = [n \in Names |-> {}]
  /\ timer' = NoCf
  /\ UNCHANGED <<disk, written, early>>

-----------------------------------------------------------------------------
(* Registering and opening.                                                *)

\* The native Db as its constructor leaves it.
NewDb(idx) == [made |-> TRUE, idx |-> idx, cf |-> NoCf]

\* Mutant: the index does not count the default family.
registerDbOffByOne(n) ==
  /\ proc = "up" /\ ~dbs[n].made
  /\ desc' = Append(desc, n)
  /\ dbs' = [dbs EXCEPT ![n] = NewDb(Len(desc) - 1)]
  /\ UNCHANGED <<handles, isOpen, batch, timer, proc, disk, written, early>>

\* registerDb (a name registered before throws): the index counts from 0.
registerDb(n) ==
  /\ proc = "up" /\ ~dbs[n].made
  /\ desc' = Append(desc, n)
  /\ dbs' = [dbs EXCEPT ![n] = NewDb(Len(desc))]
  /\ UNCHANGED <<handles, isOpen, batch, timer, proc, disk, written, early>>

\* _handles[_cfidx].
HandleAt(hs, idx) == IF idx + 1 \in 1..Len(hs) THEN hs[idx + 1] ELSE Wild

Registered == {desc[i] : i \in 1..Len(desc)}

\* Mutant: a family on disk that is not registered is ignored.
CanOpenAny == ~isOpen

\* DB::Open refuses a database that is open in this process (its lock file),
\* and one with families on disk that the caller does not name.
CanOpen == ~isOpen /\ disk \subseteq Registered

\* Mutant: missing families are not created.
OpenOkMissing ==
  /\ proc = "up" /\ CanOpen
  /\ handles' = desc
  /\ isOpen' = TRUE
  /\ dbs' = [n \in Names |-> IF dbs[n].made
                             THEN [dbs[n] EXCEPT !.cf = HandleAt(desc, dbs[n].idx)]
                             ELSE dbs[n]]
  /\ UNCHANGED <<desc, batch, timer, proc, disk, written, early>>

\* env.open: the missing families are created, then every Db is initialised.
OpenOk ==
  /\ proc = "up" /\ CanOpen
  /\ handles' = desc
  /\ isOpen' = TRUE
  /\ disk' = disk \cup Registered
  /\ dbs' = [n \in Names |-> IF dbs[n].made
                             THEN [dbs[n] EXCEPT !.cf = HandleAt(desc, dbs[n].idx)]
                             ELSE dbs[n]]
  /\ UNCHANGED <<desc, batch, timer, proc, written, early>>

\* env.open throws: nothing is initialised and the list of handles is empty.  An
\* error while families are created leaves the first ones on disk.
OpenFails ==
  /\ proc = "up"
  /\ handles' = <<>>
  /\ \/ ~CanOpen /\ UNCHANGED disk
     \/ /\ IOErrors /\ CanOpen
        /\ \E i \in 0..Len(desc) : disk' = disk \cup {desc[j] : j \in 1..i}
  /\ UNCHANGED <<desc, isOpen, dbs, batch, timer, proc, written, early>>

-----------------------------------------------------------------------------
(* Using a Db.  One that no open() has initialised has a NULL DB pointer.  *)

\* put and del without a batch.
Write(n) ==
  /\ proc = "up" /\ dbs[n].made
  /\ \/ dbs[n].cf = NoCf /\ Die
     \/ /\ dbs[n].cf # NoCf
        /\ written' = [written EXCEPT ![dbs[n].cf] = @ \cup {n}]
        /\ UNCHANGED <<desc, handles, isOpen, dbs, batch, timer, proc, disk, early>>

\* The family a batched record is for.
BatchFamily(n) == IF dbs[n].cf = NoCf THEN Default ELSE dbs[n].cf

\* The write of batch ops of n, or its failure, which keeps the batch.
WriteBatch(n, ops) ==
  \/ /\ written' = [f \in Families |-> IF f \in ops THEN written[f] \cup {n} ELSE written[f]]
     /\ batch' = [batch EXCEPT ![n] = {}]
  \/ IOErrors /\ batch' = [batch EXCEPT ![n] = ops] /\ UNCHANGED written

\* batchPut and batchDel: the batch is written when it has reached its size,
\* otherwise the shared auto-flush is armed.
BatchOp(n) ==
  LET ops == batch[n] \cup {BatchFamily(n)} IN
  /\ proc = "up" /\ dbs[n].made
  /\ early' = IF dbs[n].cf = NoCf THEN early \cup {n} ELSE early
  /\ \/ /\ batch' = [batch EXCEPT ![n] = ops]
        /\ timer' = n
        /\ UNCHANGED <<proc, written>>
     \/ dbs[n].cf # NoCf /\ WriteBatch(n, ops) /\ UNCHANGED <<timer, proc>>
     \/ dbs[n].cf = NoCf /\ proc' = "down" /\ UNCHANGED <<batch, timer, written>>
  /\ UNCHANGED <<desc, handles, isOpen, dbs, disk>>

\* flushBatchOps, by the application or by the timer; an exception in the timer
\* ends the process.
Flush(n) ==
  /\ proc = "up" /\ batch[n] # {}
  /\ \/ /\ dbs[n].cf # NoCf /\ WriteBatch(n, batch[n])
        /\ UNCHANGED <<desc, handles, isOpen, dbs, timer, proc, disk, early>>
     \/ dbs[n].cf = NoCf /\ Die

TimerFire ==
  /\ proc = "up" /\ timer # NoCf /\ timer' = NoCf
  /\ \/ /\ batch[timer] = {} \/ dbs[timer].cf # NoCf
        /\ written' = [f \in Families |->
                         IF f \in batch[timer] THEN written[f] \cup {timer} ELSE written[f]]
        /\ batch' = [batch EXCEPT ![timer] = {}]
        /\ UNCHANGED proc
     \/ /\ batch[timer] # {}
        /\ dbs[timer].cf = NoCf \/ IOErrors
        /\ proc' = "down"
        /\ UNCHANGED <<written, batch>>
  /\ UNCHANGED <<desc, handles, isOpen, dbs, disk, early>>

Next ==
  \/ \E n \in Names : registerDb(n) \/ Write(n) \/ BatchOp(n) \/ Flush(n)
  \/ OpenOk \/ OpenFails \/ TimerFire \/ Crash \/ Restart

Spec == Init /\ [][Next]_vars

-----------------------------------------------------------------------------
(* Properties.                                                             *)

\* Databases do not mix: in whatever order, in whatever process, they were
\* registered, opened and reopened, the family of a database holds only its own
\* records, and the default family only those of databases that batched before
\* open() (those records are out of the reach of get).
Isolation ==
  /\ \A n \in Names : written[n] \subseteq {n}
  /\ written[Default] \subseteq early

\* A record is never waiting in a batch for a family that is not there: a handle
\* stays valid through failed and repeated opens.
FamilyExists ==
  isOpen => \A n \in Names : batch[n] \cup {BatchFamily(n)} \subseteq disk

\* A successful open leaves no Db that was registered before it without a
\* handle, and no family on disk without a Db or the default.
OpenIsComplete ==
  isOpen => /\ disk \subseteq Registered
            /\ \A n \in Names : dbs[n].made /\ n \in disk => dbs[n].cf = n

-----------------------------------------------------------------------------
(* The inductive invariant of Isolation and FamilyExists.                  *)

\* The index of a Db is the place of its name in the list of families.
Indexed ==
  /\ desc # <<>> /\ desc[1] = Default
  /\ \A n \in Names : dbs[n].made => /\ dbs[n].idx + 1 \in 1..Len(desc)
                                    /\ desc[dbs[n].idx + 1] = n

\* A handle is for the Db's own family, which exists.
OwnHandle ==
  \A n \in Names : /\ dbs[n].cf \in {NoCf, n}
                   /\ dbs[n].cf = n => n \in disk

\* A batched record is for a family that exists: the Db's own, or the default
\* if it was batched early.
OwnBatch ==
  \A n \in Names : /\ batch[n] \subseteq {n, Default}
                   /\ n \in batch[n] => n \in disk
                   /\ Default \in batch[n] => n \in early

IInv ==
  /\ TypeOK /\ Indexed /\ OwnHandle /\ OwnBatch /\ Isolation
  /\ isOpen => Default \in disk

\* Only registered names are in the list of families; with this OpenIsComplete
\* is inductive.
Listed == \A n \in Names : n \in Registered => dbs[n].made
=============================================================================
