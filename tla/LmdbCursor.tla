----------------------------- MODULE LmdbCursor -----------------------------
(***************************************************************************)
(* LMDB cursors (lib/lmdb/cursor.js, src/lmdb/cursor-lmdb.cpp) in a        *)
(* transaction that also writes: by db.put, db.del and cursor.del.         *)
(*                                                                         *)
(* A cursor is an index into a page.  Every write shifts the indices of    *)
(* the other cursors of its transaction, and flags (C_DEL, C_EOF) tell the *)
(* next move what to make of the index.  The tree is one leaf page, without *)
(* duplicates.  The history variables on, lost and alone remember where the *)
(* application was last told to be, so that moves can be judged.            *)
(***************************************************************************)
EXTENDS Integers, FiniteSets

CONSTANTS
  Keys,     \* keys, ordered as the comparator orders them
  Cursors   \* Cursor objects

\* No key, and no cursor.
None == -1

ASSUME KeysAreNumbers == Keys \subseteq Nat /\ IsFiniteSet(Keys)

ASSUME CursorsAreNot == None \notin Cursors

VARIABLES
  txn,   \* "none", "rw", "ro", or "reset": a read-only one that was reset
  tab,   \* the keys of the table, as the transaction sees it
  cur,   \* the Cursor objects
  proc   \* "up", or "undefined": memory LMDB has freed or never filled was used

vars == <<txn, tab, cur, proc>>

\* ptr: _cursor is not NULL; tracked: in the list mt_cursors; frees: how often
\* its memory was freed; stale: its transaction ended, or was reset under it;
\* init, eof, del: C_INITIALIZED, C_EOF, C_DEL; ki: mc_ki[0].
\* History: on: the key the cursor is at, of the record last reported or of a
\* later seek() or gte() that found nothing; lost: on is not in the table and a
\* put went just where it would be; alone: since the last report nobody else
\* wrote and no seek, gte or prev failed; outlived: the cursor was open when its
\* transaction ended.
Cursor == [ptr : BOOLEAN, tracked : BOOLEAN, frees : Nat, stale : BOOLEAN,
           init : BOOLEAN, eof : BOOLEAN, del : BOOLEAN, ki : Nat,
           on : Keys \cup {None}, lost : BOOLEAN, alone : BOOLEAN, outlived : BOOLEAN]

TypeOK ==
  /\ txn \in {"none", "rw", "ro", "reset"}
  /\ tab \subseteq Keys /\ IsFiniteSet(tab)
  /\ cur \in [Cursors -> Cursor]
  /\ \A c \in Cursors : cur[c].init => cur[c].on \in Keys
  /\ proc \in {"up", "undefined"}

\* No cursor, and one that mdb_cursor_open just made.
Closed == [ptr |-> FALSE, tracked |-> FALSE, frees |-> 0, stale |-> FALSE,
           init |-> FALSE, eof |-> FALSE, del |-> FALSE, ki |-> 0,
           on |-> None, lost |-> FALSE, alone |-> TRUE, outlived |-> FALSE]

Opened == [Closed EXCEPT !.ptr = TRUE, !.tracked = (txn = "rw")]

Init ==
  /\ txn = "none"
  /\ tab = {}
  /\ cur = [c \in Cursors |-> Closed]
  /\ proc = "up"

-----------------------------------------------------------------------------
(* The page.                                                               *)

NUMKEYS == Cardinality(tab)

\* The index of key k, or where mdb_node_search would put it.
Rank(k) == Cardinality({j \in tab : j < k})

KeyAt(i) == CHOOSE k \in tab : Rank(k) = i

-----------------------------------------------------------------------------
(* Transactions, and the life of a cursor.                                 *)

\* env.beginTxn(readonly), or renew of a read-only transaction that was reset:
\* what others committed in the meantime appears.
Begin(kind) ==
  /\ proc = "up"
  /\ \/ txn = "none"
     \/ txn = "reset" /\ kind = "ro"
  /\ txn' = kind
  /\ tab' \in SUBSET Keys
  /\ UNCHANGED <<cur, proc>>

\* What is left of a cursor that is not used any more.
Remains(x) ==
  [Closed EXCEPT !.ptr = x.ptr, !.tracked = x.tracked, !.frees = x.frees, !.stale = x.stale,
                 !.outlived = x.outlived]

\* mdb_cursors_close frees the cursors on the list of a write transaction;
\* cursors of a read-only one are left to their owner.
Outlive(x) ==
  Remains([x EXCEPT !.frees = IF x.tracked THEN @ + 1 ELSE @, !.tracked = FALSE,
                    !.stale = x.ptr, !.outlived = x.ptr])

\* txn.commit(), txn.abort().
EndTxn ==
  /\ proc = "up" /\ txn # "none"
  /\ txn' = "none"
  /\ tab' = {}
  /\ cur' = [c \in Cursors |-> Outlive(cur[c])]
  /\ UNCHANGED proc

\* txn.reset(): a positioned cursor keeps its page of the old snapshot.
ResetTxn ==
  /\ proc = "up" /\ txn = "ro"
  /\ txn' = "reset"
  /\ cur' = [c \in Cursors |->
               LET x == cur[c] IN IF x.init THEN Remains([x EXCEPT !.stale = TRUE]) ELSE x]
  /\ UNCHANGED <<tab, proc>>

\* db.cursor(txn).
OpenCursor(c) ==
  /\ proc = "up" /\ txn \in {"ro", "rw"} /\ ~cur[c].ptr
  /\ cur' = [cur EXCEPT ![c] = Opened]
  /\ UNCHANGED <<txn, tab, proc>>

\* Mutant: the cursor stays on the transaction's list.
CloseKeepsTracked(c) ==
  /\ proc = "up" /\ cur[c].ptr
  /\ cur' = [cur EXCEPT ![c] = Remains([cur[c] EXCEPT !.ptr = FALSE, !.frees = cur[c].frees + 1])]
  /\ proc' = IF cur[c].frees > 0 THEN "undefined" ELSE proc
  /\ UNCHANGED <<txn, tab>>

\* cursor.close(), or the destructor of a Cursor that was not closed.
Close(c) ==
  /\ proc = "up" /\ cur[c].ptr
  /\ cur' = [cur EXCEPT ![c] =
                Remains([cur[c] EXCEPT !.ptr = FALSE, !.frees = cur[c].frees + 1, !.tracked = FALSE])]
  /\ proc' = IF cur[c].frees > 0 THEN "undefined" ELSE proc
  /\ UNCHANGED <<txn, tab>>

\* Any other call on a cursor whose transaction is gone, and del() on a closed one.
UseStale(c) ==
  /\ proc = "up"
  /\ \/ cur[c].ptr /\ (cur[c].stale \/ txn = "reset")
     \/ ~cur[c].ptr /\ cur[c].frees > 0
  /\ proc' = "undefined"
  /\ UNCHANGED <<txn, tab, cur>>

-----------------------------------------------------------------------------
(* Moves.                                                                  *)

Usable(c) == proc = "up" /\ txn \in {"ro", "rw"} /\ cur[c].ptr /\ ~cur[c].stale

\* The end of every mdb_cursor_get: C_DEL is cleared.
Get(c, x) ==
  /\ cur' = [cur EXCEPT ![c] = [x EXCEPT !.del = FALSE]]
  /\ UNCHANGED <<txn, tab, proc>>

\* The cursor reports the record at index i.
At(c, i) ==
  [cur[c] EXCEPT !.init = TRUE, !.ki = i, !.on = KeyAt(i), !.lost = FALSE, !.alone = TRUE]

\* Mutant: the end-of-data flag survives.
FirstKeepsEof(c) ==
  /\ Usable(c)
  /\ \/ tab = {} /\ Get(c, cur[c])
     \/ tab # {} /\ Get(c, At(c, 0))

\* mdb_cursor_first.
First(c) ==
  /\ Usable(c)
  /\ \/ tab = {} /\ Get(c, cur[c])
     \/ tab # {} /\ Get(c, [At(c, 0) EXCEPT !.eof = FALSE])

\* mdb_cursor_last looks the page up only when C_EOF is not set; on a cursor
\* whose tree was emptied it then works on the page that is no longer there.
Last(c) ==
  /\ Usable(c)
  /\ \/ ~cur[c].init /\ cur[c].eof /\ proc' = "undefined" /\ UNCHANGED <<txn, tab, cur>>
     \/ tab = {} /\ ~cur[c].eof /\ Get(c, cur[c])
     \/ tab # {} /\ (cur[c].init \/ ~cur[c].eof) /\ Get(c, [At(c, NUMKEYS - 1) EXCEPT !.eof = TRUE])

\* mdb_cursor_next.  After a deletion the index is already the next record's.
NextMove(c) ==
  /\ Usable(c) /\ cur[c].init
  /\ LET x == cur[c]
         i == IF x.del THEN x.ki ELSE x.ki + 1
     IN  \/ (x.eof \/ i >= NUMKEYS) /\ Get(c, [x EXCEPT !.eof = TRUE])
         \/ ~x.eof /\ i < NUMKEYS /\ Get(c, At(c, i))

\* Mutant: after a deletion the index is taken for the previous record's.
PrevMoveDel(c) ==
  /\ Usable(c) /\ cur[c].init
  /\ LET x == cur[c]
         i == IF x.del THEN x.ki ELSE x.ki - 1
     IN  \/ (i < 0 \/ i >= NUMKEYS) /\ Get(c, [x EXCEPT !.alone = FALSE])
         \/ i >= 0 /\ i < NUMKEYS /\ Get(c, [At(c, i) EXCEPT !.eof = FALSE])

\* mdb_cursor_prev.
PrevMove(c) ==
  /\ Usable(c) /\ cur[c].init
  /\ LET x == cur[c]
     IN  \/ x.ki = 0 /\ Get(c, [x EXCEPT !.alone = FALSE])
         \/ x.ki > 0 /\ Get(c, [At(c, x.ki - 1) EXCEPT !.eof = FALSE])

\* cursor.next() and cursor.prev() on a cursor without a position.
Next0(c) == ~cur[c].init /\ First(c)

\* (mdb_cursor_last, one index further, mdb_cursor_prev: C_EOF is cleared.)
Prev0(c) ==
  /\ Usable(c) /\ ~cur[c].init
  /\ \/ cur[c].eof /\ proc' = "undefined" /\ UNCHANGED <<txn, tab, cur>>
     \/ ~cur[c].eof /\ tab = {} /\ Get(c, cur[c])
     \/ ~cur[c].eof /\ tab # {} /\ Get(c, At(c, NUMKEYS - 1))

\* mdb_cursor_set that finds record k.
Found(c, k) == Get(c, [At(c, Rank(k)) EXCEPT !.eof = FALSE])

\* mdb_cursor_set that does not find k: the index moves to where k would be.
\* A cursor that has its page keeps its flags.  One without looks for the page
\* (mdb_page_search) and, unless the tree is empty, has a position from then on.
Missed(c, k) ==
  LET x == [cur[c] EXCEPT !.ki = Rank(k), !.on = k, !.lost = FALSE, !.alone = FALSE]
  IN  \/ cur[c].init /\ Get(c, x)
      \/ ~cur[c].init /\ tab # {} /\ Get(c, [x EXCEPT !.init = TRUE, !.eof = FALSE])
      \/ ~cur[c].init /\ tab = {} /\ Get(c, cur[c])

\* cursor.seek(k): MDB_SET.
Seek(c, k) ==
  /\ Usable(c)
  /\ \/ k \in tab /\ Found(c, k)
     \/ k \notin tab /\ Missed(c, k)

\* cursor.gte(k): MDB_SET_RANGE.  (Beyond the last record Rank(k) is NUMKEYS.)
Gte(c, k) ==
  /\ Usable(c)
  /\ \/ \E j \in tab : j >= k /\ Rank(j) = Rank(k) /\ Found(c, j)
     \/ (\A j \in tab : j < k) /\ Missed(c, k)

\* cursor.key(), cursor.val(): MDB_GET_CURRENT.  (Without a position: EINVAL.)
GetCurrent(c) ==
  /\ Usable(c)
  /\ LET x == cur[c]
     IN  \/ ~x.init /\ Get(c, x)
         \/ x.init /\ x.ki >= NUMKEYS /\ Get(c, [x EXCEPT !.ki = NUMKEYS])
         \/ /\ x.init /\ x.ki < NUMKEYS
            /\ Get(c, [x EXCEPT !.on = KeyAt(x.ki), !.lost = FALSE])

-----------------------------------------------------------------------------
(* Writes in the transaction.                                              *)

\* Mutant: only cursors behind the new record are shifted.
ShiftUpBehind(x, k) ==
  IF ~x.init THEN x
  ELSE [x EXCEPT !.ki = IF x.ki > Rank(k) THEN @ + 1 ELSE @,
                 !.lost = @ \/ (x.on \notin tab /\ k >= x.on /\ x.ki = Rank(k)),
                 !.alone = FALSE]

\* The other cursors after k was put: those at its index or behind it shift.
ShiftUp(x, k) ==
  IF ~x.init THEN x
  ELSE [x EXCEPT !.ki = IF x.ki >= Rank(k) THEN @ + 1 ELSE @,
                 !.lost = @ \/ (x.on \notin tab /\ k >= x.on /\ x.ki = Rank(k)),
                 !.alone = FALSE]

\* db.put(key, val, txn) of a new key.  (Putting an existing one replaces the
\* value in its place and moves no cursor.)
Put(k) ==
  /\ proc = "up" /\ txn = "rw" /\ k \notin tab
  /\ tab' = tab \cup {k}
  /\ cur' = [c \in Cursors |-> IF cur[c].tracked THEN ShiftUp(cur[c], k) ELSE cur[c]]
  /\ UNCHANGED <<txn, proc>>

\* A cursor of an emptied tree: mdb_rebalance takes its position away.
Emptied(x) == [x EXCEPT !.init = FALSE, !.ki = 0, !.on = None, !.lost = FALSE, !.alone = TRUE]

\* Mutant: a cursor that is past the last record is not told.
ShiftDownOn(x, k) ==
  LET i == IF x.ki > Rank(k) THEN x.ki - 1 ELSE x.ki
  IN  IF ~x.init THEN x
      ELSE [x EXCEPT !.ki = i, !.del = @ \/ x.ki >= Rank(k), !.alone = FALSE]

\* The other cursors after k was deleted.
ShiftDown(x, k) ==
  LET i == IF x.ki > Rank(k) THEN x.ki - 1 ELSE x.ki
  IN  IF ~x.init THEN x
      ELSE [x EXCEPT !.ki = i, !.del = @ \/ x.ki >= Rank(k),
                     !.eof = @ \/ i >= NUMKEYS - 1, !.alone = FALSE]

\* The cursor that deletes k itself.
Deleting(x) == [x EXCEPT !.del = TRUE, !.eof = @ \/ x.ki >= NUMKEYS - 1]

\* mdb_cursor_del of record k, by cursor d or (d = None) by db.del.
Remove(k, d) ==
  /\ tab' = tab \ {k}
  /\ cur' = [c \in Cursors |->
               LET x == cur[c]
                   y == IF c = d THEN Deleting(x) ELSE ShiftDown(x, k)
               IN  IF ~x.tracked THEN x ELSE IF tab = {k} THEN Emptied(IF c = d THEN y ELSE x) ELSE y]
  /\ UNCHANGED <<txn, proc>>

\* db.del(key, txn).
Del(k) ==
  /\ proc = "up" /\ txn = "rw" /\ k \in tab
  /\ Remove(k, None)

\* cursor.del(): of the record at its index, if it has a position and there is
\* one; throws otherwise.
CursorDel(c) ==
  /\ Usable(c) /\ txn = "rw" /\ cur[c].init /\ cur[c].ki < NUMKEYS
  /\ Remove(KeyAt(cur[c].ki), c)

Next ==
  \/ \E kind \in {"ro", "rw"} : Begin(kind)
  \/ EndTxn \/ ResetTxn
  \/ \E c \in Cursors :
       \/ OpenCursor(c) \/ Close(c) \/ UseStale(c)
       \/ First(c) \/ Last(c) \/ NextMove(c) \/ PrevMove(c) \/ Next0(c) \/ Prev0(c)
       \/ GetCurrent(c) \/ CursorDel(c)
       \/ \E k \in Keys : Seek(c, k) \/ Gte(c, k)
  \/ \E k \in Keys : Put(k) \/ Del(k)

Spec == Init /\ [][Next]_vars

-----------------------------------------------------------------------------
(* Properties.                                                             *)

\* Writes by others never slide a cursor to another record: its index is that
\* of the record it last reported, or of the gap that record left; after a
\* seek() or gte() in vain, of the gap where the key would be.
Placed ==
  \A c \in Cursors : Usable(c) /\ cur[c].init /\ ~cur[c].lost => cur[c].ki = Rank(cur[c].on)

\* No move reads behind the last record: a cursor with a position is on a page
\* with records, at most one behind the last, and there only if the flags stop
\* next().
InPage ==
  \A c \in Cursors : Usable(c) /\ cur[c].init =>
    /\ tab # {} /\ cur[c].ki <= NUMKEYS
    /\ cur[c].del /\ ~cur[c].eof => cur[c].ki < NUMKEYS

\* next() would report the same record again: a smaller one was deleted by
\* someone else.
Again(c) == cur[c].del /\ cur[c].on \in tab

\* next() would pass over a record: a seek() in vain, or a prev() that found
\* nothing after a deletion, left the index on a record nobody was shown.
Skips(c) == ~cur[c].del /\ ~cur[c].eof /\ cur[c].on \notin tab

\* next() would report the end though there is a record: one put after the end
\* was met, or one behind the key of a seek() in vain after the end was met.
PastEnd(c) == cur[c].eof /\ \E k \in tab : k > cur[c].on

\* A loop over a cursor that also deletes with it, and in which nobody else
\* writes, neither repeats a record nor ends early.
LoopExact ==
  \A c \in Cursors :
    Usable(c) /\ cur[c].init /\ ~cur[c].lost /\ cur[c].alone => ~Again(c) /\ ~PastEnd(c)

\* The cursor reports the least record above on, or none; the greatest below.
ToSuccessor(c) ==
  LET above == {k \in tab : k > cur[c].on}
  IN  IF above = {} THEN cur'[c].on = cur[c].on /\ cur'[c].eof
      ELSE cur'[c].on \in above /\ \A k \in above : cur'[c].on <= k

ToPredecessor(c) ==
  LET below == {k \in tab : k < cur[c].on}
  IN  IF below = {} THEN cur'[c].on = cur[c].on
      ELSE cur'[c].on \in below /\ \A k \in below : k <= cur'[c].on

\* The record at on is deleted, or if there is none the least above.
DeletesOnOrAbove(c) ==
  LET from == {k \in tab : k >= cur[c].on}
  IN  \E j \in from : tab' = tab \ {j} /\ \A k \in from : j <= k

\* next() and prev() report the neighbour of the key the cursor is at, also when
\* that was deleted or never found, or others were put or deleted around it;
\* next() with the three exceptions above.  del() deletes the record last
\* reported, and no other while that is in the table.
MovesToNeighbour ==
  [][\A c \in Cursors :
       cur[c].init /\ ~cur[c].lost =>
         /\ NextMove(c) /\ ~Again(c) /\ ~Skips(c) /\ ~PastEnd(c) => ToSuccessor(c)
         /\ PrevMove(c) => ToPredecessor(c)
         /\ CursorDel(c) => DeletesOnOrAbove(c)]_vars

\* A cursor is freed at most once, by close() or by the end of its write
\* transaction, unless it was open when that ended.
FreedOnce ==
  \A c \in Cursors : cur[c].outlived \/ cur[c].frees <= (IF cur[c].ptr THEN 0 ELSE 1)
=============================================================================
