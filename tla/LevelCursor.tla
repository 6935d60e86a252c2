----------------------------- MODULE LevelCursor ----------------------------
(***************************************************************************)
(* A LevelDB cursor (lib/leveldb/cursor.js, src/leveldb/cursor-lvl.cpp)    *)
(* over LevelDB's DBIter.                                                  *)
(*                                                                         *)
(* LevelDB keeps every write as an internal entry (key, sequence number,   *)
(* put or deletion), ordered by key and, within a key, newest first.       *)
(* Entry n is the n-th write; its value stands for itself.  A DBIter walks *)
(* these live entries with an internal iterator, must hide what is newer   *)
(* than its sequence number, overwritten or deleted, and rests in two ways:*)
(* moving forward on the very entry it yields, moving backward in front of *)
(* all entries of the key it yields, with key and value saved.             *)
(***************************************************************************)
EXTENDS Integers, Sequences

CONSTANTS
  Keys,      \* keys, ordered as the comparator orders them
  MaxWrites  \* bound: writes

ASSUME KeysAssumption == Keys \subseteq Nat
ASSUME WritesAssumption == MaxWrites \in Nat

VARIABLES
  log,   \* the internal entries, by sequence number
  it,    \* the DBIter of the cursor
  turn,  \* history: flips at every call, so that a call that moves nothing is a step
  proc   \* "up", or "aborted" by a call DBIter does not allow

vars == <<log, it, turn, proc>>

NoEntry == 0

Entry == [key : Keys, put : BOOLEAN]

\* seq: sequence_; fwd: direction_ = kForward; pos: the entry iter_ is at, or
\* NoEntry when iter_ is not valid; key, val: saved_key_, saved_value_ (entry).
Iterator == [seq : Nat, valid : BOOLEAN, fwd : BOOLEAN, pos : Nat, key : Keys \cup {-1}, val : Nat]

TypeOK ==
  /\ log \in Seq(Entry)
  /\ it \in Iterator
  /\ it.seq <= Len(log) /\ it.pos <= Len(log) /\ it.val <= Len(log)
  /\ turn \in BOOLEAN
  /\ proc \in {"up", "aborted"}

\* A new DBIter.
Made(seq) == [seq |-> seq, valid |-> FALSE, fwd |-> TRUE, pos |-> NoEntry, key |-> -1, val |-> NoEntry]

\* A cursor on a new database.
Init ==
  /\ log = <<>>
  /\ it = Made(0)
  /\ turn = FALSE
  /\ proc = "up"

-----------------------------------------------------------------------------
(* Internal entries and the internal iterator.                             *)

Entries == 1..Len(log)

key(e) == log[e].key

\* InternalKeyComparator.
Before(d, e) == key(d) < key(e) \/ (key(d) = key(e) /\ d > e)

\* The first and the last entry of S; NoEntry when the iterator runs off.
FirstOf(S) ==
  IF S = {} THEN NoEntry ELSE CHOOSE e \in S : \A d \in S : d = e \/ Before(e, d)

LastOf(S) ==
  IF S = {} THEN NoEntry ELSE CHOOSE e \in S : \A d \in S : d = e \/ Before(d, e)

Rest(e) == {d \in Entries : d = e \/ Before(e, d)}

Passed(e) == {d \in Entries : d = e \/ Before(d, e)}

\* Mutant: entries written after the cursor was made are not filtered.
VisibleAll(e) == TRUE

\* Whether the iterator's sequence number lets it see entry e.
Visible(e) == e <= it.seq

-----------------------------------------------------------------------------
(* DBIter.                                                                 *)

\* The visible deletions of from that the scan passes before it meets e.
Hiding(from, e) == {d \in from : Before(d, e) /\ Visible(d) /\ ~log[d].put}

\* The entries of from that FindNextUserEntry would yield: puts it can see,
\* of a key greater than skip.  A deletion it passes replaces skip by its key.
Yielded(from, skip) ==
  {e \in from :
     /\ log[e].put /\ Visible(e)
     /\ Hiding(from, e) = {} => key(e) > skip
     /\ \A d \in Hiding(from, e) : key(d) # key(e)}

\* FindNextUserEntry(skipping, skip), iter_ being at the first entry of from;
\* skip is -1 when not skipping.  (What is saved is read only after backward
\* moves.)
FindNextUserEntry(from, skip) ==
  LET e == FirstOf(Yielded(from, skip))
  IN  it' = [it EXCEPT !.fwd = TRUE, !.pos = e, !.valid = e # NoEntry,
                       !.key = -1, !.val = NoEntry]

\* The newest entry of key k among those of from that can be seen: the last of
\* them that a backward scan meets.
Newest(from, k) == FirstOf({e \in from : key(e) = k /\ Visible(e)})

\* Keys that FindPrevUserEntry can stop at: their newest visible entry is a put.
LiveKeys(from) ==
  {k \in Keys : Newest(from, k) # NoEntry /\ log[Newest(from, k)].put}

\* Mutant: the scan ends at the first visible entry of the key it met.
RestingOn(from, k) == LastOf({e \in from : Visible(e) /\ key(e) <= k})

\* Where a backward scan for key k stops: at a visible entry of a smaller key.
Resting(from, k) == LastOf({e \in from : Visible(e) /\ key(e) < k})

\* FindPrevUserEntry, iter_ being at the last entry of from.
FindPrevUserEntry(from) ==
  \/ /\ LiveKeys(from) = {}
     /\ it' = [it EXCEPT !.valid = FALSE, !.fwd = TRUE, !.pos = NoEntry, !.key = -1, !.val = NoEntry]
  \/ \E k \in LiveKeys(from) :
       /\ \A j \in LiveKeys(from) : j <= k
       /\ it' = [it EXCEPT !.valid = TRUE, !.fwd = FALSE, !.pos = Resting(from, k),
                           !.key = k, !.val = Newest(from, k)]

-----------------------------------------------------------------------------
(* The database and the cursor methods.                                    *)

\* db.put(key, val), db.del(key), or a record of a batch.
Write(k, put) ==
  /\ proc = "up" /\ Len(log) < MaxWrites
  /\ log' = Append(log, [key |-> k, put |-> put])
  /\ UNCHANGED <<it, turn, proc>>

\* db.cursor(): NewIterator takes the last sequence number.
NewCursor ==
  /\ proc = "up"
  /\ it' = Made(Len(log))
  /\ UNCHANGED <<log, turn, proc>>

Moved == turn' = ~turn /\ UNCHANGED <<log, proc>>

\* cursor.first().
SeekToFirst ==
  /\ proc = "up"
  /\ FindNextUserEntry(Entries, -1)
  /\ Moved

\* cursor.last().
SeekToLast ==
  /\ proc = "up"
  /\ FindPrevUserEntry(Entries)
  /\ Moved

\* cursor.gte(target): the internal target is (target, sequence_).
Seek(target) ==
  /\ proc = "up"
  /\ FindNextUserEntry({e \in Entries : key(e) > target \/ (key(e) = target /\ Visible(e))}, -1)
  /\ Moved

\* cursor.next() on a record.  After a backward move iter_ rests in front of
\* the saved key, or nowhere, and is moved forward once (to the first entry).
NextEntry ==
  /\ proc = "up" /\ it.valid
  /\ \/ it.fwd /\ FindNextUserEntry(Rest(it.pos), key(it.pos))
     \/ ~it.fwd /\ it.pos = NoEntry /\ FindNextUserEntry(Entries, it.key)
     \/ ~it.fwd /\ it.pos # NoEntry /\ FindNextUserEntry(Rest(it.pos) \ {it.pos}, it.key)
  /\ Moved

\* Mutant: prev after a forward move goes on from the current entry.
PrevEntryHere ==
  /\ proc = "up" /\ it.valid
  /\ FindPrevUserEntry(IF it.pos = NoEntry THEN {} ELSE Passed(it.pos))
  /\ Moved

\* cursor.prev() on a record.  After a forward move iter_ is first taken back
\* to the entries of smaller keys; with none left the cursor becomes invalid.
PrevEntry ==
  /\ proc = "up" /\ it.valid
  /\ LET smaller == {e \in Entries : key(e) < key(it.pos)}
     IN  \/ it.fwd /\ smaller # {} /\ FindPrevUserEntry(smaller)
         \/ /\ it.fwd /\ smaller = {}
            /\ it' = [it EXCEPT !.valid = FALSE, !.pos = NoEntry, !.key = -1, !.val = NoEntry]
         \/ ~it.fwd /\ FindPrevUserEntry(IF it.pos = NoEntry THEN {} ELSE Passed(it.pos))
  /\ Moved

\* next, prev, key or val on a cursor that is not on a record: DBIter asserts
\* valid_.  (key and val set null for this case, but go on to DBIter.)
CallInvalid ==
  /\ proc = "up" /\ ~it.valid
  /\ proc' = "aborted"
  /\ UNCHANGED <<log, it, turn>>

Next ==
  \/ \E k \in Keys, put \in BOOLEAN : Write(k, put)
  \/ \E k \in Keys : Seek(k)
  \/ NewCursor \/ SeekToFirst \/ SeekToLast \/ NextEntry \/ PrevEntry \/ CallInvalid

Spec == Init /\ [][Next]_vars

-----------------------------------------------------------------------------
(* Properties.                                                             *)

\* Entry n holds the value of key k for a reader at sequence number s.
Holds(k, s, n) ==
  /\ n \in 1..s /\ n \in Entries /\ key(n) = k /\ log[n].put
  /\ \A d \in Entries : key(d) = k /\ d <= s => d <= n

\* The table at sequence number s.
TableAt(s) ==
  [k \in Keys |->
     IF \E n \in 1..s : Holds(k, s, n) THEN CHOOSE n \in 1..s : Holds(k, s, n) ELSE 0]

\* cursor.key() and cursor.val().
Here == IF it.fwd THEN <<key(it.pos), it.pos>> ELSE <<it.key, it.val>>

Abs == INSTANCE CursorSpec WITH
         Values <- 0..MaxWrites, table <- TableAt(Len(log)), snap <- TableAt(it.seq), at <- IF it.valid THEN Here ELSE <<>>

\* The cursor walks its snapshot in order, without missing, repeating or
\* inventing a record, through any mix of next, prev, first, last and gte and
\* whatever is put, overwritten or deleted while it is open.
WalksSnapshot == Abs!Spec

\* Each call moves the cursor exactly as it says: next to the following record
\* of the snapshot, prev to the preceding one, also right after a move in the
\* other direction (where DBIter has to find its way back through entries it
\* cannot see).
MovesAsCalled ==
  [][/\ NextEntry => Abs!NextKey
     /\ PrevEntry => Abs!PrevKey
     /\ SeekToFirst => Abs!First
     /\ SeekToLast => Abs!Last
     /\ \A k \in Keys : Seek(k) => Abs!Gte(k)]_vars

\* A cursor that last moved backward rests between the key it yields and the
\* smaller ones: every entry it can see of a smaller key is still in front of
\* it, and none of the keys from its own on is behind it.  Both directions can
\* go on from there.
RestsBetween ==
  it.valid /\ ~it.fwd =>
    \A e \in Entries :
      Visible(e) => (key(e) < it.key <=> it.pos # NoEntry /\ e \in Passed(it.pos))
=============================================================================
