------------------------- MODULE LmdbCursor_proofs -------------------------
(***************************************************************************)
(* LmdbCursor for any finite set of keys and any cursors: IInv is          *)
(* inductive, and every property of the module follows from it.            *)
(*                                                                         *)
(* The argument: ranks number the records of a page without gaps (RkOnto)  *)
(* and change by one where a record is put or removed below (RkAdd,        *)
(* RkRemove).  So the shifts of the indices keep a cursor on its record or *)
(* on the gap that it left (ShiftUpSound, ShiftDownSound, DeletingSound).  *)
(***************************************************************************)
EXTENDS LmdbCursor, TLAPS, FiniteSetTheorems

-----------------------------------------------------------------------------
(* The page.                                                               *)

\* The keys of T below k, and their number: Rank(k) in a table T.
Below(T, k) == {j \in T : j < k}

Rk(T, k) == Cardinality(Below(T, k))

\* Tables: finite sets of keys.
Table == {T \in SUBSET Keys : IsFiniteSet(T)}

\* Ranks are numbers, at most that of records; that of a record is less.
LEMMA RkBounds ==
  ASSUME NEW T \in Table, NEW k
  PROVE  /\ Cardinality(T) \in Nat /\ Rk(T, k) \in Nat /\ Rk(T, k) <= Cardinality(T)
         /\ IsFiniteSet(Below(T, k))
<1>1. Below(T, k) \in SUBSET T /\ IsFiniteSet(T)
  BY DEF Below, Table
<1>2. IsFiniteSet(Below(T, k)) /\ Rk(T, k) <= Cardinality(T)
  BY <1>1, FS_Subset DEF Rk
<1> QED BY <1>1, <1>2, FS_CardinalityType DEF Rk

\* The rank grows with the key,
LEMMA RkMonotone ==
  ASSUME NEW T \in Table, NEW a \in Keys, NEW b \in Keys, a <= b
  PROVE  Rk(T, a) <= Rk(T, b)
<1>0. a \in Nat /\ b \in Nat /\ T \subseteq Nat
  BY KeysAreNumbers DEF Table
<1>1. Below(T, a) \in SUBSET Below(T, b)
  <2>1. \A j \in T : j \in Nat /\ (j < a => j < b)
    BY <1>0
  <2> QED BY <2>1 DEF Below
<1>2. IsFiniteSet(Below(T, b))
  BY RkBounds
<1> QED BY <1>1, <1>2, FS_Subset DEF Rk

\* strictly when it passes a record.
LEMMA RkStrict ==
  ASSUME NEW T \in Table, NEW a \in T, NEW b \in Keys, a < b
  PROVE  Rk(T, a) < Rk(T, b)
<1>0. a \in Nat /\ b \in Nat /\ T \subseteq Nat
  BY KeysAreNumbers DEF Table
<1>1. a \in Below(T, b) /\ a \notin Below(T, a)
  BY <1>0 DEF Below
<1>2. Below(T, a) \in SUBSET Below(T, b)
  <2>1. \A j \in T : j \in Nat /\ (j < a => j < b)
    BY <1>0
  <2> QED BY <2>1 DEF Below
<1>3. IsFiniteSet(Below(T, b)) /\ Rk(T, a) \in Nat /\ Rk(T, b) \in Nat
  BY RkBounds
<1>4. Rk(T, a) <= Rk(T, b) /\ (Rk(T, b) = Rk(T, a) => Below(T, b) = Below(T, a))
  BY <1>2, <1>3, FS_Subset DEF Rk
<1>5. Rk(T, b) # Rk(T, a)
  BY <1>1, <1>4
<1> QED BY <1>3, <1>4, <1>5

\* The rank of a record is an index of the page.
LEMMA RkRecord ==
  ASSUME NEW T \in Table, NEW a \in T
  PROVE  Rk(T, a) < Cardinality(T)
<1>1. Below(T, a) \in SUBSET T /\ IsFiniteSet(T) /\ a \notin Below(T, a) /\ a \in Keys
  BY KeysAreNumbers DEF Below, Table
<1>2. Rk(T, a) <= Cardinality(T) /\ (Cardinality(T) = Rk(T, a) => T = Below(T, a))
  BY <1>1, FS_Subset DEF Rk
<1>3. Cardinality(T) # Rk(T, a)
  BY <1>1, <1>2
<1> QED BY <1>2, <1>3, RkBounds

\* Every index of the page is the rank of a record: ranks are an injection
\* between sets of the same number of elements.
LEMMA RkOnto ==
  ASSUME NEW T \in Table, NEW i \in Nat, i < Cardinality(T)
  PROVE  \E a \in T : Rk(T, a) = i
<1> DEFINE N == Cardinality(T)
           f == [a \in T |-> Rk(T, a)]
<1>1. N \in Nat /\ N # 0
  BY RkBounds
<1>2. IsFiniteSet(0..(N - 1)) /\ Cardinality(0..(N - 1)) = N
  <2> HIDE DEF N
  <2> QED BY <1>1, FS_Interval
<1>3. \A a \in T : Rk(T, a) \in 0..(N - 1)
  BY RkBounds, RkRecord, <1>1
<1>4. \A a, b \in T : Rk(T, a) = Rk(T, b) => a = b
  <2> SUFFICES ASSUME NEW a \in T, NEW b \in T, a < b PROVE Rk(T, a) # Rk(T, b)
    BY KeysAreNumbers DEF Table
  <2>1. a \in Keys /\ b \in Keys
    BY DEF Table
  <2> QED BY <2>1, RkStrict, RkBounds
<1>5. f \in Injection(T, 0..(N - 1))
  BY <1>3, <1>4 DEF Injection, IsInjective
<1>6. f \in Surjection(T, 0..(N - 1))
  <2> HIDE DEF f, N
  <2>1. Cardinality(T) = Cardinality(0..(N - 1))
    BY <1>2 DEF N
  <2> QED BY <1>2, <1>5, <2>1, FS_Injection
<1>7. i \in 0..(N - 1)
  BY <1>1
<1> QED BY <1>6, <1>7 DEF Surjection

\* Adding and removing a record.
LEMMA RkAdd ==
  ASSUME NEW T \in Table, NEW k \in Keys, k \notin T, NEW a \in Keys
  PROVE  /\ T \cup {k} \in Table
         /\ Cardinality(T \cup {k}) = Cardinality(T) + 1
         /\ Rk(T \cup {k}, a) = IF k < a THEN Rk(T, a) + 1 ELSE Rk(T, a)
<1>1. IsFiniteSet(T) /\ T \subseteq Keys
  BY DEF Table
<1>2. IsFiniteSet(T \cup {k}) /\ Cardinality(T \cup {k}) = Cardinality(T) + 1
  BY <1>1, FS_AddElement
<1>3. CASE k < a
  <2>1. Below(T \cup {k}, a) = Below(T, a) \cup {k} /\ k \notin Below(T, a)
    BY <1>3 DEF Below
  <2>2. IsFiniteSet(Below(T, a))
    BY RkBounds
  <2>3. Rk(T \cup {k}, a) = Rk(T, a) + 1
    BY <2>1, <2>2, FS_AddElement DEF Rk
  <2> QED BY <1>1, <1>2, <1>3, <2>3 DEF Table
<1>4. CASE ~(k < a)
  <2>1. Below(T \cup {k}, a) = Below(T, a)
    BY <1>4 DEF Below
  <2>2. Rk(T \cup {k}, a) = Rk(T, a)
    BY <2>1 DEF Rk
  <2> QED BY <1>1, <1>2, <1>4, <2>2 DEF Table
<1> QED BY <1>3, <1>4

LEMMA RkRemove ==
  ASSUME NEW T \in Table, NEW k \in T, NEW a \in Keys
  PROVE  /\ T \ {k} \in Table
         /\ Cardinality(T \ {k}) = Cardinality(T) - 1
         /\ Rk(T \ {k}, a) = IF k < a THEN Rk(T, a) - 1 ELSE Rk(T, a)
<1>1. IsFiniteSet(T) /\ T \subseteq Keys
  BY DEF Table
<1>2. IsFiniteSet(T \ {k}) /\ Cardinality(T \ {k}) = Cardinality(T) - 1
  BY <1>1, FS_RemoveElement
<1>3. CASE k < a
  <2>1. Below(T \ {k}, a) = Below(T, a) \ {k} /\ k \in Below(T, a)
    BY <1>3 DEF Below
  <2>2. IsFiniteSet(Below(T, a))
    BY RkBounds
  <2>3. Rk(T \ {k}, a) = Rk(T, a) - 1
    BY <2>1, <2>2, FS_RemoveElement DEF Rk
  <2> QED BY <1>1, <1>2, <1>3, <2>3 DEF Table
<1>4. CASE ~(k < a)
  <2>1. Below(T \ {k}, a) = Below(T, a)
    BY <1>4 DEF Below
  <2>2. Rk(T \ {k}, a) = Rk(T, a)
    BY <2>1 DEF Rk
  <2> QED BY <1>1, <1>2, <1>4, <2>2 DEF Table
<1> QED BY <1>3, <1>4

\* The record of the rank of a key is that key's, or the least above it.
LEMMA RkNeighbour ==
  ASSUME NEW T \in Table, NEW a \in T, NEW b \in Keys, Rk(T, a) = Rk(T, b)
  PROVE  b <= a /\ (b \in T => a = b) /\ \A j \in T : j >= b => j >= a
<1>1. a \in Keys /\ a \in Nat /\ b \in Nat /\ Rk(T, a) \in Nat /\ Rk(T, b) \in Nat
  BY RkBounds, KeysAreNumbers DEF Table
<1>2. ~(a < b)
  BY <1>1, RkStrict
<1>3. ASSUME NEW j \in T, j >= b, ~(j >= a) PROVE FALSE
  <2>1. j \in Keys /\ j \in Nat
    BY KeysAreNumbers DEF Table
  <2>2. Rk(T, j) < Rk(T, a) /\ Rk(T, b) <= Rk(T, j) /\ Rk(T, j) \in Nat
    BY <1>1, <1>3, <2>1, RkStrict, RkMonotone, RkBounds
  <2> QED BY <1>1, <2>2
<1>4. b \in T => a = b
  BY <1>1, <1>2, <1>3
<1> QED BY <1>1, <1>2, <1>3, <1>4

\* No record is above a key of the last rank.
LEMMA RkLast ==
  ASSUME NEW T \in Table, NEW b \in Keys,
         Rk(T, b) >= Cardinality(T) \/ (b \in T /\ Rk(T, b) + 1 >= Cardinality(T))
  PROVE  \A j \in T : j <= b
<1> SUFFICES ASSUME NEW j \in T, ~(j <= b) PROVE FALSE
  OBVIOUS
<1>1. j \in Keys /\ j \in Nat /\ b \in Nat /\ b < j /\ b <= j
  BY KeysAreNumbers DEF Table
<1>2. Rk(T, j) < Cardinality(T) /\ Rk(T, b) <= Rk(T, j)
  BY <1>1, RkRecord, RkMonotone
<1>3. b \in T => Rk(T, b) < Rk(T, j)
  BY <1>1, RkStrict
<1>4. Rk(T, b) \in Nat /\ Rk(T, j) \in Nat /\ Cardinality(T) \in Nat
  BY RkBounds
<1> QED BY <1>2, <1>3, <1>4

-----------------------------------------------------------------------------
(* The inductive invariant, one cursor x at a time.                        *)

\* The life of a cursor under transaction t: it has a position only while the
\* transaction runs, a usable one of a write transaction is on the list, and
\* one on the list has not been freed.
Life(x, t, p) ==
  /\ x.init => x.ptr /\ ~x.stale /\ t \in {"ro", "rw"}
  /\ x.tracked => x.ptr /\ ~x.outlived
  /\ x.ptr /\ ~x.stale => t \in {"ro", "reset"} \/ (t = "rw" /\ x.tracked)
  /\ x.ptr /\ ~x.outlived => x.frees = 0
  /\ ~x.ptr /\ ~x.outlived => x.frees <= 1
  /\ p = "up" => x.frees <= 1

\* The position of a cursor in table T: Placed, InPage and LoopExact, and that
\* a cursor alone on a deleted record knows it, or has no record ahead.
Sound(x, T) ==
  x.init =>
    /\ x.on \in Keys /\ T # {}
    /\ x.ki <= Cardinality(T)
    /\ x.del /\ ~x.eof => x.ki < Cardinality(T)
    /\ ~x.lost => x.ki = Rk(T, x.on)
    /\ x.alone =>
         /\ ~x.lost /\ ~(x.del /\ x.on \in T)
         /\ x.eof => \A k \in T : k <= x.on
         /\ x.on \in T \/ x.del \/ \A k \in T : k <= x.on

IInv ==
  /\ TypeOK
  /\ \A c \in Cursors : Life(cur[c], txn, proc)
  /\ proc = "up" => \A c \in Cursors : Sound(cur[c], tab)

\* The fields of a cursor.
LEMMA Fields ==
  ASSUME NEW x \in Cursor
  PROVE  /\ x.ptr \in BOOLEAN /\ x.tracked \in BOOLEAN /\ x.frees \in Nat /\ x.stale \in BOOLEAN
         /\ x.init \in BOOLEAN /\ x.eof \in BOOLEAN /\ x.del \in BOOLEAN /\ x.ki \in Nat
         /\ x.lost \in BOOLEAN /\ x.alone \in BOOLEAN /\ x.outlived \in BOOLEAN
         /\ x.on \in Keys \cup {None}
BY Zenon DEF Cursor

\* y is x with another position.
SameLife(x, y) ==
  /\ y.ptr = x.ptr /\ y.tracked = x.tracked /\ y.frees = x.frees
  /\ y.stale = x.stale /\ y.outlived = x.outlived

\* A step that gives one usable cursor another position.
LEMMA MoveStep ==
  ASSUME IInv, NEW c \in Cursors, Usable(c),
         NEW y \in Cursor, SameLife(cur[c], y), Sound(y, tab),
         cur' = [cur EXCEPT ![c] = y], UNCHANGED <<txn, tab, proc>>
  PROVE  IInv'
<1>1. cur \in [Cursors -> Cursor] /\ cur'[c] = y
  BY DEF IInv, TypeOK
<1>2. \A d \in Cursors : d # c => cur'[d] = cur[d]
  BY <1>1
<1>3. cur' \in [Cursors -> Cursor]
  BY <1>1
<1>4. \A d \in Cursors : Life(cur[d], txn, proc) /\ Sound(cur[d], tab)
  BY DEF IInv, Usable
<1>5. Life(y, txn, proc)
  <2>1. Life(cur[c], txn, proc)
    BY <1>4
  <2> QED BY <2>1, Zenon DEF Life, SameLife, Usable
<1>6. \A d \in Cursors : Life(cur'[d], txn', proc')
  BY <1>1, <1>2, <1>4, <1>5, Zenon
<1>7. \A d \in Cursors : Sound(cur'[d], tab')
  BY <1>1, <1>2, <1>4, Zenon
<1>8. \A d \in Cursors : cur'[d].init => cur'[d].on \in Keys
  BY <1>7, Zenon DEF Sound
<1>9. TypeOK'
  BY <1>3, <1>8 DEF IInv, TypeOK
<1> QED BY <1>6, <1>7, <1>9 DEF IInv

\* A cursor that reports the record at index i.
LEMMA ReportSound ==
  ASSUME NEW T \in Table, NEW y \in Cursor, y.init, ~y.del, ~y.lost,
         y.on \in T, y.ki = Rk(T, y.on), y.eof => y.ki + 1 >= Cardinality(T)
  PROVE  Sound(y, T)
<1>1. y.ki < Cardinality(T) /\ y.on \in Keys /\ Cardinality(T) \in Nat /\ y.ki \in Nat
  BY RkRecord, RkBounds DEF Table
<1>2. y.eof => \A k \in T : k <= y.on
  BY <1>1, RkLast
<1>3. T # {} /\ y.ki <= Cardinality(T)
  BY <1>1
<1> QED BY <1>1, <1>2, <1>3, Zenon DEF Sound

-----------------------------------------------------------------------------
(* Moves.                                                                  *)

\* The record at an index of the page.
LEMMA KeyAtRank ==
  ASSUME TypeOK, NEW i \in Nat, i < NUMKEYS
  PROVE  tab \in Table /\ KeyAt(i) \in tab /\ KeyAt(i) \in Keys /\ Rk(tab, KeyAt(i)) = i
<1>1. tab \in Table
  BY DEF TypeOK, Table
<1>2. \A k : Rank(k) = Rk(tab, k)
  BY DEF Rank, Rk, Below
<1>3. \E k \in tab : Rank(k) = i
  BY <1>1, <1>2, RkOnto DEF NUMKEYS
<1>4. KeyAt(i) \in tab /\ Rank(KeyAt(i)) = i
  BY <1>3 DEF KeyAt
<1> QED BY <1>1, <1>2, <1>4 DEF Table

\* The cursor that a move to index i leaves, with C_EOF set to e or left alone.
Moved(c, i, e) == [[At(c, i) EXCEPT !.eof = e] EXCEPT !.del = FALSE]

MovedOn(c, i) == [At(c, i) EXCEPT !.del = FALSE]

\* Their fields.
LEMMA MovedFields ==
  ASSUME TypeOK, NEW c \in Cursors, NEW i \in Nat, NEW e \in BOOLEAN, KeyAt(i) \in Keys
  PROVE  LET y == Moved(c, i, e)
         IN  /\ y \in Cursor /\ SameLife(cur[c], y) /\ y.init = TRUE
             /\ y.del = FALSE /\ y.lost = FALSE /\ y.on = KeyAt(i) /\ y.ki = i /\ y.eof = e
<1>1. cur[c] \in Cursor
  BY DEF TypeOK
<1> DEFINE k == KeyAt(i)
           a == At(c, i)
           y == [[a EXCEPT !.eof = e] EXCEPT !.del = FALSE]
<1>2. k \in Keys
  OBVIOUS
<1>3. a = [cur[c] EXCEPT !.init = TRUE, !.ki = i, !.on = k, !.lost = FALSE, !.alone = TRUE]
  BY DEF At
<1> HIDE DEF k, a
<1>4. a \in Cursor
  BY <1>1, <1>2, <1>3, Zenon DEF Cursor
<1>5. SameLife(cur[c], a) /\ a.init = TRUE /\ a.lost = FALSE /\ a.ki = i /\ a.on = k
  BY <1>1, <1>3, Zenon DEF Cursor, SameLife
<1>6. y \in Cursor /\ SameLife(a, y) /\ y.init = a.init /\ y.ki = a.ki
      /\ y.on = a.on /\ y.lost = a.lost /\ y.eof = e /\ y.del = FALSE
  BY <1>4, Zenon DEF Cursor, SameLife
<1>7. SameLife(cur[c], y)
  BY <1>5, <1>6, Zenon DEF SameLife
<1> QED BY <1>5, <1>6, <1>7, Zenon DEF k, a, Moved

\* Their fields, C_EOF left alone.
LEMMA MovedOnFields ==
  ASSUME TypeOK, NEW c \in Cursors, NEW i \in Nat, KeyAt(i) \in Keys
  PROVE  LET y == MovedOn(c, i)
         IN  /\ y \in Cursor /\ SameLife(cur[c], y) /\ y.init = TRUE
             /\ y.del = FALSE /\ y.lost = FALSE /\ y.on = KeyAt(i) /\ y.ki = i /\ y.eof = cur[c].eof
<1>1. cur[c] \in Cursor
  BY DEF TypeOK
<1> DEFINE k == KeyAt(i)
           a == At(c, i)
           y == [a EXCEPT !.del = FALSE]
<1>2. k \in Keys
  OBVIOUS
<1>3. a = [cur[c] EXCEPT !.init = TRUE, !.ki = i, !.on = k, !.lost = FALSE, !.alone = TRUE]
  BY DEF At
<1> HIDE DEF k, a
<1>4. a \in Cursor
  BY <1>1, <1>2, <1>3, Zenon DEF Cursor
<1>5. SameLife(cur[c], a) /\ a.init = TRUE /\ a.lost = FALSE /\ a.ki = i
      /\ a.on = k /\ a.eof = cur[c].eof
  BY <1>1, <1>3, Zenon DEF Cursor, SameLife
<1>6. y \in Cursor /\ SameLife(a, y) /\ y.init = a.init /\ y.ki = a.ki
      /\ y.on = a.on /\ y.lost = a.lost /\ y.eof = a.eof /\ y.del = FALSE
  BY <1>4, Zenon DEF Cursor, SameLife
<1>7. SameLife(cur[c], y)
  BY <1>5, <1>6, Zenon DEF SameLife
<1> QED BY <1>5, <1>6, <1>7, Zenon DEF k, a, MovedOn

\* A move that reports the record at index i: C_EOF is set only at the last one.
LEMMA ReportStep ==
  ASSUME IInv, NEW c \in Cursors, Usable(c), NEW i \in Nat, i < NUMKEYS,
         \/ \E e \in BOOLEAN : (e => i + 1 >= NUMKEYS) /\ Get(c, [At(c, i) EXCEPT !.eof = e])
         \/ ~cur[c].eof /\ Get(c, At(c, i))
  PROVE  IInv'
<1>1. TypeOK
  BY DEF IInv
<1>2. tab \in Table /\ KeyAt(i) \in tab /\ KeyAt(i) \in Keys /\ Rk(tab, KeyAt(i)) = i
  BY <1>1, KeyAtRank
<1>3. ASSUME NEW e \in BOOLEAN, e => i + 1 >= NUMKEYS, Get(c, [At(c, i) EXCEPT !.eof = e])
      PROVE  IInv'
  <2> DEFINE y == Moved(c, i, e)
  <2>1. y \in Cursor /\ SameLife(cur[c], y) /\ y.init = TRUE /\ y.del = FALSE /\ y.lost = FALSE
        /\ y.on = KeyAt(i) /\ y.ki = i /\ y.eof = e
    BY <1>1, <1>2, MovedFields, Zenon
  <2>2. cur' = [cur EXCEPT ![c] = y] /\ UNCHANGED <<txn, tab, proc>>
    BY <1>3, Zenon DEF Get, Moved
  <2> HIDE DEF y
  <2>3. Sound(y, tab)
    BY <1>2, <1>3, <2>1, ReportSound DEF NUMKEYS
  <2> QED BY <2>1, <2>2, <2>3, MoveStep
<1>4. ASSUME ~cur[c].eof, Get(c, At(c, i))
      PROVE  IInv'
  <2> DEFINE y == MovedOn(c, i)
  <2>1. y \in Cursor /\ SameLife(cur[c], y) /\ y.init = TRUE /\ y.del = FALSE /\ y.lost = FALSE
        /\ y.on = KeyAt(i) /\ y.ki = i /\ y.eof = cur[c].eof
    BY <1>1, <1>2, MovedOnFields, Zenon
  <2>2. cur' = [cur EXCEPT ![c] = y] /\ UNCHANGED <<txn, tab, proc>>
    BY <1>4, Zenon DEF Get, MovedOn
  <2> HIDE DEF y
  <2>3. Sound(y, tab)
    BY <1>2, <1>4, <2>1, ReportSound DEF NUMKEYS
  <2> QED BY <2>1, <2>2, <2>3, MoveStep
<1> QED BY <1>3, <1>4

\* Facts about the table and a cursor that every move below uses.
LEMMA Facts ==
  ASSUME IInv, NEW c \in Cursors, Usable(c)
  PROVE  /\ TypeOK /\ tab \in Table /\ cur[c] \in Cursor /\ Sound(cur[c], tab)
         /\ NUMKEYS \in Nat /\ NUMKEYS = Cardinality(tab) /\ \A k : Rank(k) = Rk(tab, k)
         /\ cur[c].ki \in Nat /\ cur[c].init \in BOOLEAN /\ (tab # {} <=> NUMKEYS > 0)
<1>1. TypeOK /\ tab \in Table /\ cur[c] \in Cursor
  BY DEF IInv, TypeOK, Table
<1>2. Sound(cur[c], tab)
  BY DEF IInv, Usable
<1>3. NUMKEYS \in Nat /\ NUMKEYS = Cardinality(tab)
  BY <1>1, RkBounds DEF NUMKEYS
<1>4. tab # {} <=> NUMKEYS > 0
  <2>1. IsFiniteSet(tab)
    BY <1>1 DEF TypeOK
  <2>2. NUMKEYS = 0 <=> tab = {}
    BY <1>3, <2>1, FS_EmptySet
  <2> QED BY <1>3, <2>2
<1>5. \A k : Rank(k) = Rk(tab, k)
  BY DEF Rank, Rk, Below
<1>6. cur[c].ki \in Nat /\ cur[c].init \in BOOLEAN
  BY <1>1, Fields
<1> QED BY <1>1, <1>2, <1>3, <1>4, <1>5, <1>6

\* A move on a cursor without a position that finds nothing.
LEMMA StayStep ==
  ASSUME IInv, NEW c \in Cursors, Usable(c), ~cur[c].init, Get(c, cur[c])
  PROVE  IInv'
<1> DEFINE x == cur[c]
           y == [x EXCEPT !.del = FALSE]
<1>1. x \in Cursor
  BY Facts
<1>2. cur' = [cur EXCEPT ![c] = y] /\ UNCHANGED <<txn, tab, proc>>
  BY Zenon DEF Get
<1>3. ~x.init
  OBVIOUS
<1> HIDE DEF x
<1>4. y \in Cursor /\ SameLife(x, y) /\ y.init = x.init
  BY <1>1, Zenon DEF Cursor, SameLife
<1> HIDE DEF y
<1>5. Sound(y, tab)
  BY <1>3, <1>4, Zenon DEF Sound
<1>6. SameLife(cur[c], y)
  BY <1>4 DEF x
<1> QED BY <1>2, <1>4, <1>5, <1>6, MoveStep

\* next() that meets the end.
LEMMA EndStep ==
  ASSUME IInv, NEW c \in Cursors, Usable(c), cur[c].init, Get(c, [cur[c] EXCEPT !.eof = TRUE]),
         cur[c].eof \/ (IF cur[c].del THEN cur[c].ki ELSE cur[c].ki + 1) >= NUMKEYS
  PROVE  IInv'
<1> DEFINE x == cur[c]
           y == [[x EXCEPT !.eof = TRUE] EXCEPT !.del = FALSE]
<1>1. x \in Cursor /\ Sound(x, tab) /\ tab \in Table /\ NUMKEYS = Cardinality(tab)
      /\ NUMKEYS \in Nat /\ x.ki \in Nat
  BY Facts
<1>2. cur' = [cur EXCEPT ![c] = y] /\ UNCHANGED <<txn, tab, proc>>
  BY Zenon DEF Get
<1>3. x.init /\ (x.eof \/ (IF x.del THEN x.ki ELSE x.ki + 1) >= NUMKEYS)
  OBVIOUS
<1> HIDE DEF x
<1>4. y \in Cursor /\ SameLife(x, y) /\ y.init = x.init /\ y.eof = TRUE /\ y.del = FALSE
      /\ y.ki = x.ki /\ y.on = x.on /\ y.lost = x.lost /\ y.alone = x.alone
  BY <1>1, Zenon DEF Cursor, SameLife
<1> HIDE DEF y
<1>5. ASSUME x.alone PROVE \A k \in tab : k <= x.on
  <2>1. x.on \in Keys /\ x.ki = Rk(tab, x.on)
    BY <1>1, <1>3, <1>5 DEF Sound
  <2>2. CASE x.eof
    BY <1>1, <1>3, <1>5, <2>2, Zenon DEF Sound
  <2>3. CASE ~x.eof /\ x.del
    BY <1>1, <1>3, <2>1, <2>3, RkLast
  <2>4. CASE ~x.eof /\ ~x.del
    <3>1. x.on \in tab \/ \A k \in tab : k <= x.on
      BY <1>1, <1>3, <1>5, <2>4, Zenon DEF Sound
    <3>2. x.on \in tab => \A k \in tab : k <= x.on
      BY <1>1, <1>3, <2>1, <2>4, RkLast
    <3> QED BY <3>1, <3>2
  <2> QED BY <2>2, <2>3, <2>4
<1>6. Sound(y, tab)
  <2>1. x.on \in Keys /\ tab # {} /\ x.ki <= Cardinality(tab) /\ (~x.lost => x.ki = Rk(tab, x.on))
        /\ (x.alone => ~x.lost)
    BY <1>1, <1>3, Zenon DEF Sound
  <2> QED BY <1>4, <1>5, <2>1, Zenon DEF Sound
<1>7. SameLife(cur[c], y)
  BY <1>4 DEF x
<1> QED BY <1>2, <1>4, <1>6, <1>7, MoveStep

\* prev() that meets the start.
LEMMA StartStep ==
  ASSUME IInv, NEW c \in Cursors, Usable(c), cur[c].init, Get(c, [cur[c] EXCEPT !.alone = FALSE])
  PROVE  IInv'
<1> DEFINE x == cur[c]
           y == [[x EXCEPT !.alone = FALSE] EXCEPT !.del = FALSE]
<1>1. x \in Cursor /\ Sound(x, tab)
  BY Facts
<1>2. cur' = [cur EXCEPT ![c] = y] /\ UNCHANGED <<txn, tab, proc>>
  BY Zenon DEF Get
<1>3. x.init
  OBVIOUS
<1> HIDE DEF x
<1>4. y \in Cursor /\ SameLife(x, y) /\ y.init = x.init /\ y.alone = FALSE /\ y.del = FALSE
      /\ y.ki = x.ki /\ y.on = x.on /\ y.lost = x.lost
  BY <1>1, Zenon DEF Cursor, SameLife
<1> HIDE DEF y
<1>5. Sound(y, tab)
  BY <1>1, <1>3, <1>4, Zenon DEF Sound
<1>6. SameLife(cur[c], y)
  BY <1>4 DEF x
<1> QED BY <1>2, <1>4, <1>5, <1>6, MoveStep

\* A cursor at the place where key k would be, and with a position, is sound
\* unless the table is empty.
LEMMA SoughtSound ==
  ASSUME NEW T \in Table, T # {}, NEW k \in Keys, NEW y,
         y.on = k, y.ki = Rk(T, k), y.del = FALSE, y.alone = FALSE
  PROVE  Sound(y, T)
<1>1. Rk(T, k) <= Cardinality(T)
  BY RkBounds
<1> QED BY <1>1, Zenon DEF Sound

\* seek() and gte() that find nothing.
LEMMA MissedStep ==
  ASSUME IInv, NEW c \in Cursors, Usable(c), NEW k \in Keys, Missed(c, k)
  PROVE  IInv'
<1> DEFINE x == cur[c]
           i == Rank(k)
           s == [x EXCEPT !.ki = i, !.on = k, !.lost = FALSE, !.alone = FALSE]
<1>1. x \in Cursor /\ Sound(x, tab) /\ tab \in Table /\ i = Rk(tab, k)
  BY Facts
<1>2. i \in Nat
  BY <1>1, RkBounds
<1>3. CASE ~x.init /\ tab = {} /\ Get(c, x)
  BY <1>3, StayStep
<1>4. CASE x.init /\ Get(c, s)
  <2> DEFINE y == [s EXCEPT !.del = FALSE]
  <2>1. cur' = [cur EXCEPT ![c] = y] /\ UNCHANGED <<txn, tab, proc>>
    BY <1>4, Zenon DEF Get
  <2>2. tab # {}
    BY <1>1, <1>4, Zenon DEF Sound
  <2> HIDE DEF x, i
  <2>3. s \in Cursor
    BY <1>1, <1>2, Zenon DEF Cursor
  <2>4. SameLife(x, s) /\ s.ki = i /\ s.on = k /\ s.alone = FALSE
    BY <1>1, Zenon DEF Cursor, SameLife
  <2> HIDE DEF s
  <2>5. y \in Cursor /\ SameLife(s, y) /\ y.ki = s.ki /\ y.on = s.on /\ y.alone = s.alone
        /\ y.del = FALSE
    BY <2>3, Zenon DEF Cursor, SameLife
  <2> HIDE DEF y
  <2>6. Sound(y, tab)
    BY <1>1, <2>2, <2>4, <2>5, SoughtSound
  <2>7. SameLife(cur[c], y)
    BY <2>4, <2>5, Zenon DEF SameLife, x
  <2> QED BY <2>1, <2>5, <2>6, <2>7, MoveStep
<1>5. CASE tab # {} /\ Get(c, [s EXCEPT !.init = TRUE, !.eof = FALSE])
  <2> DEFINE y == [[s EXCEPT !.init = TRUE, !.eof = FALSE] EXCEPT !.del = FALSE]
  <2>1. cur' = [cur EXCEPT ![c] = y] /\ UNCHANGED <<txn, tab, proc>>
    BY <1>5, Zenon DEF Get
  <2> HIDE DEF x, i
  <2>2. s \in Cursor
    BY <1>1, <1>2, Zenon DEF Cursor
  <2>3. SameLife(x, s) /\ s.ki = i /\ s.on = k /\ s.alone = FALSE
    BY <1>1, Zenon DEF Cursor, SameLife
  <2> HIDE DEF s
  <2>4. y \in Cursor /\ SameLife(s, y) /\ y.ki = s.ki /\ y.on = s.on /\ y.alone = s.alone
        /\ y.del = FALSE
    BY <2>2, Zenon DEF Cursor, SameLife
  <2> HIDE DEF y
  <2>5. Sound(y, tab)
    BY <1>1, <1>5, <2>3, <2>4, SoughtSound
  <2>6. SameLife(cur[c], y)
    BY <2>3, <2>4, Zenon DEF SameLife, x
  <2> QED BY <2>1, <2>4, <2>5, <2>6, MoveStep
<1> QED BY <1>3, <1>4, <1>5, Zenon DEF Missed

\* key() and val().
LEMMA CurrentStep ==
  ASSUME IInv, NEW c \in Cursors, GetCurrent(c)
  PROVE  IInv'
<1>0. Usable(c)
  BY DEF GetCurrent
<1> DEFINE x == cur[c]
<1>1. x \in Cursor /\ Sound(x, tab) /\ tab \in Table /\ NUMKEYS = Cardinality(tab)
      /\ NUMKEYS \in Nat /\ x.ki \in Nat /\ TypeOK
  BY <1>0, Facts
<1>2. CASE ~x.init /\ Get(c, x)
  BY <1>0, <1>2, StayStep
<1>3. CASE x.init /\ x.ki >= NUMKEYS /\ Get(c, [x EXCEPT !.ki = NUMKEYS])
  <2> DEFINE y == [[x EXCEPT !.ki = NUMKEYS] EXCEPT !.del = FALSE]
  <2>1. cur' = [cur EXCEPT ![c] = y] /\ UNCHANGED <<txn, tab, proc>> /\ x.init
    BY <1>3, Zenon DEF Get
  <2>2. x.ki = NUMKEYS
    <3>1. x.ki <= Cardinality(tab)
      BY <1>1, <2>1, Zenon DEF Sound
    <3> QED BY <1>1, <1>3, <3>1
  <2> HIDE DEF x
  <2>3. y \in Cursor /\ SameLife(x, y) /\ y.init = x.init /\ y.eof = x.eof /\ y.del = FALSE
        /\ y.ki = NUMKEYS /\ y.on = x.on /\ y.lost = x.lost /\ y.alone = x.alone
    BY <1>1, Zenon DEF Cursor, SameLife
  <2> HIDE DEF y
  <2>4. ASSUME x.alone PROVE ~x.lost /\ \A k \in tab : k <= x.on
    <3>1. x.on \in Keys /\ ~x.lost /\ x.ki = Rk(tab, x.on)
      BY <1>1, <2>1, <2>4, Zenon DEF Sound
    <3>2. Rk(tab, x.on) >= Cardinality(tab)
      BY <1>1, <2>2, <3>1
    <3>3. \A k \in tab : k <= x.on
      BY <1>1, <3>1, <3>2, RkLast
    <3> QED BY <3>1, <3>3
  <2>5. Sound(y, tab)
    <3>1. x.on \in Keys /\ tab # {} /\ x.ki <= Cardinality(tab) /\ (~x.lost => x.ki = Rk(tab, x.on))
      BY <1>1, <2>1, Zenon DEF Sound
    <3> QED BY <2>2, <2>3, <2>4, <3>1, Zenon DEF Sound
  <2>6. SameLife(cur[c], y)
    BY <2>3 DEF x
  <2> QED BY <1>0, <2>1, <2>3, <2>5, <2>6, MoveStep
<1>4. CASE x.init /\ x.ki < NUMKEYS /\ Get(c, [x EXCEPT !.on = KeyAt(x.ki), !.lost = FALSE])
  <2> DEFINE k == KeyAt(x.ki)
             y == [[x EXCEPT !.on = k, !.lost = FALSE] EXCEPT !.del = FALSE]
  <2>1. cur' = [cur EXCEPT ![c] = y] /\ UNCHANGED <<txn, tab, proc>> /\ x.init
    BY <1>4, Zenon DEF Get
  <2>2. k \in tab /\ k \in Keys /\ Rk(tab, k) = x.ki
    BY <1>1, <1>4, KeyAtRank
  <2> HIDE DEF x, k
  <2>3. y \in Cursor /\ SameLife(x, y) /\ y.init = x.init /\ y.eof = x.eof /\ y.del = FALSE
        /\ y.ki = x.ki /\ y.on = k /\ y.lost = FALSE /\ y.alone = x.alone
    BY <1>1, <2>2, Zenon DEF Cursor, SameLife
  <2> HIDE DEF y
  <2>4. ASSUME x.alone, x.eof PROVE \A j \in tab : j <= k
    <3>1. x.on \in Keys /\ x.ki = Rk(tab, x.on) /\ \A j \in tab : j <= x.on
      BY <1>1, <2>1, <2>4, Zenon DEF Sound
    <3>2. x.on <= k
      BY <1>1, <2>2, <3>1, RkNeighbour
    <3>3. \A j \in tab : j \in Nat
      BY <1>1, KeysAreNumbers DEF Table
    <3>4. k \in Nat /\ x.on \in Nat
      BY <2>2, <3>1, KeysAreNumbers
    <3> QED BY <3>1, <3>2, <3>3, <3>4
  <2>5. Sound(y, tab)
    <3>1. tab # {} /\ x.ki <= Cardinality(tab)
      BY <1>1, <2>1, Zenon DEF Sound
    <3> QED BY <2>2, <2>3, <2>4, <3>1, Zenon DEF Sound
  <2>6. SameLife(cur[c], y)
    BY <2>3 DEF x
  <2> QED BY <1>0, <2>1, <2>3, <2>5, <2>6, MoveStep
<1> QED BY <1>2, <1>3, <1>4 DEF GetCurrent

\* A call on memory that is no cursor any more ends the analysis.
LEMMA UndefinedStep ==
  ASSUME IInv, proc' = "undefined", UNCHANGED <<txn, tab, cur>>
  PROVE  IInv'
<1>1. TypeOK'
  BY DEF IInv, TypeOK
<1>2. \A c \in Cursors : Life(cur[c], txn, proc)
  BY DEF IInv
<1>3. \A c \in Cursors : Life(cur'[c], txn', proc')
  <2> SUFFICES ASSUME NEW c \in Cursors PROVE Life(cur'[c], txn', proc')
    OBVIOUS
  <2>1. Life(cur[c], txn, proc) /\ proc' # "up" /\ cur' = cur /\ txn' = txn
    BY <1>2
  <2> QED BY <2>1, Zenon DEF Life
<1> QED BY <1>1, <1>3 DEF IInv

\* A cursor of an empty table has no position.
LEMMA NoPosition ==
  ASSUME IInv, NEW c \in Cursors, Usable(c), tab = {}
  PROVE  ~cur[c].init
BY Facts, Zenon DEF Sound

\* The moves preserve the invariant.
LEMMA MovesStep ==
  ASSUME IInv, NEW c \in Cursors,
         First(c) \/ Last(c) \/ NextMove(c) \/ PrevMove(c) \/ Next0(c) \/ Prev0(c)
  PROVE  IInv'
<1>0. Usable(c)
  BY DEF First, Last, NextMove, PrevMove, Next0, Prev0
<1>1. NUMKEYS \in Nat /\ (tab # {} <=> NUMKEYS > 0) /\ cur[c].ki \in Nat
  BY <1>0, Facts
<1>2. ASSUME First(c) PROVE IInv'
  <2>1. CASE tab = {} /\ Get(c, cur[c])
    BY <1>0, <2>1, NoPosition, StayStep
  <2>2. CASE tab # {} /\ Get(c, [At(c, 0) EXCEPT !.eof = FALSE])
    BY <1>0, <1>1, <2>2, ReportStep
  <2> QED BY <1>2, <2>1, <2>2 DEF First
<1>3. CASE Last(c)
  <2>1. CASE proc' = "undefined" /\ UNCHANGED <<txn, tab, cur>>
    BY <2>1, UndefinedStep
  <2>2. CASE tab = {} /\ Get(c, cur[c])
    BY <1>0, <2>2, NoPosition, StayStep
  <2>3. CASE tab # {} /\ Get(c, [At(c, NUMKEYS - 1) EXCEPT !.eof = TRUE])
    <3>1. NUMKEYS - 1 \in Nat /\ NUMKEYS - 1 < NUMKEYS /\ (NUMKEYS - 1) + 1 >= NUMKEYS
      BY <1>1, <2>3
    <3> QED BY <1>0, <2>3, <3>1, ReportStep
  <2> QED BY <1>3, <2>1, <2>2, <2>3 DEF Last
<1>4. CASE NextMove(c)
  <2> DEFINE i == IF cur[c].del THEN cur[c].ki ELSE cur[c].ki + 1
  <2>1. i \in Nat
    BY <1>1
  <2>2. CASE (cur[c].eof \/ i >= NUMKEYS) /\ Get(c, [cur[c] EXCEPT !.eof = TRUE])
    <3>1. cur[c].init
      BY <1>4 DEF NextMove
    <3> QED BY <1>0, <2>2, <3>1, EndStep
  <2>3. CASE ~cur[c].eof /\ i < NUMKEYS /\ Get(c, At(c, i))
    <3> HIDE DEF i
    <3> QED BY <1>0, <2>1, <2>3, ReportStep
  <2> QED BY <1>4, <2>2, <2>3 DEF NextMove
<1>5. CASE PrevMove(c)
  <2>1. cur[c].init
    BY <1>5 DEF PrevMove
  <2>2. CASE Get(c, [cur[c] EXCEPT !.alone = FALSE])
    BY <1>0, <2>1, <2>2, StartStep
  <2>3. CASE cur[c].ki > 0 /\ Get(c, [At(c, cur[c].ki - 1) EXCEPT !.eof = FALSE])
    <3>1. cur[c].ki <= NUMKEYS
      BY <1>0, <2>1, Facts, Zenon DEF Sound
    <3>2. cur[c].ki - 1 \in Nat /\ cur[c].ki - 1 < NUMKEYS
      BY <1>1, <2>3, <3>1
    <3> QED BY <1>0, <2>3, <3>2, ReportStep
  <2> QED BY <1>5, <2>2, <2>3 DEF PrevMove
<1>6. CASE Next0(c)
  BY <1>2, <1>6 DEF Next0
<1>7. CASE Prev0(c)
  <2>1. CASE proc' = "undefined" /\ UNCHANGED <<txn, tab, cur>>
    BY <2>1, UndefinedStep
  <2>2. CASE tab = {} /\ Get(c, cur[c])
    BY <1>0, <2>2, NoPosition, StayStep
  <2>3. CASE ~cur[c].eof /\ tab # {} /\ Get(c, At(c, NUMKEYS - 1))
    <3>1. NUMKEYS - 1 \in Nat /\ NUMKEYS - 1 < NUMKEYS
      BY <1>1, <2>3
    <3> QED BY <1>0, <2>3, <3>1, ReportStep
  <2> QED BY <1>7, <2>1, <2>2, <2>3 DEF Prev0
<1> QED BY <1>2, <1>3, <1>4, <1>5, <1>6, <1>7

\* seek() and gte() preserve the invariant.
LEMMA SeeksStep ==
  ASSUME IInv, NEW c \in Cursors, NEW k \in Keys, Seek(c, k) \/ Gte(c, k)
  PROVE  IInv'
<1>0. Usable(c)
  BY DEF Seek, Gte
<1>1. NUMKEYS \in Nat /\ NUMKEYS = Cardinality(tab) /\ tab \in Table /\ \A j : Rank(j) = Rk(tab, j)
  BY <1>0, Facts
<1>2. ASSUME NEW j \in tab, Found(c, j) PROVE IInv'
  <2>1. Rank(j) \in Nat /\ Rank(j) < NUMKEYS
    BY <1>1, RkBounds, RkRecord
  <2> QED BY <1>0, <1>2, <2>1, ReportStep DEF Found
<1>3. ASSUME Missed(c, k) PROVE IInv'
  BY <1>0, <1>3, MissedStep
<1>4. CASE Seek(c, k)
  BY <1>2, <1>3, <1>4 DEF Seek
<1>5. CASE Gte(c, k)
  BY <1>2, <1>3, <1>5 DEF Gte
<1> QED BY <1>4, <1>5

-----------------------------------------------------------------------------
(* Transactions, and the life of a cursor.                                 *)

\* What is left of a cursor has its life, and no position.
LEMMA RemainsFields ==
  ASSUME NEW x \in Cursor
  PROVE  Remains(x) \in Cursor /\ SameLife(x, Remains(x)) /\ Remains(x).init = FALSE
<1>1. x.ptr \in BOOLEAN /\ x.tracked \in BOOLEAN /\ x.frees \in Nat /\ x.stale \in BOOLEAN
      /\ x.outlived \in BOOLEAN
  BY Fields
<1>2. Closed \in Cursor /\ Closed.init = FALSE
  BY DEF Closed, Cursor
<1> DEFINE y == [Closed EXCEPT !.ptr = x.ptr, !.tracked = x.tracked, !.frees = x.frees,
                               !.stale = x.stale, !.outlived = x.outlived]
<1>3. y \in Cursor
  BY <1>1, <1>2, Zenon DEF Cursor
<1>4. SameLife(x, y) /\ y.init = Closed.init
  BY <1>2, Zenon DEF Cursor, SameLife
<1>5. Remains(x) = y
  BY Zenon DEF Remains
<1> QED BY <1>2, <1>3, <1>4, <1>5, Zenon

\* A cursor without a position is sound.
LEMMA NoPositionSound == ASSUME NEW x, x.init = FALSE, NEW T PROVE Sound(x, T)
BY Zenon DEF Sound

\* The initial state.
LEMMA InitInv == Init => IInv
<1> SUFFICES ASSUME Init PROVE IInv
  OBVIOUS
<1>1. Closed \in Cursor /\ Closed.init = FALSE /\ Closed.ptr = FALSE /\ Closed.tracked = FALSE
      /\ Closed.frees = 0
  BY DEF Closed, Cursor
<1>2. \A c \in Cursors : cur[c] = Closed
  BY DEF Init
<1>3. TypeOK
  <2>1. IsFiniteSet(tab)
    BY FS_EmptySet DEF Init
  <2>2. cur \in [Cursors -> Cursor] /\ \A c \in Cursors : cur[c].init = FALSE
    BY <1>1, <1>2 DEF Init
  <2> QED BY <2>1, <2>2 DEF Init, TypeOK
<1>4. Life(Closed, txn, proc)
  BY <1>1 DEF Life
<1>5. Sound(Closed, tab)
  BY <1>1, NoPositionSound
<1> QED BY <1>2, <1>3, <1>4, <1>5, Zenon DEF IInv

\* A transaction begins, or is renewed.
LEMMA BeginStep ==
  ASSUME IInv, NEW kind \in {"ro", "rw"}, Begin(kind) PROVE IInv'
<1>1. proc = "up" /\ cur' = cur /\ proc' = proc /\ txn' = kind /\ txn \in {"none", "reset"}
      /\ (txn = "reset" => kind = "ro") /\ tab' \in SUBSET Keys
  BY DEF Begin
<1>2. IsFiniteSet(tab')
  BY <1>1, KeysAreNumbers, FS_Subset
<1>3. TypeOK'
  BY <1>1, <1>2 DEF IInv, TypeOK
<1>4. ASSUME NEW c \in Cursors PROVE Life(cur'[c], txn', proc') /\ Sound(cur'[c], tab')
  <2> DEFINE x == cur[c]
  <2>1. Life(x, txn, proc) /\ x \in Cursor
    BY DEF IInv, TypeOK
  <2>2. cur'[c] = x
    BY <1>1
  <2> HIDE DEF x
  <2>3. x.init \in BOOLEAN
    BY <2>1, Fields
  <2>4. x.init = FALSE
    BY <1>1, <2>1, <2>3 DEF Life
  <2>5. Life(x, kind, proc)
    <3>1. CASE txn = "reset"
      BY <1>1, <2>1, <2>4, <3>1 DEF Life
    <3>2. CASE txn = "none"
      BY <1>1, <2>1, <2>4, <3>2 DEF Life
    <3> QED BY <1>1, <3>1, <3>2
  <2> QED BY <1>1, <2>2, <2>4, <2>5, NoPositionSound, Zenon
<1> QED BY <1>3, <1>4 DEF IInv

\* Any step that leaves every cursor alive as Life says, and takes positions
\* away or leaves them.
LEMMA LifeStep ==
  ASSUME IInv, txn' \in {"none", "rw", "ro", "reset"}, tab' \subseteq Keys, IsFiniteSet(tab'),
         cur' \in [Cursors -> Cursor], proc' \in {"up", "undefined"}, proc = "up",
         \A c \in Cursors : /\ Life(cur'[c], txn', proc')
                            /\ cur'[c].init = FALSE \/ (cur'[c] = cur[c] /\ tab' = tab)
  PROVE  IInv'
<1>1. \A c \in Cursors : Sound(cur[c], tab)
  BY DEF IInv
<1>2. \A c \in Cursors : Sound(cur'[c], tab')
  BY <1>1, NoPositionSound, Zenon
<1>3. \A c \in Cursors : cur'[c].init => cur'[c].on \in Keys
  BY <1>2, Zenon DEF Sound
<1>4. TypeOK'
  BY <1>3 DEF TypeOK
<1> QED BY <1>2, <1>4 DEF IInv

\* The end of a transaction.
LEMMA EndTxnStep == ASSUME IInv, EndTxn PROVE IInv'
<1>1. proc = "up" /\ proc' = proc /\ txn' = "none" /\ tab' = {}
      /\ cur' = [c \in Cursors |-> Outlive(cur[c])]
  BY DEF EndTxn
<1>2. ASSUME NEW c \in Cursors
      PROVE  /\ Outlive(cur[c]) \in Cursor /\ Outlive(cur[c]).init = FALSE
             /\ Life(Outlive(cur[c]), "none", "up")
  <2> DEFINE x == cur[c]
             f == IF x.tracked THEN x.frees + 1 ELSE x.frees
             z == [x EXCEPT !.frees = f, !.tracked = FALSE, !.stale = x.ptr, !.outlived = x.ptr]
             y == Remains(z)
  <2>1. x \in Cursor /\ Life(x, txn, "up")
    BY <1>1 DEF IInv, TypeOK
  <2>2. Outlive(x) = y
    BY Zenon DEF Outlive
  <2> HIDE DEF x
  <2>3. x.ptr \in BOOLEAN /\ x.frees \in Nat /\ x.tracked \in BOOLEAN /\ x.outlived \in BOOLEAN
    BY <2>1, Fields
  <2>4. f \in Nat
    BY <2>3
  <2>5. f <= 1
    <3>1. x.frees <= 1
      BY <2>1, Zenon DEF Life
    <3>2. x.tracked => x.frees = 0
      BY <2>1, Zenon DEF Life
    <3> QED BY <2>3, <3>1, <3>2
  <2> HIDE DEF f
  <2>6. z \in Cursor
    BY <2>1, <2>3, <2>4, Zenon DEF Cursor
  <2>7. z.ptr = x.ptr /\ z.tracked = FALSE /\ z.frees = f /\ z.stale = x.ptr /\ z.outlived = x.ptr
    BY <2>1, Zenon DEF Cursor
  <2> HIDE DEF z
  <2>8. y \in Cursor /\ SameLife(z, y) /\ y.init = FALSE
    BY <2>6, RemainsFields
  <2> HIDE DEF y
  <2>9. y.ptr = x.ptr /\ y.tracked = FALSE /\ y.frees = f /\ y.stale = x.ptr /\ y.outlived = x.ptr
    BY <2>7, <2>8, Zenon DEF SameLife
  <2>10. Life(y, "none", "up")
    BY <2>5, <2>8, <2>9, Zenon DEF Life
  <2> QED BY <2>2, <2>8, <2>10 DEF x
<1>3. cur' \in [Cursors -> Cursor]
  BY <1>1, <1>2
<1>4. \A c \in Cursors : Life(cur'[c], txn', proc') /\ cur'[c].init = FALSE
  BY <1>1, <1>2
<1>5. IsFiniteSet(tab') /\ tab' \subseteq Keys
  BY <1>1, FS_EmptySet
<1> QED BY <1>1, <1>3, <1>4, <1>5, LifeStep

\* The reset of a read-only transaction.
LEMMA ResetTxnStep == ASSUME IInv, ResetTxn PROVE IInv'
<1> DEFINE n(c) == IF cur[c].init THEN Remains([cur[c] EXCEPT !.stale = TRUE]) ELSE cur[c]
<1>1. proc = "up" /\ proc' = proc /\ txn = "ro" /\ txn' = "reset" /\ tab' = tab
      /\ cur' = [c \in Cursors |-> n(c)]
  BY DEF ResetTxn
<1>2. ASSUME NEW c \in Cursors
      PROVE  n(c) \in Cursor /\ Life(n(c), "reset", "up") /\ n(c).init = FALSE
  <2> DEFINE x == cur[c]
             z == [x EXCEPT !.stale = TRUE]
             y == Remains(z)
  <2>1. x \in Cursor /\ Life(x, "ro", "up")
    BY <1>1 DEF IInv, TypeOK
  <2>2. n(c) = IF x.init THEN y ELSE x
    OBVIOUS
  <2> HIDE DEF x, n
  <2>3. x.init \in BOOLEAN
    BY <2>1, Fields
  <2>4. z \in Cursor
    BY <2>1, Zenon DEF Cursor
  <2>5. z.ptr = x.ptr /\ z.tracked = x.tracked /\ z.frees = x.frees /\ z.stale = TRUE
        /\ z.outlived = x.outlived
    BY <2>1, Zenon DEF Cursor
  <2> HIDE DEF z
  <2>6. y \in Cursor /\ SameLife(z, y) /\ y.init = FALSE
    BY <2>4, RemainsFields
  <2> HIDE DEF y
  <2>7. Life(y, "reset", "up")
    BY <2>1, <2>5, <2>6, Zenon DEF Life, SameLife
  <2>8. ~x.init => Life(x, "reset", "up")
    BY <2>1, Zenon DEF Life
  <2> QED BY <2>1, <2>2, <2>3, <2>6, <2>7, <2>8
<1> HIDE DEF n
<1>3. cur' \in [Cursors -> Cursor]
  BY <1>1, <1>2
<1>4. \A c \in Cursors : Life(cur'[c], txn', proc') /\ cur'[c].init = FALSE
  BY <1>1, <1>2
<1>5. IsFiniteSet(tab') /\ tab' \subseteq Keys
  BY <1>1 DEF IInv, TypeOK
<1> QED BY <1>1, <1>3, <1>4, <1>5, LifeStep

\* A step that replaces one cursor by one without a position.
LEMMA ReplaceStep ==
  ASSUME IInv, proc = "up", NEW c \in Cursors, NEW y \in Cursor, y.init = FALSE,
         cur' = [cur EXCEPT ![c] = y], proc' \in {"up", "undefined"},
         Life(y, txn, proc'), UNCHANGED <<txn, tab>>
  PROVE  IInv'
<1>1. cur \in [Cursors -> Cursor] /\ tab \subseteq Keys /\ IsFiniteSet(tab)
      /\ txn \in {"none", "rw", "ro", "reset"}
  BY DEF IInv, TypeOK
<1>2. cur' \in [Cursors -> Cursor] /\ cur'[c] = y /\ \A d \in Cursors : d # c => cur'[d] = cur[d]
  BY <1>1
<1>3. ASSUME NEW d \in Cursors PROVE Life(cur[d], txn, proc')
  <2>1. Life(cur[d], txn, "up")
    BY DEF IInv
  <2> QED BY <2>1, Zenon DEF Life
<1>4. \A d \in Cursors : /\ Life(cur'[d], txn', proc')
                         /\ cur'[d].init = FALSE \/ (cur'[d] = cur[d] /\ tab' = tab)
  BY <1>2, <1>3, Zenon
<1> QED BY <1>1, <1>2, <1>4, LifeStep

\* A cursor is opened.
LEMMA OpenStep == ASSUME IInv, NEW c \in Cursors, OpenCursor(c) PROVE IInv'
<1>1. proc = "up" /\ proc' = proc /\ txn \in {"ro", "rw"} /\ cur' = [cur EXCEPT ![c] = Opened]
      /\ UNCHANGED <<txn, tab>>
  BY DEF OpenCursor
<1> DEFINE w == (txn = "rw")
           y == [Closed EXCEPT !.ptr = TRUE, !.tracked = w]
<1>2. w \in BOOLEAN /\ (w <=> txn = "rw")
  OBVIOUS
<1>3. Opened = y
  BY Zenon DEF Opened
<1>4. Closed \in Cursor /\ Closed.init = FALSE /\ Closed.frees = 0 /\ Closed.stale = FALSE
      /\ Closed.outlived = FALSE
  BY DEF Closed, Cursor
<1> HIDE DEF w
<1>5. y \in Cursor
  BY <1>2, <1>4, Zenon DEF Cursor
<1>6. y.ptr = TRUE /\ y.tracked = w /\ y.frees = Closed.frees /\ y.stale = Closed.stale
      /\ y.init = Closed.init /\ y.outlived = Closed.outlived
  BY <1>4, Zenon DEF Cursor
<1> HIDE DEF y
<1>7. y.frees = 0 /\ y.init = FALSE /\ y.outlived = FALSE /\ y.frees <= 1
  BY <1>4, <1>6
<1>8. Life(y, txn, proc)
  BY <1>1, <1>2, <1>6, <1>7, Zenon DEF Life
<1> QED BY <1>1, <1>3, <1>5, <1>7, <1>8, ReplaceStep

\* A cursor is closed.
LEMMA CloseStep == ASSUME IInv, NEW c \in Cursors, Close(c) PROVE IInv'
<1> DEFINE x == cur[c]
           f == x.frees + 1
           z == [x EXCEPT !.ptr = FALSE, !.frees = f, !.tracked = FALSE]
           y == Remains(z)
<1>1. proc = "up" /\ x.ptr /\ UNCHANGED <<txn, tab>>
      /\ proc' = (IF x.frees > 0 THEN "undefined" ELSE proc)
  BY DEF Close
<1>2. cur' = [cur EXCEPT ![c] = y]
  BY Zenon DEF Close
<1>3. x \in Cursor /\ Life(x, txn, "up")
  BY <1>1 DEF IInv, TypeOK
<1> HIDE DEF x
<1>4. x.frees \in Nat /\ x.ptr \in BOOLEAN /\ x.outlived \in BOOLEAN
  BY <1>3, Fields
<1>5. f \in Nat /\ (x.frees = 0 => f <= 1) /\ (proc' = "up" => x.frees = 0)
  BY <1>1, <1>4
<1> HIDE DEF f
<1>6. z \in Cursor
  BY <1>3, <1>5, Zenon DEF Cursor
<1>7. z.ptr = FALSE /\ z.tracked = FALSE /\ z.frees = f /\ z.outlived = x.outlived
  BY <1>3, Zenon DEF Cursor
<1> HIDE DEF z
<1>8. y \in Cursor /\ SameLife(z, y) /\ y.init = FALSE
  BY <1>6, RemainsFields
<1> HIDE DEF y
<1>9. y.ptr = FALSE /\ y.tracked = FALSE /\ y.frees = f /\ y.outlived = x.outlived
  BY <1>7, <1>8, Zenon DEF SameLife
<1>10. ~x.outlived => x.frees = 0
  BY <1>1, <1>3, Zenon DEF Life
<1>11. Life(y, txn, proc')
  BY <1>5, <1>8, <1>9, <1>10, Zenon DEF Life
<1>12. proc' \in {"up", "undefined"}
  BY <1>1
<1> QED BY <1>1, <1>2, <1>8, <1>11, <1>12, ReplaceStep

-----------------------------------------------------------------------------
(* Writes.                                                                 *)

\* A step that writes: every cursor keeps its life and is sound in the new table.
LEMMA WriteStep ==
  ASSUME IInv, proc = "up", UNCHANGED <<txn, proc>>, tab' \in Table,
         cur' \in [Cursors -> Cursor],
         \A c \in Cursors : /\ SameLife(cur[c], cur'[c])
                            /\ cur'[c].init => cur[c].init
                            /\ Sound(cur'[c], tab')
  PROVE  IInv'
<1>1. \A c \in Cursors : Life(cur[c], txn, proc)
  BY DEF IInv
<1>2. ASSUME NEW c \in Cursors PROVE Life(cur'[c], txn', proc')
  <2>1. Life(cur[c], txn, proc) /\ SameLife(cur[c], cur'[c]) /\ (cur'[c].init => cur[c].init)
    BY <1>1
  <2> QED BY <2>1, Zenon DEF Life, SameLife
<1>3. \A c \in Cursors : cur'[c].init => cur'[c].on \in Keys
  BY Zenon DEF Sound
<1>4. TypeOK'
  BY <1>3 DEF IInv, TypeOK, Table
<1> QED BY <1>2, <1>4 DEF IInv

\* A usable cursor of a write transaction is on its list.
LEMMA OnList ==
  ASSUME IInv, txn = "rw", NEW c \in Cursors, cur[c].init
  PROVE  cur[c].tracked
<1>1. Life(cur[c], txn, proc)
  BY DEF IInv
<1> QED BY <1>1, Zenon DEF Life

\* A cursor that the put of k shifts: it stays with its record, or with the gap
\* its record left unless k fell into that.
LEMMA ShiftUpSound ==
  ASSUME NEW T \in Table, NEW k \in Keys, k \notin T, NEW x \in Cursor, NEW y \in Cursor,
         Sound(x, T), x.init, y.init, y.on = x.on, y.del = x.del, y.eof = x.eof, ~y.alone,
         y.ki = IF x.ki >= Rk(T, k) THEN x.ki + 1 ELSE x.ki,
         y.lost <=> x.lost \/ (x.on \notin T /\ k >= x.on /\ x.ki = Rk(T, k))
  PROVE  Sound(y, T \cup {k})
<1>1. x.on \in Keys /\ x.ki <= Cardinality(T) /\ (x.del /\ ~x.eof => x.ki < Cardinality(T))
      /\ (~x.lost => x.ki = Rk(T, x.on))
  BY Zenon DEF Sound
<1>2. x.ki \in Nat /\ Cardinality(T) \in Nat /\ Rk(T, k) \in Nat /\ Rk(T, x.on) \in Nat
      /\ k \in Nat /\ x.on \in Nat
  BY <1>1, Fields, RkBounds, KeysAreNumbers
<1>3. Cardinality(T \cup {k}) = Cardinality(T) + 1
      /\ Rk(T \cup {k}, x.on) = IF k < x.on THEN Rk(T, x.on) + 1 ELSE Rk(T, x.on)
  BY <1>1, RkAdd
<1>4. ASSUME ~y.lost PROVE y.ki = Rk(T \cup {k}, x.on)
  <2>1. x.ki = Rk(T, x.on) /\ ~(x.on \notin T /\ k >= x.on /\ x.ki = Rk(T, k))
    BY <1>1, <1>4
  <2>2. CASE k < x.on
    <3>1. Rk(T, k) <= Rk(T, x.on)
      BY <1>1, <1>2, <2>2, RkMonotone
    <3> QED BY <1>2, <1>3, <2>1, <2>2, <3>1
  <2>3. CASE x.on < k
    <3>1. Rk(T, x.on) <= Rk(T, k)
      BY <1>1, <1>2, <2>3, RkMonotone
    <3>2. x.on \in T => Rk(T, x.on) < Rk(T, k)
      BY <1>1, <2>3, RkStrict
    <3>3. Rk(T, x.on) < Rk(T, k)
      BY <1>2, <2>1, <2>3, <3>1, <3>2
    <3> QED BY <1>2, <1>3, <2>1, <2>3, <3>3
  <2>4. CASE x.on = k
    BY <1>2, <2>1, <2>4
  <2> QED BY <1>2, <2>2, <2>3, <2>4
<1>5. y.ki <= Cardinality(T \cup {k})
      /\ (y.del /\ ~y.eof => y.ki < Cardinality(T \cup {k})) /\ T \cup {k} # {}
  <2>1. y.ki <= Cardinality(T \cup {k}) /\ T \cup {k} # {}
    BY <1>1, <1>2, <1>3
  <2>2. x.ki < Cardinality(T) => y.ki < Cardinality(T \cup {k})
    BY <1>2, <1>3
  <2>3. y.del /\ ~y.eof => x.ki < Cardinality(T)
    BY <1>1, Zenon
  <2> QED BY <2>1, <2>2, <2>3
<1> QED BY <1>1, <1>4, <1>5, Zenon DEF Sound

\* A cursor that the deletion of k shifts.
LEMMA ShiftDownSound ==
  ASSUME NEW T \in Table, NEW k \in T, T # {k}, NEW x \in Cursor, NEW y \in Cursor,
         Sound(x, T), x.init, y.init, y.on = x.on, y.lost = x.lost, ~y.alone,
         y.ki = IF x.ki > Rk(T, k) THEN x.ki - 1 ELSE x.ki,
         y.ki >= Cardinality(T) - 1 => y.eof
  PROVE  Sound(y, T \ {k})
<1>1. x.on \in Keys /\ x.ki <= Cardinality(T) /\ (~x.lost => x.ki = Rk(T, x.on))
  BY Zenon DEF Sound
<1>2. x.ki \in Nat /\ Cardinality(T) \in Nat /\ Rk(T, k) \in Nat /\ Rk(T, x.on) \in Nat
      /\ k \in Nat /\ x.on \in Nat /\ k \in Keys
  BY <1>1, Fields, RkBounds, KeysAreNumbers DEF Table
<1>3. Cardinality(T \ {k}) = Cardinality(T) - 1
      /\ Rk(T \ {k}, x.on) = IF k < x.on THEN Rk(T, x.on) - 1 ELSE Rk(T, x.on)
  BY <1>1, RkRemove
<1>4. ASSUME ~y.lost PROVE y.ki = Rk(T \ {k}, x.on)
  <2>1. x.ki = Rk(T, x.on)
    BY <1>1, <1>4
  <2>2. CASE k < x.on
    <3>1. Rk(T, k) < Rk(T, x.on)
      BY <1>1, <2>2, RkStrict
    <3> QED BY <1>2, <1>3, <2>1, <2>2, <3>1
  <2>3. CASE x.on <= k
    <3>1. Rk(T, x.on) <= Rk(T, k)
      BY <1>1, <1>2, <2>3, RkMonotone
    <3> QED BY <1>2, <1>3, <2>1, <2>3, <3>1
  <2> QED BY <1>2, <2>2, <2>3
<1>5. Rk(T, k) < Cardinality(T)
  BY RkRecord
<1>6. y.ki <= Cardinality(T \ {k}) /\ y.ki \in Nat
  BY <1>1, <1>2, <1>3, <1>5
<1>7. ~y.eof => y.ki < Cardinality(T \ {k})
  <2>1. ~y.eof => ~(y.ki >= Cardinality(T) - 1)
    OBVIOUS
  <2> QED BY <1>2, <1>3, <1>6, <2>1
<1>8. T \ {k} # {}
  OBVIOUS
<1> QED BY <1>1, <1>4, <1>6, <1>7, <1>8, Zenon DEF Sound

\* The cursor that deletes the record at its index.
LEMMA DeletingSound ==
  ASSUME NEW T \in Table, NEW k \in T, T # {k}, NEW x \in Cursor, NEW y \in Cursor,
         Sound(x, T), x.init, x.ki = Rk(T, k), y.init, y.on = x.on, y.lost = x.lost,
         y.alone = x.alone, y.ki = x.ki, y.del,
         y.eof <=> x.eof \/ x.ki >= Cardinality(T) - 1
  PROVE  Sound(y, T \ {k})
<1>1. x.on \in Keys /\ (~x.lost => x.ki = Rk(T, x.on)) /\ (x.alone => ~x.lost)
      /\ (x.alone /\ x.eof => \A j \in T : j <= x.on)
  BY Zenon DEF Sound
<1>2. x.ki \in Nat /\ Cardinality(T) \in Nat /\ Rk(T, k) \in Nat /\ Rk(T, x.on) \in Nat
      /\ k \in Nat /\ x.on \in Nat /\ k \in Keys
  BY <1>1, Fields, RkBounds, KeysAreNumbers DEF Table
<1>3. Cardinality(T \ {k}) = Cardinality(T) - 1 /\ T \ {k} \in Table
      /\ Rk(T \ {k}, x.on) = IF k < x.on THEN Rk(T, x.on) - 1 ELSE Rk(T, x.on)
  BY <1>1, RkRemove
<1>4. ASSUME ~x.lost
      PROVE  x.on <= k /\ y.ki = Rk(T \ {k}, x.on) /\ x.on \notin T \ {k}
  <2>1. x.on <= k /\ (x.on \in T => k = x.on)
    BY <1>1, <1>4, RkNeighbour
  <2> QED BY <1>1, <1>2, <1>3, <1>4, <2>1
<1>5. Rk(T, k) < Cardinality(T)
  BY RkRecord
<1>6. y.ki <= Cardinality(T \ {k})
  BY <1>2, <1>3, <1>5
<1>7. ~y.eof => y.ki < Cardinality(T \ {k})
  <2>1. ~y.eof => ~(x.ki >= Cardinality(T) - 1)
    OBVIOUS
  <2> QED BY <1>2, <1>3, <2>1
<1>8. ASSUME x.alone, y.eof PROVE \A j \in T \ {k} : j <= x.on
  <2>1. CASE x.eof
    BY <1>1, <1>8, <2>1
  <2>2. CASE x.ki >= Cardinality(T) - 1
    <3>1. ~x.lost
      BY <1>1, <1>8
    <3>2. Rk(T \ {k}, x.on) >= Cardinality(T \ {k})
      BY <1>3, <1>4, <2>2, <3>1
    <3> QED BY <1>1, <1>3, <3>2, RkLast
  <2> QED BY <1>8, <2>1, <2>2
<1>9. T \ {k} # {}
  OBVIOUS
<1> QED BY <1>1, <1>4, <1>6, <1>7, <1>8, <1>9, Zenon DEF Sound

\* db.put of a new key.
LEMMA PutStep == ASSUME IInv, NEW k \in Keys, Put(k) PROVE IInv'
<1> DEFINE n(c) == IF cur[c].tracked THEN ShiftUp(cur[c], k) ELSE cur[c]
<1>1. proc = "up" /\ txn = "rw" /\ k \notin tab /\ tab' = tab \cup {k} /\ UNCHANGED <<txn, proc>>
      /\ cur' = [c \in Cursors |-> n(c)]
  BY DEF Put
<1>2. tab \in Table /\ \A c \in Cursors : cur[c] \in Cursor /\ Sound(cur[c], tab)
  BY <1>1 DEF IInv, TypeOK, Table
<1>3. tab' \in Table
  BY <1>1, <1>2, RkAdd
<1>4. Rank(k) = Rk(tab, k)
  BY DEF Rank, Rk, Below
<1>5. ASSUME NEW c \in Cursors
      PROVE  n(c) \in Cursor /\ SameLife(cur[c], n(c)) /\ (n(c).init => cur[c].init)
             /\ Sound(n(c), tab')
  <2> DEFINE x == cur[c]
  <2>1. x \in Cursor /\ Sound(x, tab) /\ x.init \in BOOLEAN /\ x.ki \in Nat
    BY <1>2, Fields
  <2>2. CASE ~x.init
    <3>1. n(c) = x
      BY <2>2 DEF ShiftUp
    <3>2. x.init = FALSE
      BY <2>1, <2>2
    <3>3. Sound(x, tab')
      BY <3>2, NoPositionSound
    <3> QED BY <2>1, <3>1, <3>3, Zenon DEF SameLife
  <2>3. CASE x.init
    <3> DEFINE i == IF x.ki >= Rank(k) THEN x.ki + 1 ELSE x.ki
               l == x.lost \/ (x.on \notin tab /\ k >= x.on /\ x.ki = Rank(k))
               y == [x EXCEPT !.ki = i, !.lost = l, !.alone = FALSE]
    <3>1. x.tracked
      BY <1>1, <2>3, OnList
    <3>2. n(c) = y
      BY <2>3, <3>1, Zenon DEF ShiftUp
    <3>3. i \in Nat /\ l \in BOOLEAN
      BY <2>1
    <3>4. i = (IF x.ki >= Rk(tab, k) THEN x.ki + 1 ELSE x.ki)
          /\ (l <=> x.lost \/ (x.on \notin tab /\ k >= x.on /\ x.ki = Rk(tab, k)))
      BY <1>4
    <3> HIDE DEF x, i, l, n
    <3>5. y \in Cursor /\ SameLife(x, y) /\ y.init = x.init /\ y.on = x.on /\ y.del = x.del
          /\ y.eof = x.eof /\ y.alone = FALSE /\ y.ki = i /\ y.lost = l
      BY <2>1, <3>3, Zenon DEF Cursor, SameLife
    <3> HIDE DEF y
    <3>6. Sound(y, tab \cup {k})
      BY <1>1, <1>2, <2>1, <2>3, <3>4, <3>5, ShiftUpSound
    <3> QED BY <1>1, <2>3, <3>2, <3>5, <3>6 DEF x
  <2> QED BY <2>1, <2>2, <2>3
<1> HIDE DEF n
<1>6. cur' \in [Cursors -> Cursor] /\ \A c \in Cursors : cur'[c] = n(c)
  BY <1>1, <1>5
<1> QED BY <1>1, <1>3, <1>5, <1>6, WriteStep

\* The cursor that deletes, and a cursor of an emptied tree.
LEMMA DeletingFields ==
  ASSUME NEW x \in Cursor, NUMKEYS \in Nat
  PROVE  LET y == Deleting(x)
         IN  /\ y \in Cursor /\ SameLife(x, y) /\ y.init = x.init /\ y.on = x.on
             /\ y.lost = x.lost /\ y.alone = x.alone /\ y.ki = x.ki /\ y.del = TRUE
             /\ (y.eof <=> x.eof \/ x.ki >= NUMKEYS - 1)
<1> DEFINE e == x.eof \/ x.ki >= NUMKEYS - 1
           y == [x EXCEPT !.del = TRUE, !.eof = e]
<1>1. e \in BOOLEAN
  OBVIOUS
<1>2. Deleting(x) = y
  BY Zenon DEF Deleting
<1>3. e <=> x.eof \/ x.ki >= NUMKEYS - 1
  OBVIOUS
<1> HIDE DEF e
<1>4. y \in Cursor /\ SameLife(x, y) /\ y.init = x.init /\ y.on = x.on
      /\ y.lost = x.lost /\ y.alone = x.alone /\ y.ki = x.ki /\ y.del = TRUE /\ y.eof = e
  BY <1>1, Zenon DEF Cursor, SameLife
<1> HIDE DEF y
<1> QED BY <1>2, <1>3, <1>4

LEMMA EmptiedFields ==
  ASSUME NEW x \in Cursor
  PROVE  Emptied(x) \in Cursor /\ SameLife(x, Emptied(x)) /\ Emptied(x).init = FALSE
<1>1. None \in Keys \cup {None} /\ 0 \in Nat
  OBVIOUS
<1> QED BY <1>1, Zenon DEF Cursor, SameLife, Emptied

\* The deletion of record k, by cursor d or by none.
LEMMA RemoveStep ==
  ASSUME IInv, proc = "up", txn = "rw", NEW k \in tab, NEW d, Remove(k, d),
         d \in Cursors => cur[d].init /\ cur[d].ki = Rk(tab, k)
  PROVE  IInv'
<1> DEFINE m(c) == IF c = d THEN Deleting(cur[c]) ELSE ShiftDown(cur[c], k)
           n(c) == IF ~cur[c].tracked THEN cur[c]
                   ELSE IF tab = {k} THEN Emptied(IF c = d THEN m(c) ELSE cur[c]) ELSE m(c)
<1>1. tab' = tab \ {k} /\ UNCHANGED <<txn, proc>> /\ cur' = [c \in Cursors |-> n(c)]
  BY Zenon DEF Remove
<1>2. tab \in Table /\ \A c \in Cursors : cur[c] \in Cursor /\ Sound(cur[c], tab)
  BY DEF IInv, TypeOK, Table
<1>3. k \in Keys /\ NUMKEYS \in Nat /\ NUMKEYS = Cardinality(tab) /\ Rank(k) = Rk(tab, k)
  BY <1>2, RkBounds DEF Table, NUMKEYS, Rank, Rk, Below
<1>4. tab' \in Table
  BY <1>1, <1>2, <1>3, RkRemove
<1>5. ASSUME NEW c \in Cursors
      PROVE  n(c) \in Cursor /\ SameLife(cur[c], n(c)) /\ (n(c).init => cur[c].init)
             /\ Sound(n(c), tab')
  <2> DEFINE x == cur[c]
  <2>1. x \in Cursor /\ Sound(x, tab) /\ x.init \in BOOLEAN /\ x.ki \in Nat
        /\ x.tracked \in BOOLEAN /\ x.del \in BOOLEAN /\ x.eof \in BOOLEAN
    BY <1>2, Fields
  <2>2. x.init => x.tracked
    BY OnList
  <2>3. c = d => x.init /\ x.ki = Rk(tab, k)
    OBVIOUS
  <2>4. CASE n(c) = x /\ ~x.init
    <3>1. x.init = FALSE
      BY <2>1, <2>4
    <3>2. Sound(x, tab')
      BY <3>1, NoPositionSound
    <3> QED BY <2>1, <2>4, <3>2, Zenon DEF SameLife
  <2>5. CASE x.tracked /\ tab = {k}
    <3> DEFINE z == IF c = d THEN Deleting(x) ELSE x
    <3>1. n(c) = Emptied(z)
      BY <2>5
    <3>2. z \in Cursor /\ SameLife(x, z)
      BY <1>3, <2>1, DeletingFields DEF SameLife
    <3> HIDE DEF n, z, x
    <3>3. Emptied(z) \in Cursor /\ SameLife(z, Emptied(z)) /\ Emptied(z).init = FALSE
      BY <3>2, EmptiedFields
    <3>4. SameLife(x, Emptied(z)) /\ Sound(Emptied(z), tab')
      BY <3>2, <3>3, NoPositionSound, Zenon DEF SameLife
    <3> QED BY <3>1, <3>3, <3>4 DEF x
  <2>6. CASE x.tracked /\ tab # {k} /\ c = d
    <3> DEFINE y == Deleting(x)
    <3>1. n(c) = y
      BY <2>6
    <3>2. y \in Cursor /\ SameLife(x, y) /\ y.init = x.init /\ y.on = x.on
          /\ y.lost = x.lost /\ y.alone = x.alone /\ y.ki = x.ki /\ y.del = TRUE
          /\ (y.eof <=> x.eof \/ x.ki >= NUMKEYS - 1)
      BY <1>3, <2>1, DeletingFields, Zenon
    <3>3. x.init /\ x.ki = Rk(tab, k) /\ tab # {k}
      BY <2>3, <2>6
    <3> HIDE DEF n, y, x
    <3>4. Sound(y, tab \ {k})
      BY <1>2, <1>3, <2>1, <3>2, <3>3, DeletingSound
    <3> QED BY <1>1, <3>1, <3>2, <3>3, <3>4 DEF x
  <2>7. CASE x.tracked /\ tab # {k} /\ c # d /\ x.init
    <3> DEFINE i == IF x.ki > Rank(k) THEN x.ki - 1 ELSE x.ki
               b == x.del \/ x.ki >= Rank(k)
               e == x.eof \/ i >= NUMKEYS - 1
               y == [x EXCEPT !.ki = i, !.del = b, !.eof = e, !.alone = FALSE]
    <3>1. n(c) = y
      BY <2>7, Zenon DEF ShiftDown
    <3>2. i \in Nat /\ b \in BOOLEAN /\ e \in BOOLEAN
      <4>1. Rank(k) \in Nat
        BY <1>2, <1>3, RkBounds
      <4>2. i \in Nat
        BY <2>1, <4>1
      <4> QED BY <4>2
    <3>3. i = (IF x.ki > Rk(tab, k) THEN x.ki - 1 ELSE x.ki) /\ (i >= Cardinality(tab) - 1 => e)
      BY <1>3
    <3>4. x.init /\ tab # {k}
      BY <2>7
    <3> HIDE DEF x, i, b, e, n
    <3>5. y \in Cursor /\ SameLife(x, y) /\ y.init = x.init /\ y.on = x.on /\ y.lost = x.lost
          /\ y.alone = FALSE /\ y.ki = i /\ y.eof = e
      BY <2>1, <3>2, Zenon DEF Cursor, SameLife
    <3> HIDE DEF y
    <3>6. Sound(y, tab \ {k})
      BY <1>2, <2>1, <3>3, <3>4, <3>5, ShiftDownSound
    <3> QED BY <1>1, <3>1, <3>4, <3>5, <3>6 DEF x
  <2>8. \/ n(c) = x /\ ~x.init
        \/ x.tracked /\ tab = {k}
        \/ x.tracked /\ tab # {k} /\ c = d
        \/ x.tracked /\ tab # {k} /\ c # d /\ x.init
    <3>1. CASE ~x.tracked
      BY <2>1, <2>2, <3>1
    <3>2. CASE x.tracked /\ tab # {k} /\ c # d /\ ~x.init
      BY <3>2 DEF ShiftDown
    <3> QED BY <2>1, <3>1, <3>2
  <2> QED BY <2>4, <2>5, <2>6, <2>7, <2>8
<1> HIDE DEF n, m
<1>6. cur' \in [Cursors -> Cursor] /\ \A c \in Cursors : cur'[c] = n(c)
  BY <1>1, <1>5
<1> QED BY <1>1, <1>4, <1>5, <1>6, WriteStep

\* Every step preserves the invariant.
LEMMA NextInv == IInv /\ [Next]_vars => IInv'
<1> SUFFICES ASSUME IInv, [Next]_vars PROVE IInv'
  OBVIOUS
<1>1. ASSUME NEW kind \in {"ro", "rw"}, Begin(kind) PROVE IInv'
  BY <1>1, BeginStep
<1>2. CASE EndTxn
  BY <1>2, EndTxnStep
<1>3. CASE ResetTxn
  BY <1>3, ResetTxnStep
<1>4. ASSUME NEW c \in Cursors,
             First(c) \/ Last(c) \/ NextMove(c) \/ PrevMove(c) \/ Next0(c) \/ Prev0(c)
      PROVE  IInv'
  BY <1>4, MovesStep
<1>5. ASSUME NEW c \in Cursors, OpenCursor(c) PROVE IInv'
  BY <1>5, OpenStep
<1>6. ASSUME NEW c \in Cursors, Close(c) PROVE IInv'
  BY <1>6, CloseStep
<1>7. ASSUME NEW c \in Cursors, UseStale(c) PROVE IInv'
  BY <1>7, UndefinedStep DEF UseStale
<1>8. ASSUME NEW c \in Cursors, GetCurrent(c) PROVE IInv'
  BY <1>8, CurrentStep
<1>9. ASSUME NEW c \in Cursors, CursorDel(c) PROVE IInv'
  <2>1. Usable(c) /\ txn = "rw" /\ cur[c].init /\ cur[c].ki < NUMKEYS
        /\ Remove(KeyAt(cur[c].ki), c) /\ proc = "up"
    BY <1>9 DEF CursorDel, Usable
  <2>2. cur[c].ki \in Nat /\ TypeOK
    BY <2>1, Facts
  <2>3. KeyAt(cur[c].ki) \in tab /\ Rk(tab, KeyAt(cur[c].ki)) = cur[c].ki
    BY <2>1, <2>2, KeyAtRank
  <2> QED BY <2>1, <2>3, RemoveStep
<1>10. ASSUME NEW c \in Cursors, NEW k \in Keys, Seek(c, k) \/ Gte(c, k) PROVE IInv'
  BY <1>10, SeeksStep
<1>11. ASSUME NEW k \in Keys, Put(k) PROVE IInv'
  BY <1>11, PutStep
<1>12. ASSUME NEW k \in Keys, Del(k) PROVE IInv'
  BY <1>12, RemoveStep, CursorsAreNot DEF Del
<1>13. CASE UNCHANGED vars
  <2>1. txn' = txn /\ tab' = tab /\ cur' = cur /\ proc' = proc
    BY <1>13 DEF vars
  <2> QED BY <2>1 DEF IInv, TypeOK
<1> QED
  BY <1>1, <1>2, <1>3, <1>4, <1>5, <1>6, <1>7, <1>8, <1>9, <1>10, <1>11, <1>12, <1>13 DEF Next

\* The inductive invariant holds in every reachable state.
THEOREM Invariant == Spec => []IInv
BY InitInv, NextInv, PTL DEF Spec

-----------------------------------------------------------------------------
(* What follows from it.                                                   *)

\* Every variable keeps its type: indices are natural numbers, and a cursor
\* with a position is at a key, reported or sought.
THEOREM TypeCorrect == Spec => []TypeOK
<1>1. IInv => TypeOK
  BY DEF IInv
<1> QED BY <1>1, Invariant, PTL

\* For any keys and cursors, writes by others never slide a cursor to another
\* record, whether it got its position from a report or from a seek in vain.
THEOREM CursorsPlaced == Spec => []Placed
<1>1. IInv => Placed
  <2> SUFFICES ASSUME IInv, NEW c \in Cursors, Usable(c), cur[c].init, ~cur[c].lost
               PROVE  cur[c].ki = Rank(cur[c].on)
    BY DEF Placed
  <2>1. Sound(cur[c], tab) /\ Rank(cur[c].on) = Rk(tab, cur[c].on)
    BY Facts
  <2> QED BY <2>1, Zenon DEF Sound
<1> QED BY <1>1, Invariant, PTL

\* For any keys and cursors, no move reads behind the last record of the page.
THEOREM CursorsInPage == Spec => []InPage
<1>1. IInv => InPage
  <2> SUFFICES ASSUME IInv, NEW c \in Cursors, Usable(c), cur[c].init
               PROVE  /\ tab # {} /\ cur[c].ki <= NUMKEYS
                      /\ cur[c].del /\ ~cur[c].eof => cur[c].ki < NUMKEYS
    BY DEF InPage
  <2>1. Sound(cur[c], tab) /\ NUMKEYS = Cardinality(tab)
    BY Facts
  <2> QED BY <2>1, Zenon DEF Sound
<1> QED BY <1>1, Invariant, PTL

\* For any keys and cursors, a loop that deletes with its own cursor, and in
\* which nobody else writes, repeats no record and does not end early.
THEOREM LoopsExact == Spec => []LoopExact
<1>1. IInv => LoopExact
  <2> SUFFICES ASSUME IInv, NEW c \in Cursors, Usable(c), cur[c].init, cur[c].alone
               PROVE  ~Again(c) /\ ~PastEnd(c)
    BY DEF LoopExact
  <2>1. Sound(cur[c], tab) /\ tab \in Table
    BY Facts
  <2>2. /\ ~(cur[c].del /\ cur[c].on \in tab) /\ cur[c].on \in Keys
        /\ cur[c].eof => \A k \in tab : k <= cur[c].on
    BY <2>1, Zenon DEF Sound
  <2>3. cur[c].on \in Nat /\ \A k \in tab : k \in Nat
    BY <2>1, <2>2, KeysAreNumbers DEF Table
  <2> QED BY <2>2, <2>3 DEF Again, PastEnd
<1> QED BY <1>1, Invariant, PTL

\* For any number of cursors and transactions, a cursor is freed at most once
\* unless it was open when its transaction ended.
THEOREM CursorsFreedOnce == Spec => []FreedOnce
<1>1. IInv => FreedOnce
  <2> SUFFICES ASSUME IInv, NEW c \in Cursors, ~cur[c].outlived
               PROVE  cur[c].frees <= (IF cur[c].ptr THEN 0 ELSE 1)
    BY DEF FreedOnce
  <2>1. Life(cur[c], txn, proc)
    BY DEF IInv
  <2>2. cur[c].ptr => cur[c].frees = 0
    BY <2>1, Zenon DEF Life
  <2>3. ~cur[c].ptr => cur[c].frees <= 1
    BY <2>1, Zenon DEF Life
  <2> QED BY <2>2, <2>3
<1> QED BY <1>1, Invariant, PTL

\* What a usable cursor with a position knows about it.
LEMMA PlacedFacts ==
  ASSUME IInv, NEW c \in Cursors, Usable(c), cur[c].init, ~cur[c].lost
  PROVE  LET x == cur[c]
             a == x.on
         IN  /\ TypeOK /\ cur \in [Cursors -> Cursor] /\ tab \in Table /\ NUMKEYS \in Nat
             /\ NUMKEYS = Cardinality(tab) /\ x \in Cursor /\ x.ki \in Nat /\ x.ki <= NUMKEYS
             /\ a \in Keys /\ x.ki = Rk(tab, a) /\ a \in Nat
             /\ \A j \in tab : j \in Nat /\ j \in Keys
<1> DEFINE x == cur[c]
           a == x.on
<1>1. /\ TypeOK /\ tab \in Table /\ x \in Cursor /\ Sound(x, tab)
      /\ NUMKEYS \in Nat /\ NUMKEYS = Cardinality(tab) /\ x.ki \in Nat
  BY Facts
<1>2. a \in Keys /\ x.ki = Rk(tab, a) /\ x.ki <= Cardinality(tab)
  BY <1>1, Zenon DEF Sound
<1>3. a \in Nat /\ \A j \in tab : j \in Nat /\ j \in Keys
  BY <1>1, <1>2, KeysAreNumbers DEF Table
<1>4. cur \in [Cursors -> Cursor]
  BY <1>1 DEF TypeOK
<1> QED BY <1>1, <1>2, <1>3, <1>4

\* next() goes to the next record.
LEMMA NextToSuccessor ==
  ASSUME IInv, NEW c \in Cursors, cur[c].init, ~cur[c].lost, NextMove(c),
         ~Again(c), ~Skips(c), ~PastEnd(c)
  PROVE  ToSuccessor(c)
<1> DEFINE x == cur[c]
           a == x.on
<1> DEFINE i == IF x.del THEN x.ki ELSE x.ki + 1
<1>0. Usable(c)
  BY DEF NextMove
<1>pos. /\ TypeOK /\ cur \in [Cursors -> Cursor] /\ tab \in Table /\ NUMKEYS \in Nat
       /\ NUMKEYS = Cardinality(tab) /\ x \in Cursor /\ x.ki \in Nat /\ x.ki <= NUMKEYS
       /\ a \in Keys /\ x.ki = Rk(tab, a) /\ a \in Nat /\ \A j \in tab : j \in Nat /\ j \in Keys
  BY <1>0, PlacedFacts
<1>1. CASE (x.eof \/ i >= NUMKEYS) /\ Get(c, [x EXCEPT !.eof = TRUE])
  <2> DEFINE y == [[x EXCEPT !.eof = TRUE] EXCEPT !.del = FALSE]
  <2>1. cur' = [cur EXCEPT ![c] = y]
    BY <1>1, Zenon DEF Get
  <2>2. x \in Cursor
    BY <1>pos
  <2>3. y.on = a /\ y.eof = TRUE
    BY <2>2, Zenon DEF Cursor
  <2>4. cur'[c].on = a /\ cur'[c].eof
    <3> HIDE DEF y
    <3> QED BY <1>pos, <2>1, <2>3
  <2>5. \A k \in tab : ~(k > a)
    <3>1. CASE x.eof
      BY <3>1 DEF PastEnd
    <3>2. CASE ~x.eof /\ x.del
      <4>1. \A k \in tab : k <= a
        BY <1>pos, <1>1, <3>2, RkLast
      <4> QED BY <1>pos, <4>1
    <3>3. CASE ~x.eof /\ ~x.del
      <4>1. a \in tab
        BY <3>3 DEF Skips
      <4>2. \A k \in tab : k <= a
        BY <1>pos, <1>1, <3>3, <4>1, RkLast
      <4> QED BY <1>pos, <4>2
    <3> QED BY <3>1, <3>2, <3>3
  <2> QED BY <2>4, <2>5 DEF ToSuccessor
<1>2. CASE ~x.eof /\ i < NUMKEYS /\ Get(c, At(c, i))
  <2> DEFINE b == KeyAt(i)
  <2>1. i \in Nat /\ TypeOK /\ cur \in [Cursors -> Cursor]
    BY <1>pos DEF TypeOK
  <2>2. b \in tab /\ b \in Keys /\ Rk(tab, b) = i
    BY <1>2, <2>1, KeyAtRank
  <2>3. MovedOn(c, i).on = b
    BY <2>1, <2>2, MovedOnFields
  <2>4. cur' = [cur EXCEPT ![c] = MovedOn(c, i)]
    BY <1>2, Zenon DEF Get, MovedOn
  <2>5. cur'[c].on = b
    BY <2>1, <2>3, <2>4
  <2>6. b > a /\ \A k \in tab : k > a => b <= k
    <3> HIDE DEF b
    <3>1. CASE x.del
      <4>1. a \notin tab
        BY <3>1 DEF Again
      <4>2. a <= b /\ \A k \in tab : k >= a => k >= b
        BY <1>pos, <2>2, <3>1, RkNeighbour
      <4> QED BY <1>pos, <2>2, <4>1, <4>2
    <3>2. CASE ~x.del
      <4>1. a \in tab
        BY <1>2, <3>2 DEF Skips
      <4>2. Rk(tab, b) = Rk(tab, a) + 1 /\ Rk(tab, a) \in Nat
        BY <1>pos, <2>2, <3>2
      <4>3. ~(b <= a)
        <5>1. b <= a => Rk(tab, b) <= Rk(tab, a)
          BY <1>pos, <2>2, RkMonotone
        <5> QED BY <4>2, <5>1
      <4>4. ASSUME NEW k \in tab, k > a, k < b PROVE FALSE
        <5>1. Rk(tab, a) < Rk(tab, k) /\ Rk(tab, k) < Rk(tab, b) /\ Rk(tab, k) \in Nat
          BY <1>pos, <2>2, <4>1, <4>4, RkStrict, RkBounds
        <5> QED BY <4>2, <5>1
      <4> QED BY <1>pos, <2>2, <4>3, <4>4
    <3> QED BY <3>1, <3>2
  <2> HIDE DEF b
  <2> QED BY <2>2, <2>5, <2>6 DEF ToSuccessor
<1> QED BY <1>1, <1>2 DEF NextMove

\* prev() goes to the previous one.
LEMMA PrevToPredecessor ==
  ASSUME IInv, NEW c \in Cursors, cur[c].init, ~cur[c].lost, PrevMove(c)
  PROVE  ToPredecessor(c)
<1> DEFINE x == cur[c]
           a == x.on
<1>0. Usable(c)
  BY DEF PrevMove
<1>pos. /\ TypeOK /\ cur \in [Cursors -> Cursor] /\ tab \in Table /\ NUMKEYS \in Nat
       /\ NUMKEYS = Cardinality(tab) /\ x \in Cursor /\ x.ki \in Nat /\ x.ki <= NUMKEYS
       /\ a \in Keys /\ x.ki = Rk(tab, a) /\ a \in Nat /\ \A j \in tab : j \in Nat /\ j \in Keys
  BY <1>0, PlacedFacts
<1>1. CASE x.ki = 0 /\ Get(c, [x EXCEPT !.alone = FALSE])
  <2> DEFINE y == [[x EXCEPT !.alone = FALSE] EXCEPT !.del = FALSE]
  <2>1. cur' = [cur EXCEPT ![c] = y]
    BY <1>1, Zenon DEF Get
  <2>2. x \in Cursor
    BY <1>pos
  <2>3. y.on = a
    BY <2>2, Zenon DEF Cursor
  <2>4. cur'[c].on = a
    <3> HIDE DEF y
    <3> QED BY <1>pos, <2>1, <2>3
  <2>5. ASSUME NEW k \in tab, k < a PROVE FALSE
    <3>1. Rk(tab, k) < Rk(tab, a) /\ Rk(tab, k) \in Nat
      BY <1>pos, <2>5, RkStrict, RkBounds
    <3> QED BY <1>pos, <1>1, <3>1
  <2> QED BY <2>4, <2>5 DEF ToPredecessor
<1>2. CASE x.ki > 0 /\ Get(c, [At(c, x.ki - 1) EXCEPT !.eof = FALSE])
  <2> DEFINE i == x.ki - 1
             b == KeyAt(i)
  <2>1. i \in Nat /\ i < NUMKEYS /\ TypeOK /\ cur \in [Cursors -> Cursor]
    BY <1>pos, <1>2 DEF TypeOK
  <2>2. b \in tab /\ b \in Keys /\ Rk(tab, b) = i
    BY <2>1, KeyAtRank
  <2>3. Moved(c, i, FALSE).on = b
    BY <2>1, <2>2, MovedFields
  <2>4. cur' = [cur EXCEPT ![c] = Moved(c, i, FALSE)]
    BY <1>2, Zenon DEF Get, Moved
  <2>5. cur'[c].on = b
    BY <2>1, <2>3, <2>4
  <2>6. b < a /\ \A k \in tab : k < a => k <= b
    <3> HIDE DEF b
    <3>1. Rk(tab, a) = Rk(tab, b) + 1 /\ Rk(tab, b) \in Nat
      BY <1>pos, <2>1, <2>2
    <3>2. ~(a <= b)
      <4>1. a <= b => Rk(tab, a) <= Rk(tab, b)
        BY <1>pos, <2>2, RkMonotone
      <4> QED BY <3>1, <4>1
    <3>3. ASSUME NEW k \in tab, k < a, b < k PROVE FALSE
      <4>1. Rk(tab, b) < Rk(tab, k) /\ Rk(tab, k) < Rk(tab, a) /\ Rk(tab, k) \in Nat
        BY <1>pos, <2>2, <3>3, RkStrict, RkBounds
      <4> QED BY <3>1, <4>1
    <3> QED BY <1>pos, <2>2, <3>2, <3>3
  <2> HIDE DEF b
  <2> QED BY <2>2, <2>5, <2>6 DEF ToPredecessor
<1> QED BY <1>1, <1>2 DEF PrevMove

\* del() deletes the record at the cursor's key, or the next one above.
LEMMA DelAtPlace ==
  ASSUME IInv, NEW c \in Cursors, cur[c].init, ~cur[c].lost, CursorDel(c)
  PROVE  DeletesOnOrAbove(c)
<1> DEFINE x == cur[c]
           a == x.on
           j == KeyAt(x.ki)
<1>1. Usable(c) /\ x.ki < NUMKEYS /\ Remove(j, c)
  BY DEF CursorDel
<1>2. /\ TypeOK /\ tab \in Table /\ x.ki \in Nat /\ a \in Keys /\ x.ki = Rk(tab, a)
  BY <1>1, PlacedFacts
<1>3. j \in tab /\ Rk(tab, j) = x.ki
  BY <1>1, <1>2, KeyAtRank
<1>4. tab' = tab \ {j}
  BY <1>1, Zenon DEF Remove
<1> HIDE DEF j
<1>5. a <= j /\ \A k \in tab : k >= a => k >= j
  BY <1>2, <1>3, RkNeighbour
<1>6. a \in Nat /\ \A k \in tab : k \in Nat
  BY <1>2, KeysAreNumbers DEF Table
<1>7. j >= a /\ \A k \in tab : k >= a => j <= k
  BY <1>3, <1>5, <1>6
<1> QED BY <1>3, <1>4, <1>7 DEF DeletesOnOrAbove

\* For any keys and cursors, next() and prev() report the neighbour of the key
\* the cursor is at, with the exceptions MovesToNeighbour names, and del()
\* deletes the record at that key, or the next one above where there is none.
THEOREM CursorsMoveToNeighbour == Spec => MovesToNeighbour
<1> DEFINE Move(c) == cur[c].init /\ ~cur[c].lost =>
                        /\ NextMove(c) /\ ~Again(c) /\ ~Skips(c) /\ ~PastEnd(c) => ToSuccessor(c)
                        /\ PrevMove(c) => ToPredecessor(c)
                        /\ CursorDel(c) => DeletesOnOrAbove(c)
<1>1. ASSUME IInv, NEW c \in Cursors PROVE Move(c)
  BY <1>1, NextToSuccessor, PrevToPredecessor, DelAtPlace
<1>2. IInv /\ [Next]_vars => [\A c \in Cursors : Move(c)]_vars
  <2> HIDE DEF Move
  <2> QED BY <1>1
<1> QED BY <1>2, Invariant, PTL DEF Spec, MovesToNeighbour
=============================================================================
