------------------------- MODULE LevelCursor_proofs -------------------------
(***************************************************************************)
(* The cursor implements CursorSpec for any keys and any number of writes. *)
(*                                                                         *)
(* The argument: the entries FindNextUserEntry accepts, and the keys       *)
(* FindPrevUserEntry accepts, are those of the snapshot (NextFinds,        *)
(* PrevFinds), provided the internal iterator starts where no visible      *)
(* entry is missed.  OnRecord and RestsBetween say that it does.           *)
(***************************************************************************)
EXTENDS LevelCursor, TLAPS, WellFoundedInduction

USE KeysAssumption, WritesAssumption

-----------------------------------------------------------------------------
(* Least and greatest elements.                                            *)

\* A non-empty set of natural numbers has a least element.
LEMMA NatMin ==
  ASSUME NEW S, S \subseteq Nat, S # {}
  PROVE  \E x \in S : \A y \in S : x <= y
<1> DEFINE R == OpToRel(<, Nat)
<1>1. IsWellFoundedOn(R, Nat)
  BY NatLessThanWellFounded, Zenon
<1>2. PICK x \in S : \A y \in S : <<y, x>> \notin R
  <2> HIDE DEF R
  <2> QED BY <1>1, WFMin, Zenon
<1>3. \A y \in S : ~(y < x)
  BY <1>2, Zenon DEF OpToRel
<1> QED BY <1>3

\* A non-empty bounded one has a greatest element.
LEMMA NatMax ==
  ASSUME NEW S, S \subseteq Nat, S # {}, NEW b \in Nat, \A x \in S : x <= b
  PROVE  \E x \in S : \A y \in S : y <= x
<1> DEFINE T == {b - x : x \in S}
<1>1. T \subseteq Nat /\ T # {}
  <2>1. \A x \in S : b - x \in Nat
    OBVIOUS
  <2>2. PICK x \in S : TRUE
    OBVIOUS
  <2>3. b - x \in T
    OBVIOUS
  <2> QED BY <2>1, <2>3
<1>2. PICK t \in T : \A u \in T : t <= u
  <2> HIDE DEF T
  <2> QED BY <1>1, NatMin
<1>3. PICK x \in S : t = b - x
  BY <1>2
<1>4. ASSUME NEW y \in S PROVE y <= x
  <2>1. b - y \in T
    OBVIOUS
  <2>2. b - x <= b - y
    <3> HIDE DEF T
    <3> QED BY <1>2, <1>3, <2>1
  <2>3. x \in Nat /\ y \in Nat
    OBVIOUS
  <2> QED BY <2>2, <2>3
<1> QED BY <1>4

-----------------------------------------------------------------------------
(* Entries.                                                                *)

\* Entries are natural numbers with a key.
LEMMA EntryType ==
  ASSUME TypeOK, NEW e \in Entries
  PROVE  /\ e \in Nat /\ e # NoEntry /\ Len(log) \in Nat
         /\ key(e) \in Keys /\ key(e) \in Nat
         /\ log[e].put \in BOOLEAN
<1>1. log \in Seq(Entry) /\ e \in 1..Len(log)
  BY DEF TypeOK, Entries
<1>2. log[e] \in Entry
  BY <1>1
<1>3. Len(log) \in Nat
  BY <1>1
<1>4. log[e].key \in Keys /\ log[e].put \in BOOLEAN
  BY <1>2 DEF Entry
<1>5. e \in Nat /\ e # NoEntry
  BY <1>1, <1>3 DEF NoEntry
<1>6. log[e].key \in Nat
  BY <1>4
<1> QED BY <1>3, <1>4, <1>5, <1>6, Zenon DEF key

\* The keys of the entries are bounded.
LEMMA KeysBounded ==
  ASSUME TypeOK
  PROVE  \E b \in Nat : \A e \in Entries : key(e) <= b
<1> DEFINE Bounded(n) == \E b \in Nat : \A e \in 1..n : key(e) <= b
           C == {n \in 0..Len(log) : ~Bounded(n)}
<1>0. Len(log) \in Nat
  BY DEF TypeOK
<1>1. CASE C = {}
  <2>1. Bounded(Len(log))
    <3>1. Len(log) \in 0..Len(log)
      BY <1>0
    <3> QED BY <1>1, <3>1, Zenon
  <2> QED BY <2>1 DEF Entries
<1>2. CASE C # {}
  <2>1. C \subseteq Nat
    OBVIOUS
  <2>2. PICK m \in C : \A n \in C : m <= n
    <3> HIDE DEF C
    <3> QED BY <1>2, <2>1, NatMin
  <2>3. m # 0
    <3>1. \A e \in 1..0 : key(e) <= 0
      OBVIOUS
    <3>2. Bounded(0)
      BY <3>1
    <3> QED BY <3>2
  <2>4. m - 1 \in 0..Len(log) /\ m \in Entries
    BY <2>3, <1>0 DEF Entries
  <2>5. Bounded(m - 1)
    <3>1. m - 1 \notin C
      <4> HIDE DEF C
      <4> QED BY <2>1, <2>2
    <3> QED BY <3>1, <2>4
  <2>6. PICK b \in Nat : \A e \in 1..(m - 1) : key(e) <= b
    BY <2>5
  <2>7. key(m) \in Nat
    BY <2>4, EntryType
  <2> DEFINE c == IF key(m) <= b THEN b ELSE key(m)
  <2>8. ASSUME NEW e \in 1..m PROVE key(e) <= c
    <3>1. CASE e = m
      BY <3>1, <2>7
    <3>2. CASE e # m
      <4>1. e \in 1..(m - 1) /\ e \in Entries
        BY <3>2, <2>4 DEF Entries
      <4>2. key(e) \in Nat
        BY <4>1, EntryType
      <4> QED BY <4>1, <4>2, <2>6, <2>7
    <3> QED BY <3>1, <3>2
  <2>9. c \in Nat
    BY <2>7
  <2>10. Bounded(m)
    <3> HIDE DEF c
    <3> QED BY <2>8, <2>9
  <2> QED BY <2>10
<1> QED BY <1>1, <1>2

\* The first entry of a set is in it and before all others.
LEMMA FirstExists ==
  ASSUME TypeOK, NEW S, S \subseteq Entries, S # {}
  PROVE  /\ FirstOf(S) \in S
         /\ \A d \in S : d = FirstOf(S) \/ Before(FirstOf(S), d)
<1> DEFINE K == {key(e) : e \in S}
<1>1. K \subseteq Nat /\ K # {}
  BY EntryType
<1>2. PICK k \in K : \A j \in K : k <= j
  <2> HIDE DEF K
  <2> QED BY <1>1, NatMin
<1> DEFINE T == {e \in S : key(e) = k}
<1>3. T \subseteq Nat /\ T # {} /\ Len(log) \in Nat /\ \A x \in T : x <= Len(log)
  BY EntryType DEF Entries, TypeOK
<1>4. PICK m \in T : \A x \in T : x <= m
  <2> HIDE DEF T
  <2> QED BY <1>3, NatMax
<1>5. m \in S /\ key(m) = k
  OBVIOUS
<1>6. ASSUME NEW d \in S PROVE d = m \/ Before(m, d)
  <2>1. key(d) \in K /\ key(d) \in Nat /\ k \in Nat /\ d \in Nat /\ m \in Nat
    BY <1>1, EntryType
  <2>2. k <= key(d)
    <3> HIDE DEF K
    <3> QED BY <1>2, <2>1
  <2>3. CASE key(d) = k
    <3>1. d <= m
      BY <1>4, <2>3
    <3> QED BY <3>1, <2>1, <2>3, <1>5 DEF Before
  <2>4. CASE key(d) # k
    BY <2>1, <2>2, <2>4, <1>5 DEF Before
  <2> QED BY <2>3, <2>4
<1> HIDE DEF T, K
<1> QED BY <1>5, <1>6 DEF FirstOf

\* The last entry of a set is in it and after all others.
LEMMA LastExists ==
  ASSUME TypeOK, NEW S, S \subseteq Entries, S # {}
  PROVE  /\ LastOf(S) \in S
         /\ \A d \in S : d = LastOf(S) \/ Before(d, LastOf(S))
<1> DEFINE K == {key(e) : e \in S}
<1>1. K \subseteq Nat /\ K # {}
  BY EntryType
<1>2. PICK b \in Nat : \A e \in Entries : key(e) <= b
  BY KeysBounded
<1>3. \A x \in K : x <= b
  BY <1>2
<1>4. PICK k \in K : \A j \in K : j <= k
  <2> HIDE DEF K
  <2> QED BY <1>1, <1>3, NatMax
<1> DEFINE T == {e \in S : key(e) = k}
<1>5. T \subseteq Nat /\ T # {}
  BY EntryType
<1>6. PICK m \in T : \A x \in T : m <= x
  <2> HIDE DEF T
  <2> QED BY <1>5, NatMin
<1>7. m \in S /\ key(m) = k
  OBVIOUS
<1>8. ASSUME NEW d \in S PROVE d = m \/ Before(d, m)
  <2>1. key(d) \in K /\ key(d) \in Nat /\ k \in Nat /\ d \in Nat /\ m \in Nat
    BY <1>1, EntryType
  <2>2. key(d) <= k
    <3> HIDE DEF K
    <3> QED BY <1>4, <2>1
  <2>3. CASE key(d) = k
    <3>1. m <= d
      BY <1>6, <2>3
    <3> QED BY <3>1, <2>1, <2>3, <1>7 DEF Before
  <2>4. CASE key(d) # k
    BY <2>1, <2>2, <2>4, <1>7 DEF Before
  <2> QED BY <2>3, <2>4
<1> HIDE DEF T, K
<1> QED BY <1>7, <1>8 DEF LastOf

-----------------------------------------------------------------------------
(* The table at a sequence number.                                         *)

\* At most one entry holds the value of a key.
LEMMA HoldsUnique ==
  ASSUME TypeOK, NEW k, NEW s \in Nat, NEW m, NEW n, Holds(k, s, m), Holds(k, s, n)
  PROVE  m = n
<1>1. m \in Entries /\ n \in Entries /\ m <= s /\ n <= s /\ key(m) = k /\ key(n) = k
  BY DEF Holds
<1>2. m <= n /\ n <= m
  BY <1>1 DEF Holds
<1> QED BY <1>1, <1>2, EntryType

\* The table gives a key the entry that holds its value.
LEMMA TableHolds ==
  ASSUME TypeOK, NEW k \in Keys, NEW s \in Nat, NEW n, Holds(k, s, n)
  PROVE  TableAt(s)[k] = n /\ n # 0
<1>1. n \in 1..s
  BY DEF Holds
<1> DEFINE c == CHOOSE m \in 1..s : Holds(k, s, m)
<1>2. Holds(k, s, c)
  BY <1>1
<1>3. c = n
  <2> HIDE DEF c
  <2> QED BY <1>2, HoldsUnique
<1>4. TableAt(s)[k] = c
  BY <1>1 DEF TableAt
<1> QED BY <1>1, <1>3, <1>4

\* A key nobody holds is absent, and a present key is held.
LEMMA TableLive ==
  ASSUME TypeOK, NEW k \in Keys, NEW s \in Nat
  PROVE  /\ (\A n : ~Holds(k, s, n)) => TableAt(s)[k] = 0
         /\ TableAt(s)[k] # 0 => Holds(k, s, TableAt(s)[k])
<1>1. CASE \E n : Holds(k, s, n)
  BY <1>1, TableHolds
<1>2. CASE \A n : ~Holds(k, s, n)
  BY <1>2 DEF TableAt
<1> QED BY <1>1, <1>2

\* What FindNextUserEntry finds: the first record of the snapshot with a key
\* above low, provided from has all visible entries above low, none that can be
\* seen below skip, and none between skip and low.
LEMMA NextFinds ==
  ASSUME TypeOK, NEW from, from \subseteq Entries, NEW skip \in Int, NEW low \in Int,
         skip <= low,
         \A d \in from : Visible(d) => skip <= key(d),
         \A d \in from : Visible(d) /\ key(d) > skip => key(d) > low,
         \A d \in Entries : Visible(d) /\ key(d) > low => d \in from
  PROVE  LET e == FirstOf(Yielded(from, skip)) IN
         /\ e = NoEntry => \A k \in Keys : k > low => TableAt(it.seq)[k] = 0
         /\ e # NoEntry =>
              /\ e \in Entries /\ key(e) > low /\ Holds(key(e), it.seq, e)
              /\ \A k \in Keys : k > low /\ TableAt(it.seq)[k] # 0 => key(e) <= k
<1> DEFINE Y == Yielded(from, skip)
           e == FirstOf(Y)
<1>0. it.seq \in Nat
  BY DEF TypeOK, Iterator
<1>1. Y \subseteq Entries /\ \A d \in Y : d \in from /\ Visible(d) /\ log[d].put
  BY DEF Yielded
<1>2. ASSUME NEW d \in Y PROVE key(d) > low
  <2>1. d \in from /\ Visible(d) /\ d \in Entries
    BY <1>1
  <2>2. CASE Hiding(from, d) = {}
    BY <2>1, <2>2 DEF Yielded
  <2>3. CASE Hiding(from, d) # {}
    <3>1. PICK x \in Hiding(from, d) : TRUE
      BY <2>3
    <3>2. x \in from /\ Visible(x) /\ Before(x, d) /\ x \in Entries
      BY DEF Hiding
    <3>3. key(x) # key(d)
      BY DEF Yielded
    <3>4. skip <= key(x) /\ key(x) \in Nat /\ key(d) \in Nat
      BY <3>2, <2>1, EntryType
    <3>5. key(d) > skip
      BY <3>2, <3>3, <3>4 DEF Before
    <3> QED BY <2>1, <3>5
  <2> QED BY <2>2, <2>3
<1>3. ASSUME NEW k \in Keys, k > low, NEW n, Holds(k, it.seq, n)
      PROVE  n \in Y
  <2>1. n \in Entries /\ key(n) = k /\ log[n].put /\ Visible(n)
    BY <1>0, <1>3 DEF Holds, Visible
  <2>2. n \in from
    BY <1>3, <2>1
  <2>3. k \in Nat /\ k > skip
    BY <1>3
  <2>4. ASSUME NEW d \in Hiding(from, n) PROVE key(d) # key(n)
    <3>1. d \in Entries /\ Before(d, n) /\ Visible(d) /\ ~log[d].put
      BY DEF Hiding
    <3>2. SUFFICES ASSUME key(d) = key(n) PROVE FALSE
      OBVIOUS
    <3>3. d > n
      BY <3>1, <3>2, <2>1, EntryType DEF Before
    <3>4. d <= n
      BY <3>1, <3>2, <2>1, <1>3 DEF Holds, Visible
    <3> QED BY <3>1, <3>3, <3>4, <2>1, EntryType
  <2> QED BY <2>1, <2>2, <2>3, <2>4 DEF Yielded
<1>4. CASE Y = {}
  <2>1. e = NoEntry
    BY <1>4 DEF FirstOf
  <2>2. ASSUME NEW k \in Keys, k > low PROVE TableAt(it.seq)[k] = 0
    BY <1>0, <1>3, <1>4, <2>2, TableLive
  <2> HIDE DEF Y, e
  <2> QED BY <2>1, <2>2 DEF Y, e
<1>5. CASE Y # {}
  <2>1. e \in Y /\ \A d \in Y : d = e \/ Before(e, d)
    <3> HIDE DEF Y
    <3> QED BY <1>1, <1>5, FirstExists
  <2>2. e \in Entries /\ e \in from /\ Visible(e) /\ log[e].put /\ key(e) > low /\ e # NoEntry
    <3> HIDE DEF Y, e
    <3> QED BY <1>1, <1>2, <2>1, EntryType
  <2>3. ASSUME NEW d \in Entries, key(d) = key(e), Visible(d) PROVE d <= e
    <3>1. d \in Nat /\ e \in Nat /\ key(d) \in Nat
      <4> HIDE DEF e
      <4> QED BY <2>2, EntryType
    <3>2. SUFFICES ASSUME d > e PROVE FALSE
      BY <3>1
    <3>3. Before(d, e) /\ d \in from
      <4> HIDE DEF e
      <4> QED BY <2>2, <2>3, <3>2 DEF Before
    <3>4. log[d].put
      <4>1. SUFFICES ASSUME ~log[d].put PROVE FALSE
        OBVIOUS
      <4>2. d \in Hiding(from, e)
        <5> HIDE DEF e
        <5> QED BY <2>3, <3>3, <4>1 DEF Hiding
      <4>3. \A x \in Hiding(from, e) : key(x) # key(e)
        <5> HIDE DEF e
        <5> QED BY <2>1 DEF Yielded
      <4> HIDE DEF e
      <4> QED BY <2>3, <4>2, <4>3
    <3>5. ASSUME NEW x \in Hiding(from, d) PROVE x \in Hiding(from, e)
      <4>1. x \in from /\ Before(x, d) /\ Visible(x) /\ ~log[x].put
        BY DEF Hiding
      <4>2. x \in Entries /\ key(x) \in Nat /\ x \in Nat
        BY <4>1, EntryType
      <4>3. Before(x, e)
        <5> HIDE DEF e
        <5> QED BY <3>1, <3>3, <4>1, <4>2, <2>3 DEF Before
      <4> HIDE DEF e
      <4> QED BY <4>1, <4>3 DEF Hiding
    <3>6. \A x \in Hiding(from, d) : key(x) # key(d)
      <4>1. \A x \in Hiding(from, e) : key(x) # key(e)
        <5> HIDE DEF e
        <5> QED BY <2>1 DEF Yielded
      <4> HIDE DEF e
      <4> QED BY <3>5, <4>1, <2>3
    <3>7. key(d) > skip
      <4> HIDE DEF e
      <4> QED BY <2>2, <2>3, <3>1
    <3>8. d \in Y
      <4> HIDE DEF e
      <4> QED BY <3>3, <3>4, <3>6, <3>7, <2>3 DEF Yielded
    <3>9. d = e \/ Before(e, d)
      <4> HIDE DEF Y, e
      <4> QED BY <2>1, <3>8
    <3> HIDE DEF Y, e
    <3> QED BY <3>1, <3>2, <3>9, <2>3 DEF Before
  <2>4. Holds(key(e), it.seq, e)
    <3>1. e \in 1..it.seq
      <4>1. e <= it.seq
        BY <2>2 DEF Visible
      <4>2. e \in Nat /\ e # 0
        <5> HIDE DEF e
        <5> QED BY <2>2, EntryType DEF NoEntry
      <4> HIDE DEF e
      <4> QED BY <1>0, <4>1, <4>2
    <3> HIDE DEF Y, e
    <3> QED BY <2>2, <2>3, <3>1 DEF Holds, Visible
  <2>5. ASSUME NEW k \in Keys, k > low, TableAt(it.seq)[k] # 0 PROVE key(e) <= k
    <3> DEFINE n == TableAt(it.seq)[k]
    <3>1. Holds(k, it.seq, n)
      BY <1>0, <2>5, TableLive
    <3> HIDE DEF n, Y, e
    <3>2. n \in Y
      BY <1>3, <2>5, <3>1
    <3>3. n \in Entries /\ key(n) = k
      BY <3>1 DEF Holds
    <3>4. n = e \/ Before(e, n)
      BY <2>1, <3>2
    <3> QED BY <3>3, <3>4, <2>2, EntryType DEF Before
  <2> HIDE DEF Y, e
  <2> QED BY <2>2, <2>4, <2>5 DEF Y, e
<1> QED BY <1>4, <1>5

\* What FindPrevUserEntry finds, when from has exactly the visible entries of
\* the keys of Q, which has all keys below its own: the keys of Q that the
\* snapshot has, their values, and a place to rest between k and smaller keys.
LEMMA PrevFinds ==
  ASSUME TypeOK, NEW from, from \subseteq Entries, NEW Q, Q \subseteq Keys,
         \A d \in Entries : Visible(d) => (d \in from <=> key(d) \in Q),
         \A j \in Keys, k \in Q : j < k => j \in Q
  PROVE  /\ LiveKeys(from) = {k \in Q : TableAt(it.seq)[k] # 0}
         /\ \A k \in LiveKeys(from) :
              /\ Holds(k, it.seq, Newest(from, k))
              /\ Resting(from, k) \in Entries \cup {NoEntry}
              /\ \A e \in Entries :
                   Visible(e) =>
                     (key(e) < k <=> Resting(from, k) # NoEntry /\ e \in Passed(Resting(from, k)))
<1>0. it.seq \in Nat
  BY DEF TypeOK, Iterator
<1>1. ASSUME NEW k \in Keys, NEW S, S = {e \in from : key(e) = k /\ Visible(e)}, S # {}
      PROVE  /\ Newest(from, k) \in S
             /\ \A d \in S : d <= Newest(from, k)
  <2> DEFINE n == FirstOf(S)
  <2>0. n = Newest(from, k)
    BY <1>1 DEF Newest
  <2>1. S \subseteq Entries
    BY <1>1
  <2>2. n \in S /\ \A d \in S : d = n \/ Before(n, d)
    BY <1>1, <2>1, FirstExists
  <2> HIDE DEF n
  <2>3. ASSUME NEW d \in S PROVE d <= n
    <3>1. key(d) = key(n) /\ d \in Entries /\ n \in Entries
      BY <1>1, <2>1, <2>2
    <3>2. d = n \/ Before(n, d)
      BY <2>2
    <3> QED BY <3>1, <3>2, EntryType DEF Before
  <2> QED BY <2>0, <2>2, <2>3
<1>2. ASSUME NEW k \in LiveKeys(from)
      PROVE  k \in Q /\ Holds(k, it.seq, Newest(from, k))
  <2> DEFINE S == {e \in from : key(e) = k /\ Visible(e)}
             n == Newest(from, k)
  <2>1. k \in Keys /\ n # NoEntry /\ log[n].put
    BY DEF LiveKeys
  <2>2. S # {}
    BY <2>1 DEF Newest, FirstOf
  <2>3. n \in S /\ \A d \in S : d <= n
    <3> HIDE DEF S, n
    <3> QED BY <1>1, <2>1, <2>2 DEF S, n
  <2> HIDE DEF n
  <2>4. n \in from /\ n \in Entries /\ key(n) = k /\ Visible(n)
    BY <2>3
  <2>5. k \in Q
    BY <2>4
  <2>6. n \in 1..it.seq
    BY <1>0, <2>4, EntryType DEF Visible, NoEntry
  <2>7. ASSUME NEW d \in Entries, key(d) = k, d <= it.seq PROVE d <= n
    <3>1. d \in S
      BY <2>5, <2>7 DEF Visible
    <3> QED BY <2>3, <3>1
  <2>8. Holds(k, it.seq, n)
    BY <2>1, <2>4, <2>6, <2>7 DEF Holds
  <2> QED BY <2>5, <2>8 DEF n
<1>3. ASSUME NEW k \in Q, TableAt(it.seq)[k] # 0
      PROVE  k \in LiveKeys(from)
  <2> DEFINE S == {e \in from : key(e) = k /\ Visible(e)}
             n == Newest(from, k)
             m == TableAt(it.seq)[k]
  <2>1. k \in Keys /\ Holds(k, it.seq, m)
    BY <1>0, <1>3, TableLive
  <2> HIDE DEF m
  <2>2. m \in Entries /\ key(m) = k /\ Visible(m) /\ log[m].put
    BY <1>0, <2>1 DEF Holds, Visible
  <2>3. m \in S
    BY <2>2
  <2>4. n \in S /\ \A d \in S : d <= n
    <3>1. S # {}
      BY <2>3
    <3> HIDE DEF S, n
    <3> QED BY <1>1, <2>1, <3>1 DEF S, n
  <2> HIDE DEF n
  <2>5. n <= m
    BY <2>1, <2>4 DEF Holds, Visible
  <2>6. n = m
    BY <2>2, <2>3, <2>4, <2>5, EntryType
  <2>7. n # NoEntry /\ log[n].put
    BY <2>2, <2>6, EntryType
  <2> QED BY <2>1, <2>7 DEF LiveKeys, n
<1>4. ASSUME NEW k \in LiveKeys(from)
      PROVE  /\ Resting(from, k) \in Entries \cup {NoEntry}
             /\ \A e \in Entries :
                  Visible(e) =>
                    (key(e) < k <=> Resting(from, k) # NoEntry /\ e \in Passed(Resting(from, k)))
  <2> DEFINE S == {e \in from : Visible(e) /\ key(e) < k}
             p == LastOf(S)
  <2>0. k \in Q /\ k \in Keys
    BY <1>2
  <2>1. \A e \in Entries : Visible(e) /\ key(e) < k => e \in S
    BY <2>0, EntryType
  <2>2. CASE S = {}
    <3>1. p = NoEntry
      BY <2>2 DEF LastOf
    <3> HIDE DEF S
    <3> QED BY <2>1, <2>2, <3>1 DEF Resting, S
  <2>3. CASE S # {}
    <3>1. p \in S /\ \A d \in S : d = p \/ Before(d, p)
      <4>1. S \subseteq Entries
        OBVIOUS
      <4> HIDE DEF S
      <4> QED BY <2>3, <4>1, LastExists
    <3>2. p \in Entries /\ key(p) < k
      <4> HIDE DEF p
      <4> QED BY <3>1
    <3>3. p = Resting(from, k)
      BY DEF Resting
    <3> HIDE DEF p
    <3>4. ASSUME NEW e \in Entries, Visible(e) PROVE key(e) < k <=> e \in Passed(p)
      <4>1. ASSUME key(e) < k PROVE e \in Passed(p)
        <5>1. e \in S
          BY <2>1, <3>4, <4>1
        <5> HIDE DEF S
        <5> QED BY <3>1, <5>1 DEF Passed
      <4>2. ASSUME e \in Passed(p) PROVE key(e) < k
        <5>1. e = p \/ Before(e, p)
          BY <4>2 DEF Passed
        <5>2. key(e) <= key(p)
          BY <3>2, <5>1, EntryType DEF Before
        <5> QED BY <2>0, <3>2, <5>2, EntryType
      <4> QED BY <4>1, <4>2
    <3>5. p # NoEntry
      BY <3>2, EntryType
    <3> QED BY <3>2, <3>3, <3>4, <3>5
  <2> QED BY <2>2, <2>3
<1>5. LiveKeys(from) = {k \in Q : TableAt(it.seq)[k] # 0}
  <2>1. ASSUME NEW k \in LiveKeys(from) PROVE k \in Q /\ TableAt(it.seq)[k] # 0
    <3>1. k \in Keys
      BY DEF LiveKeys
    <3> QED BY <1>0, <1>2, <3>1, TableHolds
  <2> QED BY <1>3, <2>1
<1> QED BY <1>2, <1>4, <1>5

-----------------------------------------------------------------------------
(* The inductive invariant.                                                *)

\* A valid cursor is on a record of its snapshot.
OnRecord ==
  it.valid => /\ it.fwd => it.pos \in Entries /\ Holds(key(it.pos), it.seq, it.pos)
              /\ ~it.fwd => it.key \in Keys /\ Holds(it.key, it.seq, it.val)

IInv == TypeOK /\ OnRecord /\ RestsBetween

\* A move of the cursor changes neither the table nor the snapshot.
LEMMA TableSame ==
  ASSUME log' = log, it'.seq = it.seq
  PROVE  /\ TableAt(Len(log))' = TableAt(Len(log))
         /\ TableAt(it.seq)' = TableAt(it.seq)
         /\ \A k, n : Holds(k, it.seq, n)' <=> Holds(k, it.seq, n)
BY Zenon DEF TableAt, Holds, Entries, key

\* The record a cursor is on, as CursorSpec sees it.
LEMMA Standing ==
  ASSUME IInv, it.valid
  PROVE  /\ it.fwd => Here = <<key(it.pos), TableAt(it.seq)[key(it.pos)]>> /\ key(it.pos) \in Keys
         /\ ~it.fwd => Here = <<it.key, TableAt(it.seq)[it.key]>> /\ it.key \in Keys
<1>0. it.seq \in Nat /\ TypeOK
  BY DEF IInv, TypeOK, Iterator
<1>1. CASE it.fwd
  <2>1. it.pos \in Entries /\ Holds(key(it.pos), it.seq, it.pos)
    BY <1>1 DEF IInv, OnRecord
  <2>2. key(it.pos) \in Keys
    BY <1>0, <2>1, EntryType
  <2>3. TableAt(it.seq)[key(it.pos)] = it.pos
    BY <1>0, <2>1, <2>2, TableHolds
  <2> QED BY <1>1, <2>2, <2>3 DEF Here
<1>2. CASE ~it.fwd
  <2>1. it.key \in Keys /\ Holds(it.key, it.seq, it.val)
    BY <1>2 DEF IInv, OnRecord
  <2>2. TableAt(it.seq)[it.key] = it.val
    BY <1>0, <2>1, TableHolds
  <2> QED BY <1>2, <2>1, <2>2 DEF Here
<1> QED BY <1>1, <1>2

\* A forward scan moves the cursor to the first record above low.
LEMMA ForwardMove ==
  ASSUME IInv, NEW from, from \subseteq Entries, NEW skip \in Int, NEW low \in Int,
         skip <= low,
         \A d \in from : Visible(d) => skip <= key(d),
         \A d \in from : Visible(d) /\ key(d) > skip => key(d) > low,
         \A d \in Entries : Visible(d) /\ key(d) > low => d \in from,
         FindNextUserEntry(from, skip), Moved
  PROVE  IInv' /\ Abs!ToLeast({k \in Abs!Live : k > low})
<1> SUFFICES ASSUME NEW e, e = FirstOf(Yielded(from, skip))
             PROVE  IInv' /\ Abs!ToLeast({k \in Abs!Live : k > low})
  OBVIOUS
<1> DEFINE T == TableAt(it.seq)
<1>0. TypeOK /\ it \in Iterator /\ it.seq \in Nat /\ it.seq <= Len(log) /\ log \in Seq(Entry)
  BY DEF IInv, TypeOK, Iterator
<1>1. /\ e = NoEntry => \A k \in Keys : k > low => T[k] = 0
      /\ e # NoEntry => /\ e \in Entries /\ key(e) > low /\ Holds(key(e), it.seq, e)
                        /\ \A k \in Keys : k > low /\ T[k] # 0 => key(e) <= k
  BY <1>0, NextFinds
<1>2. it' = [it EXCEPT !.fwd = TRUE, !.pos = e, !.valid = e # NoEntry, !.key = -1, !.val = NoEntry]
  BY DEF FindNextUserEntry
<1>3. log' = log /\ turn' = ~turn /\ proc' = proc
  BY DEF Moved
<1>4. /\ it'.seq = it.seq /\ it'.fwd = TRUE /\ it'.pos = e /\ it'.valid = (e # NoEntry)
      /\ it'.key = -1 /\ it'.val = NoEntry
  BY <1>0, <1>2 DEF Iterator
<1>5. e \in Nat /\ e <= Len(log)
  <2>1. CASE e = NoEntry
    BY <1>0, <2>1 DEF NoEntry
  <2>2. CASE e # NoEntry
    BY <1>0, <1>1, <2>2 DEF Entries
  <2> QED BY <2>1, <2>2
<1>6. TypeOK'
  <2>1. it' \in Iterator
    BY <1>0, <1>2, <1>5 DEF Iterator, NoEntry
  <2>2. it'.seq <= Len(log') /\ it'.pos <= Len(log') /\ it'.val <= Len(log')
    BY <1>0, <1>3, <1>4, <1>5 DEF NoEntry
  <2>3. turn' \in BOOLEAN /\ proc' \in {"up", "aborted"}
    BY <1>0, <1>3 DEF TypeOK
  <2> QED BY <1>0, <1>3, <2>1, <2>2, <2>3 DEF TypeOK
<1>7. /\ Entries' = Entries /\ key(e)' = key(e)
      /\ \A k, n : Holds(k, it.seq, n)' <=> Holds(k, it.seq, n)
  <2>1. \A k, n : Holds(k, it.seq, n)' <=> Holds(k, it.seq, n)
    BY <1>3, <1>4, TableSame
  <2>2. Entries' = Entries /\ key(e)' = key(e)
    BY <1>3 DEF Entries, key
  <2> QED BY <2>1, <2>2
<1>8. OnRecord'
  <2>1. SUFFICES ASSUME e # NoEntry PROVE e \in Entries' /\ Holds(key(e), it.seq, e)'
    BY <1>3, <1>4 DEF OnRecord, Holds, Entries, key
  <2> QED BY <1>1, <1>7, <2>1
<1>9. RestsBetween'
  BY <1>4 DEF RestsBetween
<1>10. TableAt(it.seq)' = T /\ TableAt(Len(log))' = TableAt(Len(log))
  BY <1>3, <1>4, TableSame
<1> DEFINE S == {k \in Abs!Live : k > low}
<1>11. S = {k \in Keys : T[k] # 0 /\ k > low}
  BY DEF Abs!Live
<1>12. CASE e = NoEntry
  <2>1. S = {}
    BY <1>1, <1>11, <1>12
  <2>2. (IF it.valid THEN Here ELSE <<>>)' = <<>>
    BY <1>4, <1>12
  <2> HIDE DEF S, T
  <2>3. Abs!ToLeast(S)
    BY <1>10, <2>1, <2>2 DEF Abs!ToLeast, T
  <2> QED BY <1>6, <1>8, <1>9, <2>3 DEF IInv, S
<1>13. CASE e # NoEntry
  <2>1. key(e) \in Keys /\ T[key(e)] = e /\ e # 0
    BY <1>0, <1>1, <1>13, EntryType, TableHolds DEF NoEntry
  <2>2. key(e) \in S /\ \A j \in S : key(e) <= j
    BY <1>1, <1>11, <1>13, <2>1
  <2>3. (IF it.valid THEN Here ELSE <<>>)' = <<key(e), T[key(e)]>>
    BY <1>4, <1>7, <1>13, <2>1 DEF Here, key
  <2> HIDE DEF S, T
  <2>4. Abs!ToLeast(S)
    BY <1>10, <2>2, <2>3 DEF Abs!ToLeast, T
  <2> QED BY <1>6, <1>8, <1>9, <2>4 DEF IInv, S
<1> QED BY <1>12, <1>13

\* A cursor that runs off its records keeps the invariant.
LEMMA RunsOff ==
  ASSUME IInv, Moved,
         it' = [it EXCEPT !.valid = FALSE, !.fwd = TRUE, !.pos = NoEntry, !.key = -1, !.val = NoEntry]
  PROVE  /\ IInv' /\ (IF it.valid THEN Here ELSE <<>>)' = <<>>
         /\ TableAt(it.seq)' = TableAt(it.seq) /\ TableAt(Len(log))' = TableAt(Len(log))
<1>0. TypeOK /\ it \in Iterator /\ it.seq \in Nat /\ it.seq <= Len(log) /\ log \in Seq(Entry)
  BY DEF IInv, TypeOK, Iterator
<1>1. log' = log /\ turn' = ~turn /\ proc' = proc
  BY DEF Moved
<1>2. it'.seq = it.seq /\ it'.valid = FALSE /\ it'.pos = NoEntry /\ it'.val = NoEntry
  BY <1>0 DEF Iterator
<1>3. it' \in Iterator
  BY <1>0 DEF Iterator, NoEntry
<1>4. it'.seq <= Len(log') /\ it'.pos <= Len(log') /\ it'.val <= Len(log')
  BY <1>0, <1>1, <1>2 DEF NoEntry
<1>5. turn' \in BOOLEAN /\ proc' \in {"up", "aborted"}
  BY <1>0, <1>1 DEF TypeOK
<1>6. TypeOK'
  BY <1>0, <1>1, <1>3, <1>4, <1>5 DEF TypeOK
<1>7. OnRecord' /\ RestsBetween'
  BY <1>2 DEF OnRecord, RestsBetween
<1>8. TableAt(it.seq)' = TableAt(it.seq) /\ TableAt(Len(log))' = TableAt(Len(log))
  BY <1>1, <1>2, TableSame
<1> QED BY <1>2, <1>6, <1>7, <1>8 DEF IInv

\* A backward scan moves the cursor to the last record of Q.
LEMMA BackwardMove ==
  ASSUME IInv, NEW from, from \subseteq Entries, NEW Q, Q \subseteq Keys,
         \A d \in Entries : Visible(d) => (d \in from <=> key(d) \in Q),
         \A j \in Keys, k \in Q : j < k => j \in Q,
         FindPrevUserEntry(from), Moved
  PROVE  IInv' /\ Abs!ToGreatest({k \in Abs!Live : k \in Q})
<1> DEFINE T == TableAt(it.seq)
           S == {k \in Abs!Live : k \in Q}
<1>0. TypeOK /\ it \in Iterator /\ it.seq \in Nat /\ it.seq <= Len(log) /\ log \in Seq(Entry)
  BY DEF IInv, TypeOK, Iterator
<1>1. /\ LiveKeys(from) = {k \in Q : T[k] # 0}
      /\ \A k \in LiveKeys(from) :
           /\ Holds(k, it.seq, Newest(from, k))
           /\ Resting(from, k) \in Entries \cup {NoEntry}
           /\ \A e \in Entries :
                Visible(e) =>
                  (key(e) < k <=> Resting(from, k) # NoEntry /\ e \in Passed(Resting(from, k)))
  BY <1>0, PrevFinds
<1>2. S = LiveKeys(from)
  BY <1>1 DEF Abs!Live
<1>3. CASE /\ LiveKeys(from) = {}
           /\ it' = [it EXCEPT !.valid = FALSE, !.fwd = TRUE, !.pos = NoEntry, !.key = -1, !.val = NoEntry]
  <2>1. /\ IInv' /\ (IF it.valid THEN Here ELSE <<>>)' = <<>>
        /\ TableAt(it.seq)' = TableAt(it.seq) /\ TableAt(Len(log))' = TableAt(Len(log))
    BY <1>3, RunsOff
  <2>2. S = {}
    BY <1>2, <1>3
  <2> HIDE DEF S, T
  <2>3. Abs!ToGreatest(S)
    BY <2>1, <2>2 DEF Abs!ToGreatest
  <2> QED BY <2>1, <2>3 DEF S
<1>4. ASSUME NEW k \in LiveKeys(from), \A j \in LiveKeys(from) : j <= k,
             NEW p, p = Resting(from, k), NEW n, n = Newest(from, k),
             it' = [it EXCEPT !.valid = TRUE, !.fwd = FALSE, !.pos = p, !.key = k, !.val = n]
      PROVE  IInv' /\ Abs!ToGreatest(S)
  <2>1. /\ it'.seq = it.seq /\ it'.valid = TRUE /\ it'.fwd = FALSE
        /\ it'.pos = p /\ it'.key = k /\ it'.val = n
    BY <1>0, <1>4 DEF Iterator
  <2>2. log' = log /\ turn' = ~turn /\ proc' = proc
    BY DEF Moved
  <2>3. /\ Holds(k, it.seq, n) /\ p \in Entries \cup {NoEntry}
        /\ \A e \in Entries : Visible(e) => (key(e) < k <=> p # NoEntry /\ e \in Passed(p))
    BY <1>1, <1>4
  <2>4. k \in Keys /\ k \in Q /\ n \in Entries
    BY <1>1, <2>3 DEF Holds
  <2>5. p \in Nat /\ p <= Len(log) /\ n \in Nat /\ n <= Len(log)
    BY <1>0, <2>3, <2>4 DEF Entries, NoEntry
  <2>6. TypeOK'
    <3>1. it' \in Iterator
      BY <1>0, <1>4, <2>4, <2>5 DEF Iterator
    <3>2. it'.seq <= Len(log') /\ it'.pos <= Len(log') /\ it'.val <= Len(log')
      BY <1>0, <2>1, <2>2, <2>5
    <3>3. turn' \in BOOLEAN /\ proc' \in {"up", "aborted"}
      BY <1>0, <2>2 DEF TypeOK
    <3> QED BY <1>0, <2>2, <3>1, <3>2, <3>3 DEF TypeOK
  <2>7. /\ Holds(k, it.seq, n)'
        /\ TableAt(it.seq)' = T /\ TableAt(Len(log))' = TableAt(Len(log))
    BY <2>1, <2>2, <2>3, TableSame
  <2>8. OnRecord'
    <3>1. Holds(it.key, it.seq, it.val)'
      BY <2>1, <2>7 DEF Holds
    <3> QED BY <2>1, <2>4, <3>1 DEF OnRecord
  <2>9. RestsBetween'
    BY <2>1, <2>2, <2>3 DEF RestsBetween, Visible, Entries, Passed, Before, key
  <2>10. (IF it.valid THEN Here ELSE <<>>)' = <<k, T[k]>>
    <3>1. T[k] = n
      BY <1>0, <2>3, <2>4, TableHolds
    <3> QED BY <2>1, <3>1 DEF Here
  <2>11. k \in S /\ \A j \in S : j <= k
    BY <1>2, <1>4
  <2> HIDE DEF S, T
  <2>12. Abs!ToGreatest(S)
    BY <2>7, <2>10, <2>11 DEF Abs!ToGreatest, T
  <2> QED BY <2>6, <2>8, <2>9, <2>12 DEF IInv
<1>5. (LiveKeys(from) = {}
         /\ it' = [it EXCEPT !.valid = FALSE, !.fwd = TRUE, !.pos = NoEntry, !.key = -1, !.val = NoEntry])
      \/ \E k \in LiveKeys(from) :
           /\ \A j \in LiveKeys(from) : j <= k
           /\ it' = [it EXCEPT !.valid = TRUE, !.fwd = FALSE, !.pos = Resting(from, k),
                               !.key = k, !.val = Newest(from, k)]
  BY DEF FindPrevUserEntry
<1> HIDE DEF S, T
<1>6. CASE \E k \in LiveKeys(from) :
             /\ \A j \in LiveKeys(from) : j <= k
             /\ it' = [it EXCEPT !.valid = TRUE, !.fwd = FALSE, !.pos = Resting(from, k),
                                 !.key = k, !.val = Newest(from, k)]
  BY <1>4, <1>6 DEF S
<1> QED BY <1>3, <1>5, <1>6

-----------------------------------------------------------------------------
(* The calls.                                                              *)

\* Two entries are equal or one of them comes first.
LEMMA BeforeTotal ==
  ASSUME TypeOK, NEW d \in Entries, NEW e \in Entries
  PROVE  d = e \/ (Before(d, e) <=> ~Before(e, d))
BY EntryType DEF Before

\* cursor.first().
LEMMA FirstMoves ==
  ASSUME IInv, SeekToFirst
  PROVE  IInv' /\ Abs!First
<1>1. TypeOK /\ FindNextUserEntry(Entries, -1) /\ Moved
  BY DEF IInv, SeekToFirst
<1>2. \A d \in Entries : key(d) \in Nat
  BY <1>1, EntryType
<1>3. IInv' /\ Abs!ToLeast({k \in Abs!Live : k > -1})
  BY <1>1, <1>2, ForwardMove
<1>4. Abs!Live \subseteq Nat
  BY DEF Abs!Live
<1>5. {k \in Abs!Live : k > -1} = Abs!Live
  <2>1. \A k \in Abs!Live : k > -1
    BY <1>4
  <2> QED BY <2>1, Zenon
<1> QED BY <1>3, <1>5 DEF Abs!First

\* cursor.gte(target).
LEMMA GteMoves ==
  ASSUME IInv, NEW target \in Keys, Seek(target)
  PROVE  IInv' /\ Abs!Gte(target)
<1> SUFFICES ASSUME NEW low \in Int, low = target - 1
             PROVE  IInv' /\ Abs!Gte(target)
  OBVIOUS
<1> DEFINE from == {e \in Entries : key(e) > target \/ (key(e) = target /\ Visible(e))}
<1>1. TypeOK /\ FindNextUserEntry(from, -1) /\ Moved
  BY DEF IInv, Seek
<1>2. \A d \in Entries : key(d) \in Nat
  BY <1>1, EntryType
<1>3. /\ \A d \in from : Visible(d) => -1 <= key(d)
      /\ \A d \in from : Visible(d) /\ key(d) > -1 => key(d) > low
      /\ \A d \in Entries : Visible(d) /\ key(d) > low => d \in from
  BY <1>2
<1>4. from \subseteq Entries /\ -1 <= low /\ -1 \in Int
  OBVIOUS
<1> HIDE DEF from
<1>5. IInv' /\ Abs!ToLeast({k \in Abs!Live : k > low})
  BY <1>1, <1>3, <1>4, ForwardMove
<1>6. Abs!Live \subseteq Nat
  BY DEF Abs!Live
<1>7. {k \in Abs!Live : k > low} = {k \in Abs!Live : k >= target}
  <2>1. \A k \in Abs!Live : k > low <=> k >= target
    BY <1>6
  <2> QED BY <2>1, Zenon
<1> QED BY <1>5, <1>7 DEF Abs!Gte

\* cursor.last().
LEMMA LastMoves ==
  ASSUME IInv, SeekToLast
  PROVE  IInv' /\ Abs!Last
<1>1. TypeOK /\ FindPrevUserEntry(Entries) /\ Moved
  BY DEF IInv, SeekToLast
<1>2. \A d \in Entries : key(d) \in Keys
  BY <1>1, EntryType
<1>3. IInv' /\ Abs!ToGreatest({k \in Abs!Live : k \in Keys})
  BY <1>1, <1>2, BackwardMove
<1>4. {k \in Abs!Live : k \in Keys} = Abs!Live
  BY DEF Abs!Live
<1> QED BY <1>3, <1>4 DEF Abs!Last

\* cursor.next().
LEMMA NextMoves ==
  ASSUME IInv, NextEntry
  PROVE  IInv' /\ Abs!NextKey
<1> DEFINE low == IF it.fwd THEN key(it.pos) ELSE it.key
<1>0. TypeOK /\ it.valid /\ Moved /\ RestsBetween
  BY DEF IInv, NextEntry
<1>1. low \in Nat /\ it.valid /\ Here[1] = low /\ Here # <<>>
  <2>1. low \in Keys /\ Here = <<low, TableAt(it.seq)[low]>>
    BY <1>0, Standing
  <2> HIDE DEF low
  <2> QED BY <1>0, <2>1
<1>2. IInv' /\ Abs!ToLeast({k \in Abs!Live : k > low})
  <2>1. CASE it.fwd /\ FindNextUserEntry(Rest(it.pos), key(it.pos))
    <3> DEFINE from == Rest(it.pos)
    <3>1. it.pos \in Entries
      BY <2>1, <1>0 DEF IInv, OnRecord
    <3>2. /\ \A d \in from : key(d) >= key(it.pos)
          /\ \A d \in Entries : key(d) > key(it.pos) => d \in from
      BY <1>0, <3>1, EntryType DEF Rest, Before
    <3>3. from \subseteq Entries /\ low = key(it.pos)
      BY <2>1 DEF Rest
    <3> HIDE DEF from
    <3>4. IInv' /\ Abs!ToLeast({k \in Abs!Live : k > key(it.pos)})
      BY <1>0, <1>1, <2>1, <3>2, <3>3, ForwardMove DEF from
    <3> QED BY <3>3, <3>4
  <2>2. CASE ~it.fwd /\ it.pos = NoEntry /\ FindNextUserEntry(Entries, it.key)
    <3>1. \A d \in Entries : Visible(d) => it.key <= key(d)
      BY <1>0, <1>1, <2>2, EntryType DEF RestsBetween
    <3>2. low = it.key
      BY <2>2
    <3>3. IInv' /\ Abs!ToLeast({k \in Abs!Live : k > it.key})
      BY <1>0, <1>1, <2>2, <3>1, <3>2, ForwardMove
    <3> QED BY <3>2, <3>3
  <2>3. CASE ~it.fwd /\ it.pos # NoEntry /\ FindNextUserEntry(Rest(it.pos) \ {it.pos}, it.key)
    <3> DEFINE from == Rest(it.pos) \ {it.pos}
    <3>1. it.pos \in Entries
      BY <1>0, <2>3 DEF TypeOK, Iterator, Entries, NoEntry
    <3>2. low = it.key /\ from \subseteq Entries
      BY <2>3 DEF Rest
    <3>3. ASSUME NEW d \in Entries
          PROVE  d \in from <=> d \notin Passed(it.pos)
      BY <1>0, <3>1, BeforeTotal DEF Rest, Passed
    <3>4. \A d \in Entries : Visible(d) => (key(d) < it.key <=> d \notin from)
      BY <1>0, <2>3, <3>3 DEF RestsBetween
    <3>5. /\ \A d \in from : Visible(d) => it.key <= key(d)
          /\ \A d \in Entries : Visible(d) /\ key(d) > it.key => d \in from
      <4> HIDE DEF from
      <4> QED BY <1>0, <1>1, <3>2, <3>4, EntryType
    <3> HIDE DEF from
    <3>6. it.key \in Nat /\ FindNextUserEntry(from, it.key)
      BY <1>1, <2>3, <3>2 DEF from
    <3>7. IInv' /\ Abs!ToLeast({k \in Abs!Live : k > it.key})
      BY <1>0, <3>2, <3>5, <3>6, ForwardMove
    <3> QED BY <3>2, <3>7
  <2> QED BY <2>1, <2>2, <2>3 DEF NextEntry
<1> HIDE DEF low
<1> QED BY <1>1, <1>2 DEF Abs!NextKey

\* cursor.prev().
LEMMA PrevMoves ==
  ASSUME IInv, PrevEntry
  PROVE  IInv' /\ Abs!PrevKey
<1> SUFFICES ASSUME NEW top, top = (IF it.fwd THEN key(it.pos) ELSE it.key)
             PROVE  IInv' /\ Abs!PrevKey
  OBVIOUS
<1> DEFINE Q == {k \in Keys : k < top}
           smaller == {e \in Entries : key(e) < key(it.pos)}
<1>0. TypeOK /\ it.valid /\ Moved /\ RestsBetween /\ it \in Iterator
  BY DEF IInv, PrevEntry, TypeOK
<1>1. top \in Nat /\ it.valid /\ Here[1] = top /\ Here # <<>>
  <2>1. top \in Keys /\ Here = <<top, TableAt(it.seq)[top]>>
    BY <1>0, Standing
  <2> QED BY <1>0, <2>1
<1>2. Q \subseteq Keys /\ \A j \in Keys, k \in Q : j < k => j \in Q
  BY <1>1
<1>3. {k \in Abs!Live : k \in Q} = {k \in Abs!Live : k < top}
  BY DEF Abs!Live
<1>4. ASSUME NEW d \in Entries PROVE key(d) \in Q <=> key(d) < top
  BY <1>0, EntryType
<1> HIDE DEF Q
<1>5. IInv' /\ Abs!ToGreatest({k \in Abs!Live : k < top})
  <2>1. CASE it.fwd /\ FindPrevUserEntry(smaller)
    <3>1. smaller \subseteq Entries /\ \A d \in Entries : d \in smaller <=> key(d) \in Q
      BY <1>4, <2>1
    <3> HIDE DEF smaller
    <3> QED BY <1>0, <1>2, <1>3, <2>1, <3>1, BackwardMove
  <2>2. CASE /\ it.fwd /\ smaller = {}
             /\ it' = [it EXCEPT !.valid = FALSE, !.pos = NoEntry, !.key = -1, !.val = NoEntry]
    <3>1. it' = [it EXCEPT !.valid = FALSE, !.fwd = TRUE, !.pos = NoEntry, !.key = -1, !.val = NoEntry]
      BY <1>0, <2>2 DEF Iterator
    <3>2. /\ IInv' /\ (IF it.valid THEN Here ELSE <<>>)' = <<>>
          /\ TableAt(it.seq)' = TableAt(it.seq) /\ TableAt(Len(log))' = TableAt(Len(log))
      BY <1>0, <3>1, RunsOff
    <3>3. ASSUME NEW k \in Abs!Live, k < top PROVE FALSE
      <4>1. k \in Keys /\ TableAt(it.seq)[k] # 0
        BY DEF Abs!Live
      <4>2. Holds(k, it.seq, TableAt(it.seq)[k])
        BY <1>0, <4>1, TableLive DEF Iterator
      <4>3. TableAt(it.seq)[k] \in smaller
        BY <2>2, <3>3, <4>2 DEF Holds
      <4> QED BY <2>2, <4>3
    <3>4. {k \in Abs!Live : k < top} = {}
      BY <3>3
    <3> QED BY <3>2, <3>4 DEF Abs!ToGreatest
  <2>3. CASE ~it.fwd /\ FindPrevUserEntry(IF it.pos = NoEntry THEN {} ELSE Passed(it.pos))
    <3> DEFINE from == IF it.pos = NoEntry THEN {} ELSE Passed(it.pos)
    <3>1. from \subseteq Entries
      BY DEF Passed
    <3>2. \A d \in Entries : Visible(d) => (d \in from <=> key(d) \in Q)
      BY <1>0, <1>4, <2>3 DEF RestsBetween
    <3> HIDE DEF from
    <3>3. FindPrevUserEntry(from)
      BY <2>3 DEF from
    <3> QED BY <1>0, <1>2, <1>3, <3>1, <3>2, <3>3, BackwardMove
  <2> QED BY <2>1, <2>2, <2>3 DEF PrevEntry
<1> QED BY <1>1, <1>5 DEF Abs!PrevKey

-----------------------------------------------------------------------------
(* Writes, and a new cursor.                                               *)

\* What a write does to the entries.
LEMMA LogGrows ==
  ASSUME TypeOK, NEW k \in Keys, NEW put \in BOOLEAN,
         log' = Append(log, [key |-> k, put |-> put]), NEW top, top = Len(log) + 1
  PROVE  /\ log' \in Seq(Entry) /\ Len(log') = top /\ top \in Nat
         /\ Entries' = Entries \cup {top}
         /\ \A e \in Entries : log'[e] = log[e]
         /\ log'[top].key = k /\ log'[top].put = put
<1>1. log \in Seq(Entry)
  BY DEF TypeOK
<1>2. [key |-> k, put |-> put] \in Entry
  BY DEF Entry
<1> DEFINE r == [key |-> k, put |-> put]
<1>3. r.key = k /\ r.put = put
  OBVIOUS
<1> HIDE DEF r
<1>4. /\ log' \in Seq(Entry) /\ Len(log') = top /\ top \in Nat
      /\ \A e \in 1..Len(log) : log'[e] = log[e]
      /\ log'[top] = r
  BY <1>1, <1>2 DEF r
<1>5. Entries' = Entries \cup {top}
  BY <1>1, <1>4 DEF Entries
<1> QED BY <1>3, <1>4, <1>5 DEF Entries

\* After a write, a reader at an older number finds what it found before.
LEMMA HoldsOld ==
  ASSUME TypeOK, NEW k \in Keys, NEW put \in BOOLEAN,
         log' = Append(log, [key |-> k, put |-> put]),
         NEW s \in Nat, s <= Len(log), NEW j, NEW n
  PROVE  Holds(j, s, n)' <=> Holds(j, s, n)
<1> SUFFICES ASSUME NEW top, top = Len(log) + 1
             PROVE  Holds(j, s, n)' <=> Holds(j, s, n)
  OBVIOUS
<1>0. Len(log) \in Nat
  BY DEF TypeOK
<1>1. /\ Entries' = Entries \cup {top}
      /\ \A e \in Entries : log'[e] = log[e]
  BY LogGrows
<1>2. ~(top <= s)
  BY <1>0
<1>3. \A d \in Entries' : d <= s <=> d \in Entries /\ d <= s
  BY <1>1, <1>2
<1>4. n \in 1..s => n <= s
  OBVIOUS
<1>5. n \in 1..s /\ n \in Entries' <=> n \in 1..s /\ n \in Entries
  BY <1>1, <1>3, <1>4
<1>6. n \in Entries => log'[n] = log[n]
  BY <1>1
<1>7. (\A d \in Entries' : log'[d].key = j /\ d <= s => d <= n)
        <=> \A d \in Entries : log[d].key = j /\ d <= s => d <= n
  BY <1>1, <1>2
<1> QED BY <1>5, <1>6, <1>7, Zenon DEF Holds, key

\* A reader at the number of the new write finds it, for its key.
LEMMA HoldsNew ==
  ASSUME TypeOK, NEW k \in Keys, NEW put \in BOOLEAN,
         log' = Append(log, [key |-> k, put |-> put]),
         NEW top, top = Len(log) + 1, NEW j, NEW n
  PROVE  Holds(j, top, n)' <=> IF j = k THEN put /\ n = top ELSE Holds(j, Len(log), n)
<1>0. Len(log) \in Nat
  BY DEF TypeOK
<1>1. /\ Entries' = Entries \cup {top} /\ top \in Nat
      /\ \A e \in Entries : log'[e] = log[e]
      /\ log'[top].key = k /\ log'[top].put = put
  BY LogGrows
<1>2. /\ \A d \in Entries : d # top /\ d <= Len(log) /\ d <= top /\ d \in Nat
      /\ top \in 1..top
  BY <1>0 DEF Entries
<1>3. CASE j = k
  <2>1. Holds(j, top, n)' => n = top /\ put
    BY <1>1, <1>2, <1>3 DEF Holds, key
  <2>2. put => Holds(j, top, top)'
    BY <1>1, <1>2, <1>3 DEF Holds, key
  <2> QED BY <1>3, <2>1, <2>2
<1>4. CASE j # k
  <2>1. Holds(j, top, n)' => n \in Entries
    BY <1>1, <1>4 DEF Holds, key
  <2>2. n \in Entries => n \in 1..top /\ n \in 1..Len(log)
    BY <1>0 DEF Entries
  <2> QED BY <1>1, <1>2, <1>4, <2>1, <2>2 DEF Holds, key
<1> QED BY <1>3, <1>4

\* The table after a step, at a number s, is determined by who holds a key.
LEMMA TableAfter ==
  ASSUME NEW s, NEW j \in Keys
  PROVE  /\ (\A n : ~Holds(j, s, n)') => TableAt(s)'[j] = 0
         /\ \A n : Holds(j, s, n)' /\ (\A m : Holds(j, s, m)' => m = n) => TableAt(s)'[j] = n
<1> DEFINE P(n) == Holds(j, s, n)'
<1> SUFFICES ASSUME NEW c, c = CHOOSE n \in 1..s : P(n)
             PROVE  /\ (\A n : ~P(n)) => TableAt(s)'[j] = 0
                    /\ \A n : P(n) /\ (\A m : P(m) => m = n) => TableAt(s)'[j] = n
  BY Zenon
<1>1. TableAt(s)'[j] = IF \E n \in 1..s : P(n) THEN c ELSE 0
  BY DEF TableAt
<1>2. \A n : P(n) => n \in 1..s
  BY DEF Holds
<1> HIDE DEF P
<1>3. (\E n \in 1..s : P(n)) => P(c)
  OBVIOUS
<1> QED BY <1>1, <1>2, <1>3

\* A write changes the table at its key and leaves an open cursor where it is.
LEMMA WriteStep ==
  ASSUME IInv, NEW k \in Keys, NEW put \in BOOLEAN, Write(k, put)
  PROVE  IInv' /\ \E v \in 0..MaxWrites : Abs!Write(k, v)
<1> SUFFICES ASSUME NEW top, top = Len(log) + 1
             PROVE  IInv' /\ \E v \in 0..MaxWrites : Abs!Write(k, v)
  OBVIOUS
<1>0. /\ TypeOK /\ it \in Iterator /\ it.seq \in Nat /\ it.seq <= Len(log) /\ Len(log) \in Nat
      /\ log' = Append(log, [key |-> k, put |-> put])
      /\ it' = it /\ turn' = turn /\ proc' = proc /\ Len(log) < MaxWrites
  BY DEF IInv, TypeOK, Iterator, Write
<1>1. /\ log' \in Seq(Entry) /\ Len(log') = top /\ top \in Nat
      /\ Entries' = Entries \cup {top}
      /\ \A e \in Entries : log'[e] = log[e]
  BY <1>0, LogGrows
<1>2. TypeOK'
  <2>1. it'.seq <= Len(log') /\ it'.pos <= Len(log') /\ it'.val <= Len(log')
    BY <1>0, <1>1 DEF TypeOK, Iterator
  <2>2. it' \in Iterator /\ turn' \in BOOLEAN /\ proc' \in {"up", "aborted"}
    BY <1>0 DEF TypeOK
  <2> QED BY <1>1, <2>1, <2>2 DEF TypeOK
<1> SUFFICES ASSUME NEW q, q = it.seq
             PROVE  IInv' /\ \E v \in 0..MaxWrites : Abs!Write(k, v)
  OBVIOUS
<1>3. \A j, n : Holds(j, q, n)' <=> Holds(j, q, n)
  BY <1>0, HoldsOld
<1>4. OnRecord'
  <2>1. CASE it.valid /\ it.fwd
    <3>1. it.pos \in Entries /\ Holds(key(it.pos), q, it.pos)
      BY <2>1 DEF IInv, OnRecord
    <3> SUFFICES ASSUME NEW p, p = it.pos, NEW j, j = key(it.pos)
                 PROVE  OnRecord'
      OBVIOUS
    <3>2. Holds(j, q, p)' /\ p \in Entries' /\ key(p)' = j
      BY <1>1, <1>3, <3>1 DEF key
    <3> QED BY <1>0, <2>1, <3>2 DEF OnRecord, Holds, key
  <2>2. CASE it.valid /\ ~it.fwd
    <3>1. it.key \in Keys /\ Holds(it.key, q, it.val)
      BY <2>2 DEF IInv, OnRecord
    <3> SUFFICES ASSUME NEW v, v = it.val, NEW j, j = it.key
                 PROVE  OnRecord'
      OBVIOUS
    <3>2. Holds(j, q, v)'
      BY <1>3, <3>1
    <3> QED BY <1>0, <2>2, <3>1, <3>2 DEF OnRecord, Holds
  <2>3. CASE ~it.valid
    BY <1>0, <2>3 DEF OnRecord
  <2> QED BY <2>1, <2>2, <2>3
<1>5. RestsBetween'
  <2> SUFFICES ASSUME it.valid, ~it.fwd, NEW e \in Entries', e <= it.seq
               PROVE  log'[e].key < it.key
                        <=> it.pos # NoEntry /\ (e = it.pos \/ Before(e, it.pos)')
    BY <1>0 DEF RestsBetween, Visible, Passed, key, Before
  <2>1. e \in Entries
    BY <1>0, <1>1
  <2>2. it.pos # NoEntry => it.pos \in Entries
    BY <1>0 DEF TypeOK, Iterator, Entries, NoEntry
  <2>3. it.pos # NoEntry => (Before(e, it.pos)' <=> Before(e, it.pos))
    BY <1>0, <1>1, <2>1, <2>2 DEF Before, key
  <2>4. key(e) < it.key <=> it.pos # NoEntry /\ (e = it.pos \/ Before(e, it.pos))
    BY <2>1 DEF IInv, RestsBetween, Visible, Passed
  <2> QED BY <1>1, <2>1, <2>3, <2>4 DEF key
<1>6. TableAt(it.seq)' = TableAt(it.seq)
  <2>1. ASSUME NEW j \in Keys PROVE TableAt(q)'[j] = TableAt(q)[j]
    <3>1. CASE \E n : Holds(j, q, n)
      <4>1. PICK n : Holds(j, q, n)
        BY <3>1
      <4>2. Holds(j, q, n)' /\ \A m : Holds(j, q, m)' => m = n
        BY <1>0, <1>3, <4>1, HoldsUnique
      <4> QED BY <1>0, <4>1, <4>2, TableAfter, TableHolds
    <3>2. CASE \A n : ~Holds(j, q, n)
      BY <1>0, <1>3, <3>2, TableAfter, TableLive
    <3> QED BY <3>1, <3>2
  <2>2. TableAt(q)' = TableAt(q)
    <3>1. /\ TableAt(q)' = [j \in Keys |-> TableAt(q)'[j]]
          /\ TableAt(q) = [j \in Keys |-> TableAt(q)[j]]
      BY DEF TableAt
    <3> QED BY <2>1, <3>1
  <2>3. TableAt(it.seq)' = TableAt(q)'
    BY <1>0 DEF TableAt, Holds
  <2> QED BY <2>2, <2>3
<1> DEFINE v == IF put THEN top ELSE 0
           T == TableAt(Len(log))
<1>7. TableAt(top)' = [T EXCEPT ![k] = v]
  <2>1. ASSUME NEW j \in Keys PROVE TableAt(top)'[j] = IF j = k THEN v ELSE T[j]
    <3>0. \A n : Holds(j, top, n)' <=> IF j = k THEN put /\ n = top ELSE Holds(j, Len(log), n)
      BY <1>0, HoldsNew
    <3>1. CASE j = k
      <4>1. CASE put
        BY <3>0, <3>1, <4>1, TableAfter
      <4>2. CASE ~put
        BY <3>0, <3>1, <4>2, TableAfter
      <4> QED BY <4>1, <4>2
    <3>2. CASE j # k /\ \E n : Holds(j, Len(log), n)
      <4>1. PICK n : Holds(j, Len(log), n)
        BY <3>2
      <4>2. Holds(j, top, n)' /\ \A m : Holds(j, top, m)' => m = n
        BY <1>0, <3>0, <3>2, <4>1, HoldsUnique
      <4> QED BY <1>0, <3>2, <4>1, <4>2, TableAfter, TableHolds
    <3>3. CASE j # k /\ \A n : ~Holds(j, Len(log), n)
      BY <1>0, <3>0, <3>3, TableAfter, TableLive
    <3> QED BY <3>1, <3>2, <3>3
  <2>2. /\ TableAt(top)' = [j \in Keys |-> TableAt(top)'[j]]
        /\ T = [j \in Keys |-> T[j]]
    BY DEF TableAt
  <2> HIDE DEF T, v
  <2> QED BY <2>1, <2>2
<1>8. TableAt(Len(log))' = TableAt(top)'
  BY <1>1 DEF TableAt, Holds
<1>9. (IF it.valid THEN Here ELSE <<>>)' = (IF it.valid THEN Here ELSE <<>>)
  <2>1. CASE it.valid /\ it.fwd
    <3>1. it.pos \in Entries
      BY <2>1 DEF IInv, OnRecord
    <3> QED BY <1>0, <1>1, <2>1, <3>1 DEF Here, key
  <2>2. CASE ~(it.valid /\ it.fwd)
    BY <1>0, <2>2 DEF Here
  <2> QED BY <2>1, <2>2
<1>10. v \in 0..MaxWrites
  BY <1>0
<1>11. Abs!Write(k, v)
  <2> HIDE DEF v
  <2> QED BY <1>6, <1>7, <1>8, <1>9 DEF Abs!Write
<1> QED BY <1>2, <1>4, <1>5, <1>10, <1>11 DEF IInv

\* A new cursor walks the table of now.
LEMMA NewCursorStep ==
  ASSUME IInv, NewCursor
  PROVE  IInv' /\ Abs!Open
<1>0. /\ log \in Seq(Entry) /\ Len(log) \in Nat /\ turn \in BOOLEAN /\ proc \in {"up", "aborted"}
      /\ it' = Made(Len(log)) /\ log' = log /\ turn' = turn /\ proc' = proc
  BY DEF IInv, TypeOK, NewCursor
<1>1. it'.seq = Len(log) /\ it'.valid = FALSE /\ it'.pos = NoEntry /\ it'.val = NoEntry
  BY <1>0 DEF Made
<1>2. it' \in Iterator
  BY <1>0 DEF Made, Iterator, NoEntry
<1>3. it'.seq <= Len(log') /\ it'.pos <= Len(log') /\ it'.val <= Len(log')
  BY <1>0, <1>1 DEF NoEntry
<1>4. TypeOK'
  BY <1>0, <1>2, <1>3 DEF TypeOK
<1>5. OnRecord' /\ RestsBetween'
  BY <1>1 DEF OnRecord, RestsBetween
<1>6. TableAt(it.seq)' = TableAt(Len(log)) /\ TableAt(Len(log))' = TableAt(Len(log))
  <2>1. TableAt(Len(log))' = TableAt(Len(log))
    BY <1>0, Zenon DEF TableAt, Holds, Entries, key
  <2>2. TableAt(it.seq)' = TableAt(Len(log))'
    <3>1. it'.seq = Len(log')
      BY <1>0, <1>1
    <3> QED BY <3>1, Zenon DEF TableAt, Holds
  <2> QED BY <2>1, <2>2
<1>7. (IF it.valid THEN Here ELSE <<>>)' = <<>>
  BY <1>1
<1>8. Abs!Open
  BY <1>6, <1>7 DEF Abs!Open
<1> QED BY <1>4, <1>5, <1>8 DEF IInv

\* A step that leaves entries and iterator alone keeps everything.
LEMMA IdleStep ==
  ASSUME IInv, log' = log, it' = it, turn' = turn, proc' \in {"up", "aborted"}
  PROVE  IInv' /\ UNCHANGED Abs!vars
<1>1. TypeOK'
  BY DEF IInv, TypeOK
<1>2. OnRecord' /\ RestsBetween'
  BY DEF IInv, OnRecord, RestsBetween, Holds, Entries, key, Visible, Passed, Before
<1>3. /\ TableAt(it.seq)' = TableAt(it.seq) /\ TableAt(Len(log))' = TableAt(Len(log))
      /\ (IF it.valid THEN Here ELSE <<>>)' = (IF it.valid THEN Here ELSE <<>>)
  BY Zenon DEF TableAt, Holds, Entries, key, Here
<1> QED BY <1>1, <1>2, <1>3 DEF IInv, Abs!vars

\* Every step keeps the invariant and is a step, or a stutter, of CursorSpec.
LEMMA StepRefines ==
  ASSUME IInv, [Next]_vars
  PROVE  IInv' /\ [Abs!Next]_(Abs!vars)
<1>1. ASSUME NEW k \in Keys, NEW put \in BOOLEAN, Write(k, put)
      PROVE  IInv' /\ Abs!Next
  BY <1>1, WriteStep DEF Abs!Next
<1>2. ASSUME NEW k \in Keys, Seek(k)
      PROVE  IInv' /\ Abs!Next
  BY <1>2, GteMoves DEF Abs!Next
<1>3. CASE NewCursor
  BY <1>3, NewCursorStep DEF Abs!Next
<1>4. CASE SeekToFirst
  BY <1>4, FirstMoves DEF Abs!Next
<1>5. CASE SeekToLast
  BY <1>5, LastMoves DEF Abs!Next
<1>6. CASE NextEntry
  BY <1>6, NextMoves DEF Abs!Next
<1>7. CASE PrevEntry
  BY <1>7, PrevMoves DEF Abs!Next
<1>8. CASE CallInvalid
  BY <1>8, IdleStep DEF CallInvalid
<1>9. CASE UNCHANGED vars
  <2>1. proc' \in {"up", "aborted"}
    BY <1>9 DEF vars, IInv, TypeOK
  <2> QED BY <1>9, <2>1, IdleStep DEF vars
<1> QED BY <1>1, <1>2, <1>3, <1>4, <1>5, <1>6, <1>7, <1>8, <1>9 DEF Next

\* The initial state has the invariant and is one of CursorSpec.
LEMMA InitRefines ==
  ASSUME Init
  PROVE  IInv /\ Abs!Init
<1>1. log = <<>> /\ it = Made(0) /\ turn = FALSE /\ proc = "up"
  BY DEF Init
<1>2. it.seq = 0 /\ it.valid = FALSE /\ it.pos = NoEntry /\ it.val = NoEntry
  BY <1>1 DEF Made
<1>3. it \in Iterator
  BY <1>1 DEF Made, Iterator, NoEntry
<1>4. Len(log) = 0 /\ log \in Seq(Entry)
  BY <1>1
<1>5. it.seq <= Len(log) /\ it.pos <= Len(log) /\ it.val <= Len(log)
  BY <1>2, <1>4 DEF NoEntry
<1>6. IInv
  BY <1>1, <1>2, <1>3, <1>4, <1>5 DEF IInv, TypeOK, OnRecord, RestsBetween
<1>7. TableAt(0) = [k \in Keys |-> 0]
  <2>1. \A n \in 1..0 : FALSE
    OBVIOUS
  <2> QED BY <2>1 DEF TableAt
<1>8. TableAt(it.seq) = [k \in Keys |-> 0] /\ TableAt(Len(log)) = [k \in Keys |-> 0]
  BY <1>2, <1>4, <1>7
<1> QED BY <1>2, <1>6, <1>8 DEF Abs!Init

-----------------------------------------------------------------------------
(* The theorems.                                                           *)

\* The types, the record a valid cursor is on and the place where a backward
\* cursor rests hold in every reachable state.
THEOREM CursorInv == Spec => []IInv
<1>1. Init => IInv
  BY InitRefines
<1>2. IInv /\ [Next]_vars => IInv'
  BY StepRefines
<1> QED BY <1>1, <1>2, PTL DEF Spec

\* A cursor that moved backward rests between its key and the smaller ones.
THEOREM CursorRests == Spec => []RestsBetween
<1>1. IInv => RestsBetween
  BY DEF IInv
<1> QED BY <1>1, CursorInv, PTL

\* Every call moves the cursor as CursorSpec says, for any keys and any number
\* of writes.
THEOREM CursorMoves == Spec => MovesAsCalled
<1> DEFINE A == /\ NextEntry => Abs!NextKey
                /\ PrevEntry => Abs!PrevKey
                /\ SeekToFirst => Abs!First
                /\ SeekToLast => Abs!Last
                /\ \A k \in Keys : Seek(k) => Abs!Gte(k)
<1>1. IInv => A
  BY NextMoves, PrevMoves, FirstMoves, LastMoves, GteMoves
<1>2. IInv /\ [Next]_vars => [A]_vars
  BY <1>1
<1>3. []IInv /\ [][Next]_vars => [][A]_vars
  BY <1>2, PTL
<1> QED BY <1>3, CursorInv, PTL DEF Spec, MovesAsCalled

\* DBIter over live internal entries implements a cursor over a snapshot.
THEOREM CursorRefines == Spec => WalksSnapshot
<1>1. Init => Abs!Init
  BY InitRefines
<1>2. IInv /\ [Next]_vars => [Abs!Next]_(Abs!vars)
  BY StepRefines
<1> QED BY <1>1, <1>2, CursorInv, PTL DEF Spec, WalksSnapshot, Abs!Spec
=============================================================================
