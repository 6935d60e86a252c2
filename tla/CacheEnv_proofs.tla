-------------------------- MODULE CacheEnv_proofs ---------------------------
(***************************************************************************)
(* Proofs about CacheEnv, for any keys, sizes and bounds.                  *)
(***************************************************************************)
EXTENDS CacheEnv, TLAPS

-----------------------------------------------------------------------------
(* Facts about the records of BatchOps and about Applied: the declarative  *)
(* "last write wins" effect of a batch prefix is what executing the        *)
(* records one by one computes.                                            *)

\* The records the two batch calls push.
LEMMA OpTypes ==
  ASSUME NEW k \in Keys
  PROVE  /\ \A v \in Vals : PutOp(k, v) \in Op
         /\ DelOp(k) \in Op
BY Zenon DEF PutOp, DelOp, Op

\* Executing no record changes nothing (a flush that has just begun).
LEMMA AppliedZero ==
  ASSUME NEW table \in Tables, NEW ops
  PROVE  Applied(table, ops, 0) = table
BY DEF Applied, Tables, IsLastOn

\* Executing record n + 1 is ApplyOp (one op.exec of the forEach in
\* flushBatchOps).
LEMMA AppliedStep ==
  ASSUME NEW table \in Tables, NEW ops \in Seq(Op), NEW n \in Nat, n < Len(ops)
  PROVE  Applied(table, ops, n + 1) = ApplyOp(Applied(table, ops, n), ops[n + 1])
\* The value Applied gives to a key with a last record: at most one is the last.
<1>AppliedLast. ASSUME NEW m \in Nat, NEW key \in Keys, NEW i, IsLastOn(ops, m, key, i)
      PROVE  Applied(table, ops, m)[key] = ops[i].val
  <2> USE <1>AppliedLast
  <2>1. i \in 1..m
    BY Zenon DEF IsLastOn
  <2> DEFINE c == CHOOSE j \in 1..m : IsLastOn(ops, m, key, j)
  <2>2. IsLastOn(ops, m, key, c)
    BY <2>1, Zenon
  <2>3. c = i
    <3> HIDE DEF c
    <3> QED BY <2>2 DEF IsLastOn
  <2>4. Applied(table, ops, m)[key] = ops[c].val
    BY <2>1, Zenon DEF Applied
  <2> QED BY <2>3, <2>4, Zenon
\* The value Applied gives to a key without one.
<1>AppliedNone. ASSUME NEW m \in Nat, NEW key \in Keys, \A i \in 1..m : ~IsLastOn(ops, m, key, i)
      PROVE  Applied(table, ops, m)[key] = table[key]
  BY <1>AppliedNone, Zenon DEF Applied
<1> DEFINE op == ops[n + 1]
           before == Applied(table, ops, n)
           after == Applied(table, ops, n + 1)
<1>0. op.key \in Keys
  <2>1. n + 1 \in 1..Len(ops)
    OBVIOUS
  <2>2. op \in Op
    BY <2>1
  <2> QED BY <2>2, Zenon DEF Op
<1>1. /\ DOMAIN after = Keys
      /\ DOMAIN ApplyOp(before, op) = Keys
  BY Zenon DEF Applied, ApplyOp
<1>2. ASSUME NEW k \in Keys
      PROVE  after[k] = ApplyOp(before, op)[k]
  <2>1. CASE k = op.key
    <3>1. IsLastOn(ops, n + 1, k, n + 1)
      BY <2>1 DEF IsLastOn
    <3>2. after[k] = op.val
      BY <3>1, <1>AppliedLast
    <3>3. ApplyOp(before, op)[k] = op.val
      BY <2>1, Zenon DEF ApplyOp, Applied
    <3> QED BY <3>2, <3>3, Zenon
  <2>2. CASE k # op.key
    <3>1. ApplyOp(before, op)[k] = before[k]
      BY <2>2, Zenon DEF ApplyOp, Applied
    <3>2. \A i : IsLastOn(ops, n + 1, k, i) <=> IsLastOn(ops, n, k, i)
      BY <2>2 DEF IsLastOn
    <3>3. CASE \E i \in 1..n : IsLastOn(ops, n, k, i)
      <4>1. PICK i \in 1..n : IsLastOn(ops, n, k, i)
        BY <3>3, Zenon
      <4> QED BY <3>1, <3>2, <4>1, <1>AppliedLast
    <3>4. CASE \A i \in 1..n : ~IsLastOn(ops, n, k, i)
      <4>1. \A i \in 1..(n + 1) : ~IsLastOn(ops, n + 1, k, i)
        BY <3>2, <3>4, Zenon DEF IsLastOn
      <4> HIDE DEF op
      <4> QED BY <3>1, <3>4, <4>1, <1>AppliedNone
    <3> QED BY <3>3, <3>4, Zenon
  <2> QED BY <2>1, <2>2, Zenon
<1>3. after = [k \in Keys |-> after[k]]
  BY Zenon DEF Applied
<1>4. ApplyOp(before, op) = [k \in Keys |-> ApplyOp(before, op)[k]]
  BY Zenon DEF Applied, ApplyOp
<1> HIDE DEF op, before, after
<1> QED BY <1>2, <1>3, <1>4, Zenon DEF op, before, after

-----------------------------------------------------------------------------
(* Frames and stacks.                                                      *)

\* What the fields of a frame are, by its function.
LEMMA FrameParts ==
  ASSUME NEW f \in Frame
  PROVE  /\ f.fn \in {"enter", "flush", "reset", "onfull", "flushCur", "push"}
         /\ f.fn \in {"enter", "flush", "reset", "push"} => f.env \in Nums
         /\ f.fn = "flush" => f.next \in Nat \ {0}
         /\ f.fn = "onfull" => f.ops \in Seq(Op) /\ f.next \in Nat \ {0}
         /\ f.fn = "push" => f.key \in Keys
<1>1. CASE \E e \in Nums : f = EnterF(e) \/ f = ResetF(e)
  BY <1>1 DEF EnterF, ResetF
<1>2. CASE f = FlushCurF
  BY <1>2, Zenon DEF FlushCurF
<1>3. CASE f \in [fn : {"flush"}, env : Nums, next : Nat \ {0}]
  BY <1>3, Zenon
<1>4. CASE f \in [fn : {"onfull"}, ops : Seq(Op), next : Nat \ {0}]
  BY <1>4, Zenon
<1>5. CASE f \in [fn : {"push"}, env : Nums, key : Keys]
  BY <1>5, Zenon
<1> QED BY <1>1, <1>2, <1>3, <1>4, <1>5, Zenon DEF Frame

\* The frames that are made, and their fields.
LEMMA Frames ==
  /\ \A e \in Nums : EnterF(e) \in Frame /\ EnterF(e).fn = "enter" /\ EnterF(e).env = e
  /\ \A e \in Nums : ResetF(e) \in Frame /\ ResetF(e).fn = "reset" /\ ResetF(e).env = e
  /\ FlushCurF \in Frame /\ FlushCurF.fn = "flushCur"
  /\ \A e \in Nums, i \in Nat \ {0} :
       /\ FlushF(e, i) \in Frame
       /\ FlushF(e, i).fn = "flush" /\ FlushF(e, i).env = e /\ FlushF(e, i).next = i
  /\ \A ops \in Seq(Op), i \in Nat \ {0} :
       /\ OnfullF(ops, i) \in Frame
       /\ OnfullF(ops, i).fn = "onfull" /\ OnfullF(ops, i).ops = ops /\ OnfullF(ops, i).next = i
  /\ \A e \in Nums, k \in Keys :
       /\ PushF(e, k) \in Frame
       /\ PushF(e, k).fn = "push" /\ PushF(e, k).env = e /\ PushF(e, k).key = k
BY Zenon DEF EnterF, ResetF, FlushCurF, FlushF, OnfullF, PushF, Frame

\* A call in front of others.
LEMMA Cons ==
  ASSUME NEW S, NEW f \in S, NEW rest \in Seq(S)
  PROVE  /\ <<f>> \o rest \in Seq(S)
         /\ Len(<<f>> \o rest) = Len(rest) + 1
         /\ (<<f>> \o rest)[1] = f
         /\ \A i \in 1..Len(rest) : (<<f>> \o rest)[i + 1] = rest[i]
OBVIOUS

\* The call in progress, and those that wait for it.
LEMMA HeadTail ==
  ASSUME NEW S, NEW s \in Seq(S), s # <<>>
  PROVE  /\ Head(s) \in S /\ Head(s) = s[1] /\ Tail(s) \in Seq(S)
         /\ Len(s) \in Nat \ {0} /\ Len(Tail(s)) = Len(s) - 1
         /\ \A i \in 1..Len(Tail(s)) : Tail(s)[i] = s[i + 1]
OBVIOUS

-----------------------------------------------------------------------------
(* Types, and the two newest directories.                                  *)

\* A process that is not up has nothing queued, no timer and no call.
Quiet ==
  proc \in {"down", "opening"} =>
    timer = 0 /\ stack = <<>> /\ \A n \in Nums : queue[n] = <<>>

\* cur and old are the two newest directories, also while no process runs: all
\* that a crash in the constructor can do is leave the current one alone.
Numbered ==
  /\ cur = old + 1
  /\ \A n \in dirs : n = cur \/ n <= old
  /\ \/ dirs = {} /\ proc = "down" /\ cur = 2 /\ old = 1
     \/ cur \in dirs /\ old \in dirs
     \/ dirs = {cur} /\ proc \in {"down", "opening"}

Base == TypeOK /\ Quiet /\ Numbered

\* There is room for two directories.
LEMMA TwoNums == 1 \in Nums /\ 2 \in Nums /\ Nums \subseteq Nat /\ 0 \notin Nums
BY BoundsAssumption DEF Nums

\* The empty table.
LEMMA EmptyType == Empty \in Tables
BY Zenon DEF Empty, Tables

\* Nothing is on disk: Base at the start.
LEMMA BaseInit == Init => Base
<1> SUFFICES ASSUME Init PROVE Base
  BY Zenon
<1>1. TypeOK
  <2>1. /\ dirs \subseteq Nums /\ tables \in [Nums -> Tables]
        /\ status \in [Nums -> {"none", "open", "closing", "closed"}]
    BY EmptyType, Zenon DEF Init
  <2>2. queue \in [Nums -> Seq(Op)] /\ stack \in Seq(Frame)
    BY DEF Init
  <2>3. cur \in Nums /\ old \in Nums /\ first \in Nums /\ timer \in Nums \cup {0}
    BY TwoNums, Zenon DEF Init
  <2>4. dirty \in Tables /\ served \in [Keys -> Vals \cup {NoVal}]
    BY EmptyType, Zenon DEF Init
  <2> QED BY <2>1, <2>2, <2>3, <2>4, Zenon DEF Init, TypeOK
<1>2. Quiet
  BY Zenon DEF Init, Quiet
<1>3. Numbered
  BY DEF Init, Numbered
<1> QED BY <1>1, <1>2, <1>3, Zenon DEF Base

\* The constructor opens the pair it left, or the successor of a single directory.
LEMMA ChosenPair ==
  ASSUME TypeOK, Numbered, proc = "down"
  PROVE  \/ Chosen[2] = cur /\ Chosen[1] = old
         \/ dirs = {cur} /\ Chosen[2] = cur + 1 /\ Chosen[1] = cur
\* The newest of a set with a greatest number.
<1>NewestIs. ASSUME NEW S \in SUBSET Nat, NEW m \in S, \A n \in S : n <= m
      PROVE  Newest(S) = m
  <2> USE <1>NewestIs
  <2>1. \A x \in S : (\A n \in S : n <= x) => x = m
    OBVIOUS
  <2> QED BY <2>1, Zenon DEF Newest
<1>1. CASE dirs = {}
  BY <1>1, Zenon DEF Numbered, Chosen
<1>2. CASE dirs = {cur}
  <2>1. dirs \in SUBSET Nat /\ cur \in dirs /\ \A n \in dirs : n <= cur
    BY <1>2, TwoNums DEF TypeOK
  <2>2. Newest(dirs) = cur
    BY <2>1, <1>NewestIs, Zenon
  <2> QED BY <1>2, <2>2, Zenon DEF Chosen
<1>3. CASE cur \in dirs /\ old \in dirs
  <2>0. cur \in Nat /\ old \in Nat /\ old < cur /\ dirs \subseteq Nat
        /\ \A n \in dirs : n = cur \/ n <= old
    BY TwoNums DEF TypeOK, Numbered
  <2>1. dirs # {cur} /\ dirs # {}
    BY <1>3, <2>0
  <2>2. Newest(dirs) = cur
    BY <1>3, <2>0, <1>NewestIs
  <2>3. Newest(dirs \ {cur}) = old
    <3>1. /\ dirs \ {cur} \in SUBSET Nat /\ old \in dirs \ {cur}
          /\ \A n \in dirs \ {cur} : n <= old
      BY <1>3, <2>0
    <3> QED BY <3>1, <1>NewestIs, Zenon
  <2> QED BY <2>1, <2>2, <2>3, Zenon DEF Chosen
<1> QED BY <1>1, <1>2, <1>3, Zenon DEF Numbered

\* The constructor opens the current environment: Base is kept.
LEMMA OpenCurBase ==
  ASSUME Base, OpenCur
  PROVE  Base'
<1>0. TypeOK /\ Quiet /\ Numbered
  BY Zenon DEF Base
<1>1. \/ cur' = cur /\ old' = old
      \/ dirs = {cur} /\ cur' = cur + 1 /\ old' = cur
  BY <1>0, ChosenPair, Zenon DEF OpenCur
<1>2. cur' \in Nums /\ old' \in Nums /\ first' \in Nums
  BY <1>0, <1>1, Zenon DEF OpenCur, TypeOK
<1>3. TypeOK'
  BY <1>0, <1>2, Zenon DEF OpenCur, TypeOK, hist
<1>4. Quiet'
  BY <1>0, Zenon DEF OpenCur, Quiet
<1>5. Numbered'
  <2>1. cur \in Nat /\ old \in Nat /\ dirs' = dirs \cup {cur'} /\ proc' = "opening"
    BY <1>0, TwoNums, Zenon DEF OpenCur, TypeOK
  <2>2. CASE cur' = cur /\ old' = old
    BY <1>0, <2>1, <2>2, Zenon DEF Numbered
  <2>3. CASE dirs = {cur} /\ cur' = cur + 1 /\ old' = cur
    BY <2>1, <2>3 DEF Numbered
  <2> QED BY <1>1, <2>2, <2>3, Zenon
<1> QED BY <1>3, <1>4, <1>5, Zenon DEF Base

\* The constructor opens the old one: Base is kept.
LEMMA OpenOldBase ==
  ASSUME Base, OpenOld
  PROVE  Base'
<1>0. TypeOK /\ Quiet /\ Numbered
  BY DEF Base
<1>1. TypeOK'
  BY <1>0, Zenon DEF OpenOld, TypeOK, hist
<1>2. Quiet' /\ Numbered'
  BY <1>0, TwoNums DEF OpenOld, Quiet, Numbered, TypeOK
<1> QED BY <1>1, <1>2, Zenon DEF Base

\* A step of a call in progress: its frame, and the calls that wait for it.
LEMMA TopParts ==
  ASSUME TypeOK, NEW fn, Top(fn)
  PROVE  /\ proc = "up" /\ stack # <<>>
         /\ Head(stack) \in Frame /\ Head(stack) = stack[1] /\ Head(stack).fn = fn
         /\ Tail(stack) \in Seq(Frame)
BY HeadTail, Zenon DEF TypeOK, Top

\* Every step keeps the types and the pair.
LEMMA BaseNext ==
  ASSUME Base, [Next]_vars
  PROVE  Base'
\* One record turns a table into a table.
<1>ApplyOpType. ASSUME NEW table \in Tables, NEW op \in Op
      PROVE  ApplyOp(table, op) \in Tables
  BY <1>ApplyOpType, Zenon DEF ApplyOp, Tables, Op
\* The end of the process, which leaves the disk: Base is kept.
<1>DieBase. ASSUME Base, Die, broken' \in BOOLEAN, eio' \in BOOLEAN
      PROVE  Base'
  <2> USE <1>DieBase
  <2>0. TypeOK /\ Quiet /\ Numbered
    BY Zenon DEF Base
  <2>1. TypeOK'
    BY <2>0 DEF Die, TypeOK, disk
  <2>2. Quiet' /\ Numbered'
    BY <2>0, Zenon DEF Die, Quiet, Numbered, disk
  <2> QED BY <2>1, <2>2, Zenon DEF Base
\* _pushBatch keeps the types.
<1>PushBatchType. ASSUME TypeOK, NEW e \in Nums, NEW op \in Op, NEW rest \in Seq(Frame),
             PushBatch(e, op, rest)
      PROVE  /\ queue' \in [Nums -> Seq(Op)]
             /\ stack' \in Seq(Frame)
             /\ timer' \in Nums \cup {0}
  <2> USE <1>PushBatchType
  <2>1. queue' \in [Nums -> Seq(Op)]
    BY DEF PushBatch, TypeOK
  <2>2. <<EnterF(e)>> \o rest \in Seq(Frame)
    BY Frames, Cons, Zenon
  <2> QED BY <2>1, <2>2, Zenon DEF PushBatch, TypeOK
\* So do put and del of the cache.
<1>DbCallType. ASSUME TypeOK, NEW op \in Op, NEW rest \in Seq(Frame), DbCall(op, rest)
      PROVE  /\ queue' \in [Nums -> Seq(Op)]
             /\ stack' \in Seq(Frame)
             /\ timer' \in Nums \cup {0}
  <2> USE <1>DbCallType
  <2>1. cur \in Nums /\ old \in Nums /\ op.key \in Keys
    BY Zenon DEF TypeOK, Op
  <2>2. <<PushF(old, op.key)>> \o rest \in Seq(Frame)
    BY <2>1, Frames, Cons, Zenon
  <2> QED BY <2>1, <2>2, <1>PushBatchType, Zenon DEF DbCall
\* A call that changes neither the directories nor who runs keeps the pair.
<1>SamePair. ASSUME Base, TypeOK', proc = "up", proc' \in {"up", "hung"}, dirs' = dirs, cur' = cur, old' = old
      PROVE  Base'
  BY <1>SamePair, Zenon DEF Base, Quiet, Numbered
\* An exception keeps Base, whoever catches it.
<1>ThrowBase. ASSUME Base, proc = "up", Throw, broken' \in BOOLEAN, eio' \in BOOLEAN
      PROVE  Base'
  <2> USE <1>ThrowBase
  <2>1. CASE Die
    BY <2>1, <1>DieBase, Zenon
  <2>2. CASE /\ stack' = <<>>
             /\ UNCHANGED <<disk, envs, queue, timer, by, dirty, proc, puts, served, rotations>>
    <3>1. TypeOK'
      BY <2>2 DEF Base, TypeOK, disk, envs
    <3> QED BY <2>2, <3>1, <1>SamePair, Zenon DEF disk, envs
  <2> QED BY <2>1, <2>2, Zenon DEF Throw
\* A rotation goes from the pair to its successor.
<1>RotateBase. ASSUME Base, NEW e \in Nums, proc = "up", stack # <<>>, Rotate(e)
      PROVE  Base'
  <2> USE <1>RotateBase
  <2>0. TypeOK /\ Numbered
    BY Zenon DEF Base
  <2>1. cur \in Nums /\ old \in Nums /\ cur + 1 \in Nums /\ cur \in Nat /\ old \in Nat
    BY <2>0, BoundsAssumption DEF TypeOK, Rotate, Nums
  <2>2. Tail(stack) \in Seq(Frame)
    BY <2>0, HeadTail, Zenon DEF TypeOK
  <2>3. queue[e] \in Seq(Op)
    BY <2>0, Zenon DEF TypeOK
  <2>4. <<OnfullF(queue[e], 1), FlushCurF, ResetF(e)>> \in Seq(Frame)
    BY <2>3, Frames
  <2>5. stack' \in Seq(Frame)
    BY <2>2, <2>4 DEF Rotate
  <2>6. status' \in [Nums -> {"none", "open", "closing", "closed"}]
    BY <2>0, Zenon DEF Rotate, TypeOK
  <2>7. TypeOK'
    <3>1. dirs' \subseteq Nums /\ cur' \in Nums /\ old' \in Nums /\ rotations' \in Nat
      BY <2>0, <2>1 DEF Rotate, TypeOK
    <3> QED BY <2>0, <2>5, <2>6, <3>1, Zenon DEF Rotate, TypeOK, hist
  <2>8. Quiet'
    BY Zenon DEF Rotate, Quiet
  <2>9. Numbered'
    <3>1. cur \in dirs /\ old < cur /\ \A n \in dirs : n \in Nat /\ (n = cur \/ n <= old)
      BY <2>0, TwoNums DEF Numbered, TypeOK
    <3>2. cur' = cur + 1 /\ old' = cur /\ dirs' = dirs \cup {cur + 1}
      BY Zenon DEF Rotate
    <3>3. old' < cur' /\ \A n \in dirs' : n = cur' \/ n <= old'
      BY <2>1, <3>1, <3>2
    <3> QED BY <3>1, <3>2, <3>3, Zenon DEF Numbered
  <2> QED BY <2>7, <2>8, <2>9, Zenon DEF Base
\* A put or a del of the application keeps Base.
<1>CallBase. ASSUME Base, NEW op \in Op, Call(op)
      PROVE  Base'
  <2> USE <1>CallBase
  <2>0. TypeOK /\ proc = "up"
    BY Zenon DEF Base, Call, Usable, Idle
  <2>1. <<>> \in Seq(Frame)
    OBVIOUS
  <2>2. TypeOK'
    <3>1. queue' \in [Nums -> Seq(Op)] /\ stack' \in Seq(Frame) /\ timer' \in Nums \cup {0}
      BY <2>0, <2>1, <1>DbCallType, Zenon DEF Call
    <3> QED BY <2>0, <3>1 DEF Call, TypeOK, disk, envs
  <2> QED BY <2>0, <2>2, <1>SamePair, Zenon DEF Call, disk, envs
\* A call of flushBatchOps keeps Base.
<1>FlushBase. ASSUME Base, Flush
      PROVE  Base'
  <2> USE <1>FlushBase
  <2>0. TypeOK /\ proc = "up"
    BY Zenon DEF Base, Flush, Usable, Idle
  <2>1. <<EnterF(old), FlushCurF>> \in Seq(Frame)
    BY <2>0, Frames DEF TypeOK
  <2>2. TypeOK'
    BY <2>0, <2>1, Zenon DEF Flush, TypeOK, disk, envs, hist
  <2> QED BY <2>0, <2>2, <1>SamePair, Zenon DEF Flush, disk, envs
\* A get keeps Base.
<1>GetBase. ASSUME Base, NEW k \in Keys, Get(k)
      PROVE  Base'
  <2> USE <1>GetBase
  <2>0. TypeOK /\ proc = "up"
    BY Zenon DEF Base, Get, Usable, Idle
  <2>1. Lookup(k) \in Vals \cup {NoVal}
    BY <2>0 DEF Lookup, TypeOK, Tables
  <2>2. TypeOK'
    BY <2>0, <2>1, Zenon DEF Get, TypeOK, disk, envs
  <2> QED BY <2>0, <2>2, <1>SamePair, Zenon DEF Get, disk, envs
\* rmStale spares the two newest directories.
<1>RmStaleBase. ASSUME Base, RmStale
      PROVE  Base' /\ cur \in dirs' /\ old \in dirs' /\ cur \in dirs /\ old \in dirs
  <2> USE <1>RmStaleBase
  <2>0. TypeOK /\ Numbered /\ proc = "up"
    BY Zenon DEF Base, RmStale, Usable, Idle
  <2>1. /\ cur \in Nat /\ old \in Nat /\ old < cur /\ cur \in dirs /\ old \in dirs
        /\ dirs \subseteq Nat /\ \A n \in dirs : n = cur \/ n <= old
    BY <2>0, TwoNums DEF TypeOK, Numbered
  <2>4. cur \in dirs' /\ old \in dirs' /\ dirs' \subseteq dirs
    <3>1. \A n \in {cur, old} : ~\E a, b, c \in dirs : n < a /\ a < b /\ b < c
      BY <2>1
    <3> QED BY <2>1, <3>1, Zenon DEF RmStale
  <2>5. tables' \in [Nums -> Tables]
    BY <2>0, EmptyType, Zenon DEF RmStale, TypeOK
  <2>6. TypeOK'
    BY <2>0, <2>4, <2>5, Zenon DEF RmStale, TypeOK, envs, hist
  <2>7. Quiet' /\ Numbered'
    BY <2>0, <2>1, <2>4, Zenon DEF RmStale, envs, Quiet, Numbered
  <2> QED BY <2>1, <2>4, <2>6, <2>7, Zenon DEF Base
\* close, and the end of its syncs, keep Base.
<1>CloseBase. ASSUME Base, Close \/ \E n \in Nums : CloseDone(n)
      PROVE  Base'
  <2> USE <1>CloseBase
  <2>0. TypeOK /\ proc = "up"
    BY Zenon DEF Base, Close, CloseDone, Usable, Idle
  <2>1. TypeOK'
    BY <2>0, Zenon DEF Close, CloseDone, TypeOK, disk, hist
  <2> QED BY <2>0, <2>1, <1>SamePair, Zenon DEF Close, CloseDone, disk
\* The debounced flush keeps Base.
<1>TimerFireBase. ASSUME Base, TimerFire
      PROVE  Base'
  <2> USE <1>TimerFireBase
  <2>0. TypeOK /\ proc = "up"
    BY Zenon DEF Base, TimerFire, Idle
  <2>1. <<EnterF(timer)>> \in Seq(Frame)
    BY <2>0, Frames DEF TimerFire, TypeOK
  <2>2. TypeOK'
    BY <2>0, <2>1, Zenon DEF TimerFire, TypeOK, disk, envs, hist
  <2> QED BY <2>0, <2>2, <1>SamePair, Zenon DEF TimerFire, disk, envs
\* The start of a flush keeps Base.
<1>EnterFlushBase. ASSUME Base, EnterFlush
      PROVE  Base'
  <2> USE <1>EnterFlushBase
  <2>0. TypeOK /\ Top("enter")
    BY Zenon DEF Base, EnterFlush
  <2>1. /\ proc = "up" /\ Head(stack).env \in Nums /\ Tail(stack) \in Seq(Frame)
    BY <2>0, TopParts, FrameParts, Zenon
  <2> DEFINE e == Head(stack).env
  <2>2. <<FlushF(e, 1)>> \o Tail(stack) \in Seq(Frame)
    BY <2>1, Frames, Cons
  <2>3. CASE Die /\ UNCHANGED <<broken, eio>>
    BY <2>0, <2>3, <1>DieBase, Zenon DEF TypeOK
  <2>4. CASE /\ stack' = Tail(stack)
             /\ UNCHANGED <<disk, envs, queue, timer, by, dirty, proc, hist, rotations>>
    <3>1. TypeOK'
      BY <2>0, <2>1, <2>4, Zenon DEF TypeOK, disk, envs, hist
    <3> QED BY <2>1, <2>4, <3>1, <1>SamePair, Zenon DEF disk, envs
  <2>5. CASE /\ stack' = <<FlushF(e, 1)>> \o Tail(stack)
             /\ dirty' = tables[e]
             /\ UNCHANGED <<disk, envs, queue, timer, by, proc, hist, rotations>>
    <3>1. TypeOK'
      BY <2>0, <2>1, <2>2, <2>5, Zenon DEF TypeOK, disk, envs, hist
    <3> QED BY <2>1, <2>5, <3>1, <1>SamePair, Zenon DEF disk, envs
  <2> QED BY <2>3, <2>4, <2>5, Zenon DEF EnterFlush
\* Going on to the current environment keeps Base.
<1>FlushCurBase. ASSUME Base, FlushCur
      PROVE  Base'
  <2> USE <1>FlushCurBase
  <2>0. TypeOK /\ Top("flushCur")
    BY Zenon DEF Base, FlushCur
  <2>1. proc = "up" /\ Tail(stack) \in Seq(Frame) /\ cur \in Nums
    BY <2>0, TopParts, Zenon DEF TypeOK
  <2>2. <<EnterF(cur)>> \o Tail(stack) \in Seq(Frame)
    BY <2>1, Frames, Cons, Zenon
  <2>3. TypeOK'
    BY <2>0, <2>2, Zenon DEF FlushCur, TypeOK, disk, envs, hist
  <2> QED BY <2>1, <2>3, <1>SamePair, Zenon DEF FlushCur, disk, envs
\* The del of the old environment keeps Base.
<1>PushOldBase. ASSUME Base, PushOld
      PROVE  Base'
  <2> USE <1>PushOldBase
  <2>0. TypeOK /\ Top("push")
    BY Zenon DEF Base, PushOld
  <2>1. /\ proc = "up" /\ Tail(stack) \in Seq(Frame)
        /\ Head(stack).env \in Nums /\ Head(stack).key \in Keys
    BY <2>0, TopParts, FrameParts, Zenon
  <2>2. DelOp(Head(stack).key) \in Op
    BY <2>1, OpTypes, Zenon
  <2>3. queue' \in [Nums -> Seq(Op)] /\ stack' \in Seq(Frame) /\ timer' \in Nums \cup {0}
    BY <2>0, <2>1, <2>2, <1>PushBatchType, Zenon DEF PushOld
  <2>4. TypeOK'
    BY <2>0, <2>3, Zenon DEF PushOld, TypeOK, disk, envs, hist
  <2> QED BY <2>1, <2>4, <1>SamePair, Zenon DEF PushOld, disk, envs
\* A record written keeps Base.
<1>ExecPutBase. ASSUME Base, ExecPut
      PROVE  Base'
  <2> USE <1>ExecPutBase
  <2>0. TypeOK /\ Top("flush")
    BY Zenon DEF Base, ExecPut
  <2> DEFINE e == Head(stack).env
             i == Head(stack).next
  <2>1. proc = "up" /\ Tail(stack) \in Seq(Frame) /\ e \in Nums /\ i \in Nat \ {0}
    BY <2>0, TopParts, FrameParts, Zenon
  <2>2. <<FlushF(e, i + 1)>> \o Tail(stack) \in Seq(Frame)
    BY <2>1, Frames, Cons
  <2>3. queue[e][i] \in Op
    BY <2>0, <2>1 DEF ExecPut, TypeOK
  <2>4. dirty' \in Tables
    BY <2>0, <2>3, <1>ApplyOpType, Zenon DEF ExecPut, TypeOK
  <2>5. TypeOK'
    BY <2>0, <2>2, <2>4, Zenon DEF ExecPut, TypeOK, disk, envs, hist
  <2> QED BY <2>1, <2>5, <1>SamePair, Zenon DEF ExecPut, disk, envs
\* A del that blocks keeps Base.
<1>ExecDelBase. ASSUME Base, ExecDel
      PROVE  Base'
  <2> USE <1>ExecDelBase
  <2>0. TypeOK /\ proc = "up"
    BY Zenon DEF Base, ExecDel, Top
  <2>1. TypeOK'
    BY <2>0, Zenon DEF ExecDel, TypeOK, disk, envs, hist
  <2> QED BY <2>0, <2>1, <1>SamePair, Zenon DEF ExecDel, disk, envs
\* A commit keeps Base.
<1>CommitBase. ASSUME Base, Commit
      PROVE  Base'
  <2> USE <1>CommitBase
  <2>0. TypeOK /\ Top("flush")
    BY Zenon DEF Base, Commit
  <2>1. proc = "up" /\ Tail(stack) \in Seq(Frame) /\ Head(stack).env \in Nums
    BY <2>0, TopParts, FrameParts, Zenon
  <2>2. tables' \in [Nums -> Tables] /\ queue' \in [Nums -> Seq(Op)]
    BY <2>0, <2>1 DEF Commit, TypeOK
  <2>3. TypeOK'
    BY <2>0, <2>1, <2>2, Zenon DEF Commit, TypeOK, envs, hist
  <2> QED BY <2>1, <2>3, <1>SamePair, Zenon DEF Commit, envs
\* A flush that fails keeps Base.
<1>FailBase. ASSUME Base, Fail
      PROVE  Base'
  BY <1>FailBase, <1>ThrowBase, Zenon DEF Base, TypeOK, Fail, Top
\* A full map keeps Base, rotating or throwing.
<1>MapFullBase. ASSUME Base, MapFull
      PROVE  Base'
  <2> USE <1>MapFullBase
  <2>0. TypeOK /\ Top("flush")
    BY Zenon DEF Base, MapFull
  <2>1. proc = "up" /\ stack # <<>> /\ Head(stack).env \in Nums
    BY <2>0, TopParts, FrameParts, Zenon
  <2>2. CASE Rotate(Head(stack).env)
    BY <2>1, <2>2, <1>RotateBase, Zenon
  <2>3. CASE Throw /\ broken' = (broken \/ Head(stack).env >= first) /\ UNCHANGED eio
    <3>1. broken' \in BOOLEAN /\ eio' \in BOOLEAN
      BY <2>0, <2>3, Zenon DEF TypeOK
    <3> QED BY <2>1, <2>3, <3>1, <1>ThrowBase, Zenon
  <2> QED BY <2>2, <2>3, Zenon DEF MapFull
\* A record put again keeps Base.
<1>ReplayBase. ASSUME Base, Replay
      PROVE  Base'
  <2> USE <1>ReplayBase
  <2>0. TypeOK /\ Top("onfull")
    BY Zenon DEF Base, Replay
  <2> DEFINE ops == Head(stack).ops
             i == Head(stack).next
  <2>1. proc = "up" /\ Tail(stack) \in Seq(Frame) /\ ops \in Seq(Op) /\ i \in Nat \ {0}
    BY <2>0, TopParts, FrameParts, Zenon
  <2>2. <<OnfullF(ops, i + 1)>> \o Tail(stack) \in Seq(Frame)
    BY <2>1, Frames, Cons
  <2>3. queue' \in [Nums -> Seq(Op)] /\ stack' \in Seq(Frame) /\ timer' \in Nums \cup {0}
    <3>1. CASE i <= Len(ops) /\ DbCall(ops[i], <<OnfullF(ops, i + 1)>> \o Tail(stack))
      <4>1. ops[i] \in Op
        BY <2>1, <3>1
      <4> HIDE DEF ops, i
      <4> QED BY <2>0, <2>2, <3>1, <4>1, <1>DbCallType, Zenon
    <3>2. CASE stack' = Tail(stack) /\ UNCHANGED <<queue, timer>>
      BY <2>0, <2>1, <3>2, Zenon DEF TypeOK
    <3> QED BY <3>1, <3>2, Zenon DEF Replay
  <2>4. TypeOK'
    BY <2>0, <2>3, Zenon DEF Replay, TypeOK, disk, envs, hist
  <2> QED BY <2>1, <2>4, <1>SamePair, Zenon DEF Replay, disk, envs
\* The queue dropped after onfull keeps Base.
<1>ResetQueueBase. ASSUME Base, ResetQueue
      PROVE  Base'
  <2> USE <1>ResetQueueBase
  <2>0. TypeOK /\ Top("reset")
    BY Zenon DEF Base, ResetQueue
  <2>1. proc = "up" /\ Tail(stack) \in Seq(Frame) /\ Head(stack).env \in Nums
    BY <2>0, TopParts, FrameParts, Zenon
  <2>2. queue' \in [Nums -> Seq(Op)]
    BY <2>0, <2>1 DEF ResetQueue, TypeOK
  <2>3. TypeOK'
    BY <2>0, <2>1, <2>2, Zenon DEF ResetQueue, TypeOK, disk, envs, hist
  <2> QED BY <2>1, <2>3, <1>SamePair, Zenon DEF ResetQueue, disk, envs
<1>1. CASE UNCHANGED vars
  BY <1>1, Zenon DEF vars, Base, TypeOK, Quiet, Numbered
<1>2. CASE OpenCur \/ OpenOld
  BY <1>2, OpenCurBase, OpenOldBase, Zenon
<1>3. CASE \E k \in Keys : "put" \in Kinds /\ Call(PutOp(k, puts + 1))
  <2>1. PICK k \in Keys : Call(PutOp(k, puts + 1))
    BY <1>3, Zenon
  <2>2. puts + 1 \in Vals
    BY <2>1, ValsAssumption, BoundsAssumption DEF Call, Base, TypeOK
  <2>3. PutOp(k, puts + 1) \in Op
    BY <2>2, OpTypes, Zenon
  <2> QED BY <2>1, <2>3, <1>CallBase, Zenon
<1>4. CASE \E k \in Keys : "del" \in Kinds /\ Call(DelOp(k))
  BY <1>4, OpTypes, <1>CallBase, Zenon
<1>5. CASE \E k \in Keys : Get(k)
  BY <1>5, <1>GetBase, Zenon
<1>6. CASE Flush \/ RmStale
  BY <1>6, <1>FlushBase, <1>RmStaleBase, Zenon
<1>7. CASE Close \/ \E n \in Nums : CloseDone(n)
  BY <1>7, <1>CloseBase, Zenon
<1>8. CASE TimerFire
  BY <1>8, <1>TimerFireBase, Zenon
<1>9. CASE LoopStep
  BY <1>9, <1>EnterFlushBase, <1>FlushCurBase, <1>PushOldBase, <1>ExecPutBase, <1>ExecDelBase,
     <1>CommitBase, <1>FailBase, <1>MapFullBase, <1>ReplayBase, <1>ResetQueueBase, Zenon DEF LoopStep
<1>10. CASE Crash
  BY <1>10, <1>DieBase, Zenon DEF Crash, Base, TypeOK
<1> QED BY <1>1, <1>2, <1>3, <1>4, <1>5, <1>6, <1>7, <1>8, <1>9, <1>10, Zenon DEF Next

\* Base holds in every state.
LEMMA BaseAlways == Spec => []Base
BY BaseInit, BaseNext, PTL DEF Spec

\* Every variable keeps its type, whatever interleaves with whatever.
THEOREM TypeCorrect == Spec => []TypeOK
<1>1. Base => TypeOK
  BY Zenon DEF Base
<1> QED BY <1>1, BaseAlways, PTL

\* Rotation, rmStale, and a restart after a crash at any point agree on which
\* two directories the cache works on: the two newest.
THEOREM PairAgreed == Spec => []PairIsNewest
<1>1. Base => PairIsNewest
  BY TwoNums DEF Base, TypeOK, Numbered, PairIsNewest
<1> QED BY <1>1, BaseAlways, PTL

-----------------------------------------------------------------------------
(* Reads never go back.  The records still to be executed are those of the *)
(* current queue and those the onfull handlers have not put again.  All of *)
(* them are newer than what is committed or was read.  The same records    *)
(* also stay in the queue of the environment that was rotated away, until  *)
(* the handler returns; an exception can leave them there, but then one of *)
(* them can never be executed and that queue is never committed.           *)

\* A record no flush gets past: a del blocks, a bad key is refused.
Bad(op) == op.op = "del" \/ op.key \in BadKeys

Poisoned(ops) == \E j \in 1..Len(ops) : Bad(ops[j])

Harmless(ops) == ops = <<>> \/ Poisoned(ops)

IsPut(ops, i, j) == j \in i..Len(ops) /\ ops[j].op = "put"

\* From record i on the values put are increasing, newer than T and at most n.
Ready(ops, i, T, n) ==
  \A j \in Nat : IsPut(ops, i, j) =>
    /\ ops[j].val <= n
    /\ \A x \in T : x < ops[j].val
    /\ \A l \in Nat : IsPut(ops, i, l) /\ j < l => ops[j].val < ops[l].val

\* The values put from record i on are older than those of other from l on.
Before(ops, i, other, l) ==
  \A j, m \in Nat : IsPut(ops, i, j) /\ IsPut(other, l, m) => ops[j].val < other[m].val

Runs(f) == f.fn \in {"enter", "flush"}
ResetAt(f, o) == f.fn = "reset" /\ f.env = o

\* Call f, made while g waits: nothing waits for a flush that runs, the records
\* of the inner handler come first, and the queues to be reset are in order.
Nests(f, g) ==
  /\ ~Runs(g)
  /\ f.fn = "onfull" /\ g.fn = "onfull" => Before(f.ops, f.next, g.ops, g.next)
  /\ g.fn = "reset" => /\ f.fn = "reset" => g.env < f.env
                       /\ f.fn = "push" \/ Runs(f) => g.env <= f.env

\* A handler that replays a bad record while the queue of o waits to be reset.
Spoils(f, g, o) == f.fn = "onfull" /\ Poisoned(f.ops) /\ ResetAt(g, o)

Nested(st) == \A s, t \in 1..Len(st) : s < t => Nests(st[s], st[t])
Doomed(st, o) == \E s, t \in 1..Len(st) : s < t /\ Spoils(st[s], st[t], o)
Guarded(st, o) == \E s \in 1..Len(st) : ResetAt(st[s], o)
Low(st, o) == \A s \in 1..Len(st) : st[s].fn \in {"reset", "push"} => st[s].env <= o

\* A handler's records come after those in q.
Follows(f, q, T, n) ==
  f.fn = "onfull" => Ready(f.ops, f.next, T, n) /\ Before(q, 1, f.ops, f.next)

Lined(st, q, T, n) == \A s \in 1..Len(st) : Follows(st[s], q, T, n)

\* The values a read has returned, or can return.
Taken == {0} \cup {tables[cur][k] : k \in Keys} \cup {tables[old][k] : k \in Keys}
             \cup {served[k] : k \in Keys}

\* The flush that runs: its transaction holds committed values and queued ones.
Running(f) ==
  /\ Runs(f) => f.env <= cur /\ (f.env = old => Harmless(queue[old]))
  /\ f.fn = "flush" =>
       /\ f.next <= Len(queue[f.env]) + 1 /\ queue[f.env] # <<>>
       /\ \A j \in 1..(f.next - 1) : ~Bad(queue[f.env][j])
       /\ f.env = cur => \A k \in Keys :
            dirty[k] = tables[cur][k] \/ \E j \in Nat : IsPut(queue[cur], 1, j) /\ dirty[k] = queue[cur][j].val

Waiting(st) ==
  /\ Nested(st) /\ Low(st, old) /\ Lined(st, queue[cur], Taken, puts)
  /\ Doomed(st, old) => Poisoned(queue[old])

Retired ==
  /\ Guarded(stack, old) \/ Harmless(queue[old])
  /\ Guarded(stack, old) => status[cur] = "open" /\ (Poisoned(queue[cur]) => Poisoned(queue[old]))

Newer ==
  /\ \A x \in Taken : x <= puts
  /\ Ready(queue[cur], 1, Taken, puts)
  /\ timer <= cur
  /\ \A n \in Nums : n > cur => queue[n] = <<>> /\ tables[n] = Empty

Reads == \A k \in Keys : Lookup(k) # NoVal => Lookup(k) >= served[k]

TimeInv ==
  /\ Newer /\ Reads /\ Retired /\ Waiting(stack)
  /\ stack # <<>> => Running(Head(stack))

\* Its value is older than those of a handler that waits.
Precedes(op, f) ==
  op.op = "put" /\ f.fn = "onfull" =>
    \A m \in Nat : IsPut(f.ops, f.next, m) => op.val < f.ops[m].val

\* A read never goes back in time while no value put is falsy and no commit has
\* failed with EIO: whatever is rotated, refused, replayed, deleted or killed,
\* a get never returns an older value than an earlier one did.
THEOREM ReadsForward ==
  ASSUME Falsy \cap Vals = {}
  PROVE  Spec => []NeverOlder
\* Every call but the first is one of the others.
<1>ConsRest. ASSUME NEW f \in Frame, NEW rest \in Seq(Frame), NEW st \in Seq(Frame), st = <<f>> \o rest
      PROVE  \A s \in 1..Len(st) : s = 1 \/ (s - 1 \in 1..Len(rest) /\ st[s] = rest[s - 1])
  BY <1>ConsRest
\* The two numbers of an open pair.
<1>Pair. ASSUME Base
      PROVE  /\ cur \in Nums /\ old \in Nums /\ cur \in Nat /\ old \in Nat
             /\ cur = old + 1 /\ old # cur /\ cur <= cur /\ old <= cur /\ old <= old
             /\ \A n \in Nums : n > cur => n # cur /\ n # old
             /\ \A n \in Nat : n <= old => n <= cur
  <2> USE <1>Pair
  <2>1. cur \in Nums /\ old \in Nums /\ cur \in Nat /\ old \in Nat /\ cur = old + 1 /\ Nums \subseteq Nat
    BY TwoNums, Zenon DEF Base, TypeOK, Numbered
  <2>2. \A n \in Nums : n > cur => n # cur /\ n # old
    BY <2>1
  <2>3. \A n \in Nat : n <= old => n <= cur
    BY <2>1
  <2>4. old # cur /\ cur <= cur /\ old <= cur /\ old <= old
    BY <2>1
  <2> QED BY <2>1, <2>2, <2>3, <2>4, Zenon
\* An element of a sequence.
<1>Elem. ASSUME NEW S, NEW s \in Seq(S), NEW i \in 1..Len(s)
      PROVE  s[i] \in S
  BY <1>Elem
\* The values of records are numbers.
<1>OpVals. ASSUME NEW ops \in Seq(Op), NEW j \in 1..Len(ops)
      PROVE  ops[j] \in Op /\ ops[j].val \in Nat /\ ops[j].key \in Keys /\ ops[j].op \in {"put", "del"}
  <2> USE <1>OpVals
  <2>1. ops[j] \in Op
    OBVIOUS
  <2> QED BY <2>1, ValsAssumption, BoundsAssumption DEF Op
\* Fewer values taken, and more values given out, leave a batch in order.
<1>ReadyKeeps. ASSUME NEW ops \in Seq(Op), NEW i \in Nat \ {0}, NEW T, NEW U \in SUBSET T,
             NEW m \in Nat, NEW n \in Nat, m <= n, Ready(ops, i, T, m)
      PROVE  Ready(ops, i, U, n)
  <2> USE <1>ReadyKeeps
  <2>1. ASSUME NEW j \in Nat, IsPut(ops, i, j)
        PROVE  ops[j].val <= n
    <3>1. j \in 1..Len(ops) /\ ops[j].val <= m
      BY <2>1 DEF Ready, IsPut
    <3> QED BY <3>1, <1>OpVals
  <2> QED BY <2>1, Zenon DEF Ready
\* An empty queue, and an empty stack.
<1>NoRecords.
      /\ ~Poisoned(<<>>) /\ Harmless(<<>>)
      /\ \A T, n : Ready(<<>>, 1, T, n)
      /\ \A ops, l : Before(<<>>, 1, ops, l)
  BY DEF Poisoned, Harmless, Ready, Before, IsPut
\* Without calls in progress there is nothing to ask of them.
<1>NoCalls. ASSUME NEW o, NEW q, NEW T, NEW n
      PROVE  Nested(<<>>) /\ ~Doomed(<<>>, o) /\ ~Guarded(<<>>, o) /\ Low(<<>>, o) /\ Lined(<<>>, q, T, n)
  BY <1>NoCalls DEF Nested, Doomed, Guarded, Low, Lined
\* What holds of a call on top of others.
<1>StackCons. ASSUME NEW f \in Frame, NEW rest \in Seq(Frame), NEW o, NEW q, NEW T, NEW n
      PROVE  LET st == <<f>> \o rest IN
             /\ Nested(st) <=> Nested(rest) /\ \A s \in 1..Len(rest) : Nests(f, rest[s])
             /\ Doomed(st, o) <=> Doomed(rest, o) \/ \E s \in 1..Len(rest) : Spoils(f, rest[s], o)
             /\ Guarded(st, o) <=> ResetAt(f, o) \/ Guarded(rest, o)
             /\ Low(st, o) <=> (f.fn \in {"reset", "push"} => f.env <= o) /\ Low(rest, o)
             /\ Lined(st, q, T, n) <=> Follows(f, q, T, n) /\ Lined(rest, q, T, n)
  <2> USE <1>StackCons
  <2> DEFINE st == <<f>> \o rest
  <2>1. /\ st \in Seq(Frame) /\ Len(st) = Len(rest) + 1 /\ Len(rest) \in Nat
        /\ st[1] = f /\ \A s \in 1..Len(rest) : st[s + 1] = rest[s] /\ s + 1 \in 1..Len(st)
    BY Cons
  <2>2. \A s \in 1..Len(st) : s = 1 \/ (s - 1 \in 1..Len(rest) /\ st[s] = rest[s - 1])
    BY <2>1
  <2>3. 1 \in 1..Len(st)
    BY <2>1
  <2> HIDE DEF st
  <2>4. Nested(st) <=> Nested(rest) /\ \A s \in 1..Len(rest) : Nests(f, rest[s])
    <3>1. ASSUME Nested(st) PROVE Nested(rest) /\ \A s \in 1..Len(rest) : Nests(f, rest[s])
      <4>1. ASSUME NEW s \in 1..Len(rest), NEW t \in 1..Len(rest), s < t
            PROVE  Nests(rest[s], rest[t])
        <5>1. s + 1 \in 1..Len(st) /\ t + 1 \in 1..Len(st) /\ s + 1 < t + 1
          BY <2>1, <4>1
        <5>2. Nests(st[s + 1], st[t + 1])
          BY <3>1, <5>1, Zenon DEF Nested
        <5> QED BY <2>1, <5>2, Zenon
      <4>2. ASSUME NEW s \in 1..Len(rest) PROVE Nests(f, rest[s])
        <5>1. 1 \in 1..Len(st) /\ s + 1 \in 1..Len(st) /\ 1 < s + 1
          BY <2>1
        <5>2. Nests(st[1], st[s + 1])
          BY <3>1, <5>1, Zenon DEF Nested
        <5> QED BY <2>1, <5>2, Zenon
      <4> QED BY <4>1, <4>2, Zenon DEF Nested
    <3>2. ASSUME Nested(rest), \A s \in 1..Len(rest) : Nests(f, rest[s]) PROVE Nested(st)
      <4> SUFFICES ASSUME NEW s \in 1..Len(st), NEW t \in 1..Len(st), s < t
                   PROVE  Nests(st[s], st[t])
        BY Zenon DEF Nested
      <4>1. t - 1 \in 1..Len(rest) /\ st[t] = rest[t - 1]
        BY <2>2
      <4>2. CASE s = 1
        BY <2>1, <3>2, <4>1, <4>2, Zenon
      <4>3. CASE s # 1
        <5>1. s - 1 \in 1..Len(rest) /\ st[s] = rest[s - 1] /\ s - 1 < t - 1
          BY <2>2, <4>3
        <5> QED BY <3>2, <4>1, <5>1, Zenon DEF Nested
      <4> QED BY <4>2, <4>3, Zenon
    <3> QED BY <3>1, <3>2, Zenon
  <2>5. Doomed(st, o) <=> Doomed(rest, o) \/ \E s \in 1..Len(rest) : Spoils(f, rest[s], o)
    <3>1. ASSUME Doomed(st, o) PROVE Doomed(rest, o) \/ \E s \in 1..Len(rest) : Spoils(f, rest[s], o)
      <4>1. PICK s \in 1..Len(st), t \in 1..Len(st) : s < t /\ Spoils(st[s], st[t], o)
        BY <3>1, Zenon DEF Doomed
      <4>2. t - 1 \in 1..Len(rest) /\ st[t] = rest[t - 1]
        BY <2>2, <4>1
      <4>3. CASE s = 1
        BY <2>1, <4>1, <4>2, <4>3, Zenon
      <4>4. CASE s # 1
        <5>1. s - 1 \in 1..Len(rest) /\ st[s] = rest[s - 1] /\ s - 1 < t - 1
          BY <2>2, <4>1, <4>4
        <5> QED BY <4>1, <4>2, <5>1, Zenon DEF Doomed
      <4> QED BY <4>3, <4>4, Zenon
    <3>2. ASSUME Doomed(rest, o) PROVE Doomed(st, o)
      <4>1. PICK s \in 1..Len(rest), t \in 1..Len(rest) : s < t /\ Spoils(rest[s], rest[t], o)
        BY <3>2, Zenon DEF Doomed
      <4>2. /\ s + 1 \in 1..Len(st) /\ t + 1 \in 1..Len(st) /\ s + 1 < t + 1
            /\ st[s + 1] = rest[s] /\ st[t + 1] = rest[t]
        BY <2>1, <4>1
      <4> QED BY <4>1, <4>2, Zenon DEF Doomed
    <3>3. ASSUME NEW s \in 1..Len(rest), Spoils(f, rest[s], o) PROVE Doomed(st, o)
      <4>1. 1 \in 1..Len(st) /\ s + 1 \in 1..Len(st) /\ 1 < s + 1 /\ st[s + 1] = rest[s] /\ st[1] = f
        BY <2>1
      <4> QED BY <3>3, <4>1, Zenon DEF Doomed
    <3> QED BY <3>1, <3>2, <3>3, Zenon
  <2>6. Guarded(st, o) <=> ResetAt(f, o) \/ Guarded(rest, o)
    BY <2>1, <2>2, <2>3, Zenon DEF Guarded
  <2>7. Low(st, o) <=> (f.fn \in {"reset", "push"} => f.env <= o) /\ Low(rest, o)
    BY <2>1, <2>2, <2>3, Zenon DEF Low
  <2>8. Lined(st, q, T, n) <=> Follows(f, q, T, n) /\ Lined(rest, q, T, n)
    BY <2>1, <2>2, <2>3, Zenon DEF Lined
  <2> QED BY <2>4, <2>5, <2>6, <2>7, <2>8, Zenon DEF st
\* What is taken are numbers.
<1>TakenNat. ASSUME Base PROVE Taken \subseteq Nat /\ puts \in Nat
  <2> USE <1>TakenNat
  <2>1. /\ tables[cur] \in [Keys -> Nat] /\ tables[old] \in [Keys -> Nat]
        /\ served \in [Keys -> Nat]
    <3>1. Vals \cup {NoVal} \subseteq Nat
      BY ValsAssumption, BoundsAssumption
    <3> QED BY <3>1, Zenon DEF Base, TypeOK, Tables
  <2> QED BY <2>1 DEF Taken, Base, TypeOK
\* The call in progress and the calls that wait for it, as TimeInv has them.
<1>TopCall. ASSUME Base, Waiting(stack), stack # <<>>
      PROVE  /\ Head(stack) \in Frame /\ Tail(stack) \in Seq(Frame)
             /\ stack = <<Head(stack)>> \o Tail(stack)
             /\ Waiting(Tail(stack))
             /\ \A s \in 1..Len(Tail(stack)) : /\ Nests(Head(stack), Tail(stack)[s])
                                               /\ Tail(stack)[s] \in Frame
                                               /\ ~Runs(Tail(stack)[s])
             /\ \A s \in 1..Len(Tail(stack)) :
                  Spoils(Head(stack), Tail(stack)[s], old) => Poisoned(queue[old])
             /\ Guarded(stack, old) <=> ResetAt(Head(stack), old) \/ Guarded(Tail(stack), old)
             /\ Head(stack).fn \in {"reset", "push"} => Head(stack).env <= old
             /\ Follows(Head(stack), queue[cur], Taken, puts)
  <2> USE <1>TopCall
  <2>1. /\ Head(stack) \in Frame /\ Tail(stack) \in Seq(Frame)
        /\ stack = <<Head(stack)>> \o Tail(stack)
    BY HeadTail DEF Base, TypeOK
  <2> DEFINE f == Head(stack)
             rest == Tail(stack)
  <2> HIDE DEF f, rest
  <2>2. f \in Frame /\ rest \in Seq(Frame) /\ stack = <<f>> \o rest
    BY <2>1, Zenon DEF f, rest
  <2>3. /\ Nested(<<f>> \o rest) /\ Low(<<f>> \o rest, old)
        /\ Lined(<<f>> \o rest, queue[cur], Taken, puts)
        /\ Doomed(<<f>> \o rest, old) => Poisoned(queue[old])
    BY <2>2, Zenon DEF Waiting
  <2>4. /\ Nested(rest) /\ Low(rest, old) /\ Lined(rest, queue[cur], Taken, puts)
        /\ Doomed(rest, old) => Poisoned(queue[old])
        /\ \A s \in 1..Len(rest) : Nests(f, rest[s])
        /\ \A s \in 1..Len(rest) : Spoils(f, rest[s], old) => Poisoned(queue[old])
        /\ f.fn \in {"reset", "push"} => f.env <= old
        /\ Follows(f, queue[cur], Taken, puts)
        /\ Guarded(<<f>> \o rest, old) <=> ResetAt(f, old) \/ Guarded(rest, old)
    BY <2>2, <2>3, <1>StackCons, Zenon
  <2>5. \A s \in 1..Len(rest) : rest[s] \in Frame /\ ~Runs(rest[s])
    BY <2>2, <2>4 DEF Nests
  <2>6. Waiting(rest)
    BY <2>4, Zenon DEF Waiting
  <2>7. Guarded(stack, old) <=> ResetAt(f, old) \/ Guarded(rest, old)
    BY <2>2, <2>4, Zenon
  <2> QED BY <2>2, <2>4, <2>5, <2>6, <2>7, Zenon DEF f, rest
\* The calls after a step that puts one call in front of those that wait.
<1>NewWait. ASSUME NEW f \in Frame, NEW rest \in Seq(Frame),
             Waiting(rest)', \A s \in 1..Len(rest) : Nests(f, rest[s]),
             f.fn \notin {"reset", "onfull"}, f.fn = "push" => f.env <= old'
      PROVE  /\ Waiting(<<f>> \o rest)'
             /\ Guarded(<<f>> \o rest, old') <=> Guarded(rest, old')
  <2> USE <1>NewWait
  <2>1. /\ Nested(rest) /\ Low(rest, old') /\ Lined(rest, queue'[cur'], Taken', puts')
        /\ Doomed(rest, old') => Poisoned(queue'[old'])
    BY Zenon DEF Waiting
  <2>2. Follows(f, queue'[cur'], Taken', puts')
        /\ ~ResetAt(f, old') /\ \A s \in 1..Len(rest) : ~Spoils(f, rest[s], old')
    BY Zenon DEF Follows, ResetAt, Spoils
  <2>3. /\ Nested(<<f>> \o rest) /\ Low(<<f>> \o rest, old')
        /\ Lined(<<f>> \o rest, queue'[cur'], Taken', puts')
        /\ Doomed(<<f>> \o rest, old') => Poisoned(queue'[old'])
        /\ Guarded(<<f>> \o rest, old') <=> Guarded(rest, old')
    BY <2>1, <2>2, <1>StackCons, Zenon
  <2> QED BY <2>3, Zenon DEF Waiting
\* What a new innermost call has to meet.
<1>NewCall. ASSUME NEW f \in Frame, NEW rest \in Seq(Frame), stack' = <<f>> \o rest,
             Waiting(rest)', \A s \in 1..Len(rest) : Nests(f, rest[s]),
             f.fn \notin {"reset", "onfull"}, f.fn = "push" => f.env <= old'
      PROVE  /\ Waiting(stack)' /\ Head(stack') = f
             /\ Guarded(stack', old') <=> Guarded(rest, old')
  BY <1>NewCall, <1>NewWait DEF Waiting
\* What a step that leaves the data alone keeps.
<1>SameData. ASSUME Newer, Reads, UNCHANGED <<tables, queue, cur, old, puts, served>>, timer' <= cur
      PROVE  /\ Newer' /\ Reads' /\ Taken' = Taken
             /\ \A st : Waiting(st) => Waiting(st)'
  BY <1>SameData, Zenon DEF Newer, Reads, Taken, Lookup, Waiting
\* A waiting call is no flush that runs.
<1>WaitingRuns. ASSUME NEW rest \in Seq(Frame), \A s \in 1..Len(rest) : ~Runs(rest[s]), stack' = rest
      PROVE  stack' # <<>> => Running(Head(stack))'
  <2> USE <1>WaitingRuns
  <2>1. stack' # <<>> => Head(stack') = rest[1] /\ 1 \in 1..Len(rest)
    BY HeadTail
  <2> QED BY <2>1, Zenon DEF Running, Runs
\* The end of the process keeps TimeInv: the queues are gone.
<1>DieTime. ASSUME Base, TimeInv, Die
      PROVE  TimeInv'
  <2> USE <1>DieTime
  <2>1. /\ queue' = [n \in Nums |-> <<>>] /\ stack' = <<>> /\ timer' = 0
        /\ UNCHANGED <<tables, cur, old, puts, served>>
    BY Zenon DEF Die, disk
  <2>2. cur \in Nums /\ old \in Nums /\ cur \in Nat
    BY TwoNums, Zenon DEF Base, TypeOK
  <2>3. queue'[cur] = <<>> /\ queue'[old] = <<>> /\ Taken' = Taken
    BY <2>1, <2>2, Zenon DEF Taken
  <2>4. Newer'
    BY <2>1, <2>2, <2>3, <1>NoRecords DEF TimeInv, Newer
  <2>5. Reads'
    BY <2>1, Zenon DEF TimeInv, Reads, Lookup
  <2>6. Retired' /\ Waiting(stack)'
    BY <2>1, <2>3, <1>NoRecords, <1>NoCalls, Zenon DEF Retired, Waiting
  <2> QED BY <2>1, <2>4, <2>5, <2>6, Zenon DEF TimeInv
\* An exception forgets the queues that wait to be reset.
<1>ThrowTime. ASSUME Base, TimeInv, Throw, Harmless(queue[old])
      PROVE  TimeInv'
  <2> USE <1>ThrowTime
  <2>1. CASE by = "timer" /\ Die
    BY <2>1, <1>DieTime, Zenon
  <2>2. CASE /\ stack' = <<>>
             /\ UNCHANGED <<disk, envs, queue, timer, by, dirty, proc, puts, served, rotations>>
    <3>1. UNCHANGED <<tables, queue, cur, old, puts, served>> /\ timer' = timer /\ stack' = <<>>
      BY <2>2, Zenon DEF disk, envs
    <3>2. Newer' /\ Reads'
      BY <3>1, <1>SameData, Zenon DEF TimeInv, Newer
    <3>3. Retired' /\ Waiting(stack)'
      BY <3>1, <1>NoCalls, Zenon DEF Retired, Waiting
    <3> QED BY <3>1, <3>2, <3>3, Zenon DEF TimeInv
  <2> QED BY <2>1, <2>2, Zenon DEF Throw
\* A flush that fails leaves no queue behind that could be committed: if the
\* queue of old waits to be reset, it holds the record that failed.
<1>FailsHarmless. ASSUME Base, TimeInv, Top("flush"),
             \/ Head(stack).env # cur
             \/ Poisoned(queue[cur])
             \/ status[cur] # "open"
      PROVE  Harmless(queue[old])
  <2> USE <1>FailsHarmless
  <2>1. CASE ~Guarded(stack, old)
    BY <2>1, Zenon DEF TimeInv, Retired
  <2>2. CASE Guarded(stack, old)
    <3>0. stack # <<>> /\ Head(stack).fn = "flush"
      BY Zenon DEF Top
    <3>1. PICK s \in 1..Len(Tail(stack)) : ResetAt(Tail(stack)[s], old)
      BY <2>2, <3>0, <1>TopCall, Zenon DEF TimeInv, Guarded, ResetAt
    <3>2. Nests(Head(stack), Tail(stack)[s])
      BY <3>0, <1>TopCall, Zenon DEF TimeInv
    <3>3. old <= Head(stack).env
      BY <3>0, <3>1, <3>2, Zenon DEF Nests, ResetAt, Runs
    <3>4. Head(stack).env <= cur /\ (Head(stack).env = old => Harmless(queue[old]))
      BY <3>0, Zenon DEF TimeInv, Running, Runs
    <3>5. Head(stack).env \in Nat /\ cur \in Nat /\ old \in Nat /\ cur = old + 1
      BY <3>0, <1>TopCall, FrameParts, TwoNums, Zenon DEF Base, TypeOK, Numbered, TimeInv
    <3>6. CASE Head(stack).env = old
      BY <3>4, <3>6, Zenon
    <3>7. CASE Head(stack).env = cur
      BY <2>2, <3>7, Zenon DEF TimeInv, Retired, Harmless
    <3> QED BY <3>3, <3>4, <3>5, <3>6, <3>7
  <2> QED BY <2>1, <2>2, Zenon
\* A step that only changes which call is in progress, to f.
<1>StepTime. ASSUME Base, TimeInv, UNCHANGED <<tables, queue, cur, old, puts, served, status>>,
             timer' <= cur, NEW f \in Frame, NEW rest \in Seq(Frame), stack' = <<f>> \o rest,
             Waiting(rest), Guarded(rest, old) <=> Guarded(stack, old),
             \A s \in 1..Len(rest) : Nests(f, rest[s]),
             Runs(f), Running(f)'
      PROVE  TimeInv'
  <2> USE <1>StepTime
  <2>1. Newer' /\ Reads' /\ Waiting(rest)'
    BY <1>SameData, Zenon DEF TimeInv
  <2>2. /\ Waiting(stack)' /\ Head(stack') = f
        /\ Guarded(stack', old') <=> Guarded(rest, old')
    BY <2>1, <1>NewCall, Zenon DEF Runs
  <2>3. Retired'
    BY <2>2, Zenon DEF TimeInv, Retired
  <2>4. Running(Head(stack))'
    BY <2>2, Zenon
  <2> QED BY <2>1, <2>2, <2>3, <2>4, Zenon DEF TimeInv
\* A step that only ends the call in progress.
<1>PopTime. ASSUME Base, TimeInv, UNCHANGED <<tables, queue, cur, old, puts, served, status>>,
             timer' <= cur, stack # <<>>, stack' = Tail(stack), Head(stack).fn # "reset"
      PROVE  TimeInv'
  <2> USE <1>PopTime
  <2>1. PICK rest \in Seq(Frame) : rest = Tail(stack)
    BY <1>TopCall, Zenon DEF TimeInv
  <2>2. /\ Waiting(rest) /\ \A s \in 1..Len(rest) : ~Runs(rest[s])
        /\ Guarded(stack, old) <=> Guarded(rest, old)
    BY <2>1, <1>TopCall, Zenon DEF TimeInv, ResetAt
  <2>3. Newer' /\ Reads' /\ Waiting(rest)'
    BY <2>2, <1>SameData, Zenon DEF TimeInv
  <2>4. stack' = rest
    BY <2>1, Zenon
  <2>5. Waiting(stack)'
    BY <2>3, <2>4, Zenon DEF Waiting
  <2>6. Retired'
    BY <2>2, <2>4, Zenon DEF TimeInv, Retired
  <2>7. stack' # <<>> => Running(Head(stack))'
    BY <2>2, <2>4, <1>WaitingRuns, Zenon
  <2> QED BY <2>3, <2>5, <2>6, <2>7, Zenon DEF TimeInv
\* A flush, or its entry, takes the place of the call in progress; it is of an
\* environment at least as new.
<1>NestsFlush. ASSUME NEW f, NEW g, NEW h, Nests(f, h), Runs(g),
             f.fn = "flushCur" /\ h.fn = "reset" => h.env <= g.env,
             Runs(f) \/ f.fn = "push" => g.env = f.env,
             f.fn \in {"enter", "flush", "flushCur", "push"}
      PROVE  Nests(g, h)
  BY <1>NestsFlush, Zenon DEF Nests, Runs
\* The records of a batch that was committed are now taken.
<1>LinedCommit. ASSUME NEW st \in Seq(Frame), NEW q \in Seq(Op), NEW T, NEW n, NEW U, Lined(st, q, T, n),
             \A x \in U : x \in T \/ \E j \in Nat : IsPut(q, 1, j) /\ x = q[j].val
      PROVE  Lined(st, <<>>, U, n)
  <2> USE <1>LinedCommit
  <2> SUFFICES ASSUME NEW s \in 1..Len(st), st[s].fn = "onfull"
               PROVE  Ready(st[s].ops, st[s].next, U, n)
    BY <1>NoRecords, Zenon DEF Lined, Follows
  <2>1. Ready(st[s].ops, st[s].next, T, n) /\ Before(q, 1, st[s].ops, st[s].next)
    BY Zenon DEF Lined, Follows
  <2> QED BY <2>1 DEF Ready, Before
\* The flush that commits was not of old: old's records are not all good.
<1>CommitsGood. ASSUME Base, TimeInv, Commit
      PROVE  /\ Head(stack).fn = "flush" /\ Head(stack).env \in Nums
             /\ Head(stack).env # old /\ Head(stack).env <= cur
  <2> USE <1>CommitsGood
  <2>0. Top("flush") /\ stack # <<>> /\ TypeOK
    BY Zenon DEF Commit, Top, Base
  <2> DEFINE f == Head(stack)
             q == queue[f.env]
  <2>1. /\ f.fn = "flush" /\ f.env \in Nums /\ f.next \in Nat \ {0} /\ Running(f)
        /\ q \in Seq(Op) /\ Len(q) \in Nat
    BY <2>0, TopParts, FrameParts DEF TimeInv, TypeOK
  <2>2. f.next = Len(q) + 1 /\ q # <<>> /\ \A j \in 1..(f.next - 1) : ~Bad(q[j])
    <3>1. f.next <= Len(q) + 1 /\ q # <<>> /\ \A j \in 1..(f.next - 1) : ~Bad(q[j])
      BY <2>1, Zenon DEF Running
    <3>2. f.next > Len(q)
      BY Zenon DEF Commit
    <3> HIDE DEF f, q
    <3> QED BY <2>1, <3>1, <3>2
  <2>3. ~Harmless(q)
    BY <2>1, <2>2 DEF Harmless, Poisoned
  <2> QED BY <2>1, <2>3, Zenon DEF Running, Runs
\* One more record in a queue.
<1>Appends. ASSUME NEW q \in Seq(Op), NEW op \in Op
      PROVE  /\ Append(q, op) \in Seq(Op) /\ Append(q, op) # <<>>
             /\ Poisoned(Append(q, op)) <=> Poisoned(q) \/ Bad(op)
             /\ \A j \in Nat : IsPut(Append(q, op), 1, j) =>
                  \/ IsPut(q, 1, j) /\ Append(q, op)[j] = q[j] /\ j <= Len(q)
                  \/ j = Len(q) + 1 /\ op.op = "put" /\ Append(q, op)[j] = op
  <2> USE <1>Appends
  <2> DEFINE r == Append(q, op)
  <2>1. /\ r \in Seq(Op) /\ Len(r) = Len(q) + 1 /\ Len(q) \in Nat /\ r # <<>>
        /\ r[Len(q) + 1] = op /\ \A j \in 1..Len(q) : r[j] = q[j]
    OBVIOUS
  <2> HIDE DEF r
  <2>2. Poisoned(r) <=> Poisoned(q) \/ Bad(op)
    <3>1. 1..Len(r) = (1..Len(q)) \cup {Len(q) + 1}
      BY <2>1
    <3> QED BY <2>1, <3>1, Zenon DEF Poisoned
  <2>3. ASSUME NEW j \in Nat, IsPut(r, 1, j)
        PROVE  \/ IsPut(q, 1, j) /\ r[j] = q[j] /\ j <= Len(q)
               \/ j = Len(q) + 1 /\ op.op = "put" /\ r[j] = op
    BY <2>1, <2>3 DEF IsPut
  <2> QED BY <2>1, <2>2, <2>3, Zenon DEF r
\* Its value is newer than the others.
<1>ReadyAppend. ASSUME NEW q \in Seq(Op), NEW op \in Op, NEW T, NEW n, Ready(q, 1, T, n),
             op.op = "put" => /\ op.val <= n /\ \A x \in T : x < op.val
                              /\ \A j \in Nat : IsPut(q, 1, j) => q[j].val < op.val
      PROVE  Ready(Append(q, op), 1, T, n)
  <2> USE <1>ReadyAppend
  <2> DEFINE r == Append(q, op)
  <2>1. \A j \in Nat : IsPut(r, 1, j) =>
                \/ IsPut(q, 1, j) /\ r[j] = q[j] /\ j <= Len(q)
                \/ j = Len(q) + 1 /\ op.op = "put" /\ r[j] = op
    BY <1>Appends, Zenon
  <2>2. Len(q) \in Nat
    OBVIOUS
  <2> HIDE DEF r
  <2>3. ASSUME NEW j \in Nat, IsPut(r, 1, j)
        PROVE  r[j].val <= n /\ \A x \in T : x < r[j].val
    BY <2>1, <2>3, Zenon DEF Ready
  <2>4. ASSUME NEW j \in Nat, IsPut(r, 1, j), NEW l \in Nat, IsPut(r, 1, l), j < l
        PROVE  r[j].val < r[l].val
    <3>1. IsPut(q, 1, j) /\ r[j] = q[j]
      BY <2>1, <2>2, <2>4
    <3>2. CASE IsPut(q, 1, l) /\ r[l] = q[l]
      BY <2>4, <3>1, <3>2, Zenon DEF Ready
    <3>3. CASE op.op = "put" /\ r[l] = op
      BY <3>1, <3>3, Zenon
    <3> QED BY <2>1, <2>4, <3>2, <3>3, Zenon
  <2>5. Ready(r, 1, T, n)
    BY <2>3, <2>4, Zenon DEF Ready
  <2> QED BY <2>5, Zenon DEF r
\* A queued record that precedes those left to the handlers keeps them in line.
<1>LinedAppend. ASSUME NEW st \in Seq(Frame), NEW q \in Seq(Op), NEW op \in Op, NEW T, NEW n,
             Lined(st, q, T, n), \A s \in 1..Len(st) : Precedes(op, st[s])
      PROVE  Lined(st, Append(q, op), T, n)
  <2> USE <1>LinedAppend
  <2> SUFFICES ASSUME NEW s \in 1..Len(st), st[s].fn = "onfull"
               PROVE  Before(Append(q, op), 1, st[s].ops, st[s].next)
    BY Zenon DEF Lined, Follows
  <2>1. Before(q, 1, st[s].ops, st[s].next)
    BY Zenon DEF Lined, Follows
  <2> DEFINE r == Append(q, op)
  <2>2. \A j \in Nat : IsPut(r, 1, j) =>
                \/ IsPut(q, 1, j) /\ r[j] = q[j] /\ j <= Len(q)
                \/ j = Len(q) + 1 /\ op.op = "put" /\ r[j] = op
    BY <1>Appends, Zenon
  <2>3. Precedes(op, st[s])
    BY Zenon
  <2> HIDE DEF r
  <2>4. Before(r, 1, st[s].ops, st[s].next)
    BY <2>1, <2>2, <2>3, Zenon DEF Before, Precedes
  <2> QED BY <2>4, Zenon DEF r
\* Db.put or Db.del on top of the calls rest.
<1>DbCallTime. ASSUME Base, NEW op \in Op, NEW rest \in Seq(Frame), DbCall(op, rest),
             UNCHANGED <<tables, cur, old, status, served>>,
             Reads, timer <= cur, \A x \in Taken : x <= puts',
             \A n \in Nums : n > cur => queue[n] = <<>> /\ tables[n] = Empty,
             Ready(queue[cur], 1, Taken, puts'),
             op.op = "put" => /\ op.val <= puts' /\ \A x \in Taken : x < op.val
                              /\ \A j \in Nat : IsPut(queue[cur], 1, j) => queue[cur][j].val < op.val,
             Nested(rest), Low(rest, old), Lined(rest, queue[cur], Taken, puts'),
             Doomed(rest, old) => Poisoned(queue[old]),
             \A s \in 1..Len(rest) : ~Runs(rest[s]) /\ Precedes(op, rest[s]),
             Guarded(rest, old) \/ Harmless(queue[old]),
             Guarded(rest, old) => /\ status[cur] = "open"
                                   /\ Poisoned(queue[cur]) \/ Bad(op) => Poisoned(queue[old])
      PROVE  TimeInv'
  <2> USE <1>DbCallTime
  <2>0. /\ cur \in Nums /\ old \in Nums /\ old # cur
        /\ queue \in [Nums -> Seq(Op)] /\ queue[cur] \in Seq(Op) /\ op.key \in Keys
    BY <1>Pair, Zenon DEF Base, TypeOK, Op
  <2>1. Taken' = Taken
    BY Zenon DEF Taken
  <2>2. /\ queue' = [queue EXCEPT ![cur] = Append(@, op)] /\ timer' \in {timer, cur}
    BY Zenon DEF DbCall, PushBatch
  <2>3. queue'[cur] = Append(queue[cur], op) /\ queue'[old] = queue[old]
    BY <2>0, <2>2, Zenon
  <2>4. Newer'
    <3>1. Ready(queue'[cur], 1, Taken, puts')
      BY <2>0, <2>3, <1>ReadyAppend, Zenon
    <3>2. timer' <= cur
      BY <2>2, <1>Pair, Zenon
    <3>3. \A n \in Nums : n > cur => queue'[n] = <<>> /\ tables'[n] = Empty
      BY <2>0, <2>2, <1>Pair, Zenon
    <3> QED BY <2>1, <3>1, <3>2, <3>3, Zenon DEF Newer
  <2>5. Reads'
    BY Zenon DEF Reads, Lookup
  <2>6. Waiting(rest)'
    <3>1. Lined(rest, Append(queue[cur], op), Taken, puts')
      BY <2>0, <1>LinedAppend, ZenonT(30)
    <3>2. Lined(rest, queue'[cur], Taken, puts')
      BY <2>3, <3>1, Zenon
    <3> QED BY <2>1, <2>3, <3>2, Zenon DEF Waiting
  <2>7. PICK r \in Seq(Frame) :
          /\ PushBatch(cur, op, r) /\ Waiting(r)' /\ \A s \in 1..Len(r) : ~Runs(r[s])
          /\ Guarded(r, old) <=> Guarded(rest, old)
    <3>1. CASE PushBatch(cur, op, rest)
      BY <2>6, <3>1, Zenon
    <3>2. CASE PushBatch(cur, op, <<PushF(old, op.key)>> \o rest)
      <4>1. PICK p \in Frame : p = PushF(old, op.key) /\ p.fn = "push" /\ p.env = old
        <5>1. PushF(old, op.key) \in Frame /\ PushF(old, op.key).fn = "push" /\ PushF(old, op.key).env = old
          BY <2>0, Zenon DEF PushF, Frame
        <5> QED BY <5>1, Zenon
      <4>2. ASSUME NEW s \in 1..Len(rest) PROVE Nests(p, rest[s])
        <5>1. rest[s].fn = "reset" => rest[s].env <= old
          BY Zenon DEF Low
        <5> QED BY <4>1, <5>1, Zenon DEF Nests, Runs
      <4>3. p.fn \notin {"reset", "onfull"} /\ (p.fn = "push" => p.env <= old')
        BY <4>1, <1>Pair, Zenon
      <4>4. Waiting(<<p>> \o rest)' /\ (Guarded(<<p>> \o rest, old') <=> Guarded(rest, old'))
        BY <2>6, <4>2, <4>3, <1>NewWait, Zenon
      <4>5. PICK r \in Seq(Frame) : r = <<p>> \o rest
        BY Cons, Zenon
      <4>6. Waiting(r)' /\ (Guarded(r, old) <=> Guarded(rest, old))
        BY <4>4, <4>5, Zenon DEF Waiting
      <4>7. \A s \in 1..Len(r) : ~Runs(r[s])
        <5>1. \A s \in 1..Len(r) : s = 1 \/ (s - 1 \in 1..Len(rest) /\ r[s] = rest[s - 1])
          BY <4>5, <1>ConsRest, Zenon
        <5>2. r[1] = p
          BY <4>5, Cons, Zenon
        <5> QED BY <4>1, <5>1, <5>2, ZenonT(30) DEF Runs
      <4>8. PushBatch(cur, op, r)
        BY <3>2, <4>1, <4>5, Zenon
      <4> QED BY <4>6, <4>7, <4>8, Zenon
    <3> QED BY <3>1, <3>2, Zenon DEF DbCall
  <2>8. /\ Guarded(stack', old') <=> Guarded(r, old)
        /\ Waiting(stack)' /\ (stack' # <<>> => Running(Head(stack))')
    <3>1. CASE stack' = r
      <4>1. stack' # <<>> => Running(Head(stack))'
        BY <2>7, <3>1, <1>WaitingRuns, Zenon
      <4>2. Waiting(stack)'
        BY <2>7, <3>1, Zenon DEF Waiting
      <4> QED BY <3>1, <4>1, <4>2, Zenon
    <3>2. CASE stack' = <<EnterF(cur)>> \o r
      <4>1. PICK g \in Frame : g = EnterF(cur) /\ g.fn = "enter" /\ g.env = cur
        <5>1. EnterF(cur) \in Frame /\ EnterF(cur).fn = "enter" /\ EnterF(cur).env = cur
          BY <2>0, Frames, Zenon
        <5> QED BY <5>1, Zenon
      <4>2. ASSUME NEW s \in 1..Len(r) PROVE Nests(g, r[s])
        <5>1. Low(r, old) /\ r[s] \in Frame /\ ~Runs(r[s])
          BY <2>7, <1>Elem, Zenon DEF Waiting
        <5>2. r[s].fn = "reset" => r[s].env <= old /\ r[s].env \in Nat
          BY <5>1, FrameParts, TwoNums, Zenon DEF Low
        <5>3. r[s].fn = "reset" => r[s].env <= cur
          BY <5>2, <1>Pair, Zenon
        <5> QED BY <4>1, <5>1, <5>3, Zenon DEF Nests, Runs
      <4>3. g.fn \notin {"reset", "onfull"} /\ (g.fn = "push" => g.env <= old')
        BY <4>1, Zenon
      <4>4. stack' = <<g>> \o r
        BY <3>2, <4>1, Zenon
      <4>5. Waiting(stack)' /\ Head(stack') = g /\ (Guarded(stack', old') <=> Guarded(r, old'))
        BY <2>7, <4>2, <4>3, <4>4, <1>NewCall, Zenon
      <4>6. Running(g)'
        BY <2>0, <4>1, <1>Pair, Zenon DEF Running, Runs
      <4> QED BY <4>5, <4>6, Zenon
    <3> QED BY <2>7, <3>1, <3>2, Zenon DEF PushBatch
  <2>9. Retired'
    <3>1. Poisoned(queue'[cur]) <=> Poisoned(queue[cur]) \/ Bad(op)
      <4>1. Poisoned(Append(queue[cur], op)) <=> Poisoned(queue[cur]) \/ Bad(op)
        BY <2>0, <1>Appends, Zenon
      <4> QED BY <2>3, <4>1, Zenon
    <3> QED BY <2>3, <2>7, <2>8, <3>1, Zenon DEF Retired
  <2> QED BY <2>4, <2>5, <2>8, <2>9, Zenon DEF TimeInv
\* The handler's next record comes before the rest of them.
<1>NextRecord. ASSUME NEW ops \in Seq(Op), NEW i \in Nat \ {0}, i <= Len(ops), NEW T, NEW n, NEW q, NEW h,
             Ready(ops, i, T, n), Before(q, 1, ops, i)
      PROVE  /\ Ready(ops, i + 1, T, n) /\ Before(q, 1, ops, i + 1)
             /\ Before(ops, i, h.ops, h.next) => Before(ops, i + 1, h.ops, h.next)
             /\ ops[i].op = "put" =>
                  /\ ops[i].val <= n /\ \A x \in T : x < ops[i].val
                  /\ \A j \in Nat : IsPut(q, 1, j) => q[j].val < ops[i].val
                  /\ \A m \in Nat : IsPut(ops, i + 1, m) => ops[i].val < ops[m].val
                  /\ Before(ops, i, h.ops, h.next) =>
                       \A m \in Nat : IsPut(h.ops, h.next, m) => ops[i].val < h.ops[m].val
  <2> USE <1>NextRecord
  <2>1. \A j \in Nat : IsPut(ops, i + 1, j) => IsPut(ops, i, j) /\ i < j
    BY DEF IsPut
  <2>2. Ready(ops, i + 1, T, n)
    BY <2>1, Zenon DEF Ready
  <2>3. /\ Before(q, 1, ops, i + 1)
        /\ Before(ops, i, h.ops, h.next) => Before(ops, i + 1, h.ops, h.next)
    BY <2>1, Zenon DEF Before
  <2>4. ops[i].op = "put" => IsPut(ops, i, i)
    BY DEF IsPut
  <2>5. ops[i].op = "put" => /\ ops[i].val <= n /\ \A x \in T : x < ops[i].val
                             /\ \A m \in Nat : IsPut(ops, i + 1, m) => ops[i].val < ops[m].val
    BY <2>1, <2>4, Zenon DEF Ready
  <2>6. ops[i].op = "put" =>
          /\ \A j \in Nat : IsPut(q, 1, j) => q[j].val < ops[i].val
          /\ Before(ops, i, h.ops, h.next) =>
               \A m \in Nat : IsPut(h.ops, h.next, m) => ops[i].val < h.ops[m].val
    BY <2>4, Zenon DEF Before
  <2> QED BY <2>2, <2>3, <2>5, <2>6, Zenon
\* onfull starts with the first record.
<1>FirstCall. ASSUME NEW ops \in Seq(Op)
      PROVE  /\ OnfullF(ops, 1) \in Frame /\ OnfullF(ops, 1).fn = "onfull"
             /\ OnfullF(ops, 1).ops = ops /\ OnfullF(ops, 1).next = 1
  BY <1>FirstCall, Frames
\* A rotation: the records of the current queue are the inner handler's now,
\* and the queue waits to be reset.
<1>RotateTime. ASSUME Falsy \cap Vals = {}, Base, TimeInv, Top("flush"), Head(stack).env = cur, Rotate(cur)
      PROVE  TimeInv'
  <2> USE <1>RotateTime
  <2>0. /\ stack # <<>> /\ TypeOK /\ cur \in Nums /\ old \in Nums
        /\ cur \in Nat /\ old \in Nat /\ cur = old + 1 /\ cur + 1 \in Nums
    <3>1. /\ stack # <<>> /\ TypeOK /\ cur \in Nums /\ old \in Nums
          /\ cur \in Nat /\ old \in Nat /\ cur = old + 1
      BY <1>Pair, Zenon DEF Top, Base
    <3>2. cur < MaxNum
      BY Zenon DEF Rotate
    <3>3. cur + 1 \in Nums
      BY <3>1, <3>2, BoundsAssumption DEF Nums
    <3> QED BY <3>1, <3>3, Zenon
  <2>1. PICK f \in Frame, rest \in Seq(Frame) : f = Head(stack) /\ rest = Tail(stack)
    BY <2>0, <1>TopCall, Zenon DEF TimeInv
  <2>2. /\ Waiting(rest)
        /\ \A s \in 1..Len(rest) : Nests(f, rest[s]) /\ rest[s] \in Frame /\ ~Runs(rest[s])
        /\ f.fn = "flush" /\ f.env = cur
    BY <2>0, <2>1, <1>TopCall, FrameParts, Zenon DEF TimeInv, Top
  <2>3. /\ cur' = cur + 1 /\ old' = cur
        /\ status' = [status EXCEPT ![old] = "closing", ![cur + 1] = "open"]
        /\ stack' = <<OnfullF(queue[cur], 1), FlushCurF, ResetF(cur)>> \o Tail(stack)
        /\ UNCHANGED <<tables, queue, served, puts, timer>>
    BY Zenon DEF Rotate, hist
  <2>4. /\ queue[cur] \in Seq(Op)
        /\ \A n \in Nums : n > cur => queue[n] = <<>> /\ tables[n] = Empty
        /\ Ready(queue[cur], 1, Taken, puts) /\ \A x \in Taken : x <= puts
        /\ timer <= cur
    BY <2>0, Zenon DEF TypeOK, TimeInv, Newer
  <2>5. queue[cur + 1] = <<>> /\ tables[cur + 1] = Empty
    BY <2>0, <2>4
  <2>6. Taken' \subseteq Taken
    <3>1. NoVal = 0
      BY ValsAssumption, Zenon
    <3> QED BY <2>3, <2>5, <3>1, Zenon DEF Taken, Empty
  <2>7. Newer'
    <3>1. timer' <= cur'
      BY <2>0, <2>3, <2>4 DEF TypeOK
    <3>2. \A n \in Nums : n > cur' => queue'[n] = <<>> /\ tables'[n] = Empty
      <4>1. \A n \in Nums : n > cur' => n > cur
        BY <2>0, <2>3, TwoNums
      <4> QED BY <2>3, <2>4, <4>1, Zenon
    <3>3. queue'[cur'] = <<>>
      BY <2>3, <2>5, Zenon
    <3> QED BY <2>3, <2>4, <2>6, <3>1, <3>2, <3>3, <1>NoRecords, Zenon DEF Newer
  <2>8. Reads'
    <3> SUFFICES ASSUME NEW k \in Keys PROVE Lookup(k)' # NoVal => Lookup(k)' >= served[k]
      BY <2>3, Zenon DEF Reads
    <3>1. Lookup(k)' = tables[cur][k]
      BY <2>3, <2>5, Zenon DEF Lookup, Empty
    <3>2. tables[cur][k] \in Vals \cup {NoVal}
      BY <2>0, ZenonT(30) DEF TypeOK, Tables
    <3>3. tables[cur][k] # NoVal => Lookup(k) = tables[cur][k]
      BY <3>2, Zenon DEF Lookup
    <3> QED BY <3>1, <3>3, Zenon DEF TimeInv, Reads
  <2>9. PICK a \in Frame, b \in Frame, c \in Frame :
          /\ a = OnfullF(queue[cur], 1) /\ a.fn = "onfull" /\ a.ops = queue[cur] /\ a.next = 1
          /\ b = FlushCurF /\ b.fn = "flushCur"
          /\ c = ResetF(cur) /\ c.fn = "reset" /\ c.env = cur
    <3>1. queue[cur] \in Seq(Op)
      BY <2>4, Zenon
    <3>2. /\ OnfullF(queue[cur], 1) \in Frame /\ OnfullF(queue[cur], 1).fn = "onfull"
          /\ OnfullF(queue[cur], 1).ops = queue[cur] /\ OnfullF(queue[cur], 1).next = 1
      BY <3>1, <1>FirstCall, Zenon
    <3>3. /\ FlushCurF \in Frame /\ FlushCurF.fn = "flushCur"
          /\ ResetF(cur) \in Frame /\ ResetF(cur).fn = "reset" /\ ResetF(cur).env = cur
      BY <2>0, Frames, Zenon
    <3> QED BY <3>2, <3>3, Zenon
  <2>10. PICK rc \in Seq(Frame), rb \in Seq(Frame) : rc = <<c>> \o rest /\ rb = <<b>> \o rc
    BY Cons, Zenon
  <2>11. stack' = <<a>> \o rb
    BY <2>1, <2>3, <2>9, <2>10
  <2> DEFINE q == queue[cur]
             U == Taken'
  <2>12. /\ Nested(rest) /\ Low(rest, old) /\ Lined(rest, queue[cur], Taken, puts)
    BY <2>2, Zenon DEF Waiting
  <2>13. /\ Low(rest, cur) /\ ~Guarded(rest, cur) /\ ~Doomed(rest, cur)
         /\ \A s \in 1..Len(rest) : rest[s].fn \in {"reset", "push"} => rest[s].env < cur
    <3>1. \A s \in 1..Len(rest) : rest[s].fn \in {"reset", "push"} => rest[s].env \in Nat /\ rest[s].env <= old
      BY <2>2, <2>12, FrameParts, TwoNums, Zenon DEF Low
    <3>2. \A s \in 1..Len(rest) : rest[s].fn \in {"reset", "push"} => rest[s].env < cur /\ rest[s].env <= cur
      <4>1. \A n \in Nat : n <= old => n < cur /\ n <= cur
        BY <2>0
      <4> QED BY <3>1, <4>1, Zenon
    <3> QED BY <2>0, <3>2 DEF Low, Guarded, Doomed, Spoils, ResetAt
  <2>14. Lined(rest, <<>>, U, puts)
    <3>1. \A x \in U : x \in Taken \/ \E j \in Nat : IsPut(q, 1, j) /\ x = q[j].val
      BY <2>6, Zenon
    <3> HIDE DEF U, q
    <3> QED BY <2>4, <2>12, <3>1, <1>LinedCommit DEF q
  <2> HIDE DEF U
  <2>15. /\ Nested(rc) /\ Low(rc, cur) /\ Lined(rc, <<>>, U, puts) /\ ~Doomed(rc, cur)
         /\ \A s \in 1..Len(rc) : rc[s] = c \/ \E t \in 1..Len(rest) : rc[s] = rest[t]
    <3>1. \A s \in 1..Len(rest) : Nests(c, rest[s]) /\ ~Spoils(c, rest[s], cur)
      BY <2>2, <2>9, <2>13, Zenon DEF Nests, Runs, Spoils
    <3>2. Follows(c, <<>>, U, puts) /\ c.env <= cur
      BY <2>0, <2>9 DEF Follows
    <3>3. \A s \in 1..Len(rc) : rc[s] = c \/ \E t \in 1..Len(rest) : rc[s] = rest[t]
      <4>1. rc[1] = c /\ \A s \in 1..Len(rc) : s = 1 \/ (s - 1 \in 1..Len(rest) /\ rc[s] = rest[s - 1])
        <5>1. rc = <<c>> \o rest
          BY <2>10, Zenon
        <5>2. rc[1] = c
          BY <5>1, Cons, ZenonT(40)
        <5>3. \A s \in 1..Len(rc) : s = 1 \/ (s - 1 \in 1..Len(rest) /\ rc[s] = rest[s - 1])
          BY <5>1, <1>ConsRest, ZenonT(40)
        <5> QED BY <5>2, <5>3, Zenon
      <4> QED BY <4>1, Zenon
    <3> QED BY <2>10, <2>12, <2>13, <2>14, <3>1, <3>2, <3>3, <1>StackCons, Zenon
  <2>16. /\ Nested(rb) /\ Low(rb, cur) /\ Lined(rb, <<>>, U, puts) /\ ~Doomed(rb, cur)
         /\ \A s \in 1..Len(rb) : rb[s] = b \/ rb[s] = c \/ \E t \in 1..Len(rest) : rb[s] = rest[t]
    <3>1. \A s \in 1..Len(rc) : ~Runs(rc[s])
      BY <2>2, <2>9, <2>15, Zenon DEF Runs
    <3>2. \A s \in 1..Len(rc) : Nests(b, rc[s]) /\ ~Spoils(b, rc[s], cur)
      BY <2>9, <3>1, Zenon DEF Nests, Runs, Spoils
    <3>3. Follows(b, <<>>, U, puts) /\ b.fn \notin {"reset", "push"}
      BY <2>9, Zenon DEF Follows
    <3>4. \A s \in 1..Len(rb) : rb[s] = b \/ rb[s] = c \/ \E t \in 1..Len(rest) : rb[s] = rest[t]
      <4>1. rb[1] = b /\ \A s \in 1..Len(rb) : s = 1 \/ (s - 1 \in 1..Len(rc) /\ rb[s] = rc[s - 1])
        <5>1. rb = <<b>> \o rc
          BY <2>10, Zenon
        <5>2. rb[1] = b
          BY <5>1, Cons, ZenonT(40)
        <5>3. \A s \in 1..Len(rb) : s = 1 \/ (s - 1 \in 1..Len(rc) /\ rb[s] = rc[s - 1])
          BY <5>1, <1>ConsRest, ZenonT(40)
        <5> QED BY <5>2, <5>3, Zenon
      <4>2. ASSUME NEW s \in 1..Len(rb), s # 1
            PROVE  rb[s] = c \/ \E t \in 1..Len(rest) : rb[s] = rest[t]
        <5>1. s - 1 \in 1..Len(rc) /\ rb[s] = rc[s - 1]
          BY <4>1, <4>2, Zenon
        <5> QED BY <2>15, <5>1, Zenon
      <4> QED BY <4>1, <4>2, Zenon
    <3> QED BY <2>10, <2>15, <3>2, <3>3, <3>4, <1>StackCons, Zenon
  <2>17. /\ Nested(stack') /\ Low(stack', cur) /\ Lined(stack', <<>>, U, puts)
         /\ Doomed(stack', cur) => Poisoned(queue[cur])
    <3>1. \A s \in 1..Len(rb) : Nests(a, rb[s])
      <4>1. ASSUME NEW t \in 1..Len(rest) PROVE Nests(a, rest[t])
        <5>1. rest[t].fn = "onfull" => Before(queue[cur], 1, rest[t].ops, rest[t].next)
          BY <2>12, Zenon DEF Lined, Follows
        <5> QED BY <2>2, <2>9, <5>1, Zenon DEF Nests, Runs
      <4>2. Nests(a, b) /\ Nests(a, c)
        BY <2>9, Zenon DEF Nests, Runs
      <4> QED BY <2>16, <4>1, <4>2, Zenon
    <3>2. Follows(a, <<>>, U, puts) /\ a.fn \notin {"reset", "push"}
      <4>1. Ready(queue[cur], 1, U, puts)
        BY <2>4, <2>6, Zenon DEF Ready, U
      <4> QED BY <2>9, <4>1, <1>NoRecords, Zenon DEF Follows
    <3>3. \A s \in 1..Len(rb) : Spoils(a, rb[s], cur) => Poisoned(queue[cur])
      BY <2>9, Zenon DEF Spoils
    <3> QED BY <2>11, <2>16, <3>1, <3>2, <3>3, <1>StackCons, Zenon
  <2>18. Waiting(stack)'
    BY <2>3, <2>5, <2>17, Zenon DEF Waiting, U
  <2>19. Retired'
    <3>1. Guarded(rc, cur)
      BY <2>9, <2>10, <1>StackCons, Zenon DEF ResetAt
    <3>2. Guarded(stack', cur)
      BY <2>10, <2>11, <3>1, <1>StackCons, Zenon
    <3>3. status'[cur'] = "open"
      BY <2>0, <2>3, Zenon DEF TypeOK
    <3> QED BY <2>3, <2>5, <3>2, <3>3, <1>NoRecords, Zenon DEF Retired
  <2>20. Running(Head(stack))'
    <3>1. Head(stack') = a
      BY <2>11
    <3> QED BY <2>9, <3>1, Zenon DEF Running, Runs
  <2> QED BY <2>7, <2>8, <2>18, <2>19, <2>20, Zenon DEF TimeInv
\* Between calls only the data matters, and whether old's queue is harmless.
<1>IdleTime. ASSUME stack' = <<>>, Newer', Reads', Harmless(queue'[old'])
      PROVE  TimeInv'
  <2> USE <1>IdleTime
  <2>1. Retired' /\ Waiting(stack)'
    BY <1>NoCalls, Zenon DEF Retired, Waiting
  <2> QED BY <2>1, Zenon DEF TimeInv
\* TimeInv at the start.
<1>InitTime. Init => TimeInv
  <2> SUFFICES ASSUME Init PROVE TimeInv
    BY Zenon
  <2>1. /\ cur = 2 /\ old = 1 /\ 1 \in Nums /\ 2 \in Nums /\ NoVal = 0
        /\ puts = 0 /\ timer = 0 /\ stack = <<>>
        /\ tables = [n \in Nums |-> Empty] /\ queue = [n \in Nums |-> <<>>]
        /\ served = [k \in Keys |-> NoVal]
    BY TwoNums, ValsAssumption, Zenon DEF Init
  <2>2. queue[cur] = <<>> /\ queue[old] = <<>> /\ tables[cur] = Empty /\ tables[old] = Empty
    BY <2>1, Zenon
  <2>3. Taken \subseteq {0}
    BY <2>1, <2>2, Zenon DEF Taken, Empty
  <2>4. Newer
    BY <2>1, <2>2, <2>3, <1>NoRecords DEF Newer
  <2>5. Reads
    BY <2>1, <2>2, Zenon DEF Reads, Lookup, Empty
  <2>6. Retired /\ Waiting(stack)
    BY <2>1, <2>2, <1>NoRecords, <1>NoCalls, Zenon DEF Retired, Waiting
  <2> QED BY <2>1, <2>4, <2>5, <2>6, Zenon DEF TimeInv
\* Until a commit fails with EIO, every step keeps TimeInv.
<1>NextTime. ASSUME Falsy \cap Vals = {}, Base, ~eio => TimeInv, [Next]_vars
      PROVE  ~eio' => TimeInv'
  <2> USE <1>NextTime
  \* A flush that fails keeps TimeInv.
  <2>FailTime. ASSUME Base, TimeInv, Fail, ~eio'
        PROVE  TimeInv'
    <3> USE <2>FailTime
    <3>1. Top("flush") /\ Throw
      BY Zenon DEF Fail
    <3> DEFINE e == Head(stack).env
               i == Head(stack).next
    <3>2. i <= Len(queue[e]) /\ queue[e][i].op = "put" /\ ~Sound(e, queue[e][i])
      BY Zenon DEF Fail
    <3>3. TypeOK /\ Head(stack) \in Frame /\ e \in Nums /\ i \in Nat \ {0} /\ queue[e] \in Seq(Op)
      <4>1. TypeOK /\ Head(stack) \in Frame /\ Head(stack).fn = "flush"
        BY <3>1, TopParts, Zenon DEF Base
      <4> QED BY <4>1, FrameParts, Zenon DEF TypeOK
    <3>4. Poisoned(queue[e]) \/ status[e] # "open"
      BY <3>2, <3>3 DEF Sound, Poisoned, Bad
    <3>5. Harmless(queue[old])
      BY <3>1, <3>4, <1>FailsHarmless, Zenon
    <3> QED BY <3>1, <3>5, <1>ThrowTime, Zenon
  \* The start of a flush keeps TimeInv.
  <2>EnterFlushTime. ASSUME Base, TimeInv, EnterFlush
        PROVE  TimeInv'
    <3> USE <2>EnterFlushTime
    <3>0. Top("enter") /\ stack # <<>> /\ TypeOK
      BY Zenon DEF EnterFlush, Top, Base
    <3>1. PICK f \in Frame, rest \in Seq(Frame) : f = Head(stack) /\ rest = Tail(stack)
      BY <3>0, <1>TopCall, Zenon DEF TimeInv
    <3>2. /\ Waiting(rest) /\ \A s \in 1..Len(rest) : Nests(f, rest[s])
          /\ f.fn = "enter" /\ f.env \in Nums /\ Running(f) /\ timer <= cur
          /\ Guarded(rest, old) <=> Guarded(stack, old)
      BY <3>0, <3>1, <1>TopCall, FrameParts, Zenon DEF TimeInv, ResetAt, Top, Newer
    <3>3. CASE /\ stack' = Tail(stack)
               /\ UNCHANGED <<disk, envs, queue, timer, by, dirty, proc, hist, rotations>>
      BY <3>0, <3>1, <3>2, <3>3, <1>PopTime, Zenon DEF disk, envs, hist
    <3>4. CASE Die
      BY <3>4, <1>DieTime, Zenon
    <3>5. CASE /\ queue[f.env] # <<>>
               /\ stack' = <<FlushF(f.env, 1)>> \o rest
               /\ dirty' = tables[f.env]
               /\ UNCHANGED <<disk, envs, queue, timer, by, proc, hist, rotations>>
      <4>1. UNCHANGED <<tables, queue, cur, old, puts, served, status, timer>>
        BY <3>5, Zenon DEF disk, envs, hist
      <4>2. PICK g \in Frame : /\ g = FlushF(f.env, 1)
                               /\ g.fn = "flush" /\ g.env = f.env /\ g.next = 1
        BY <3>2, Frames
      <4>3. \A s \in 1..Len(rest) : Nests(g, rest[s])
        BY <3>2, <4>2, <1>NestsFlush, Zenon DEF Runs
      <4>4. queue[f.env] \in Seq(Op)
        BY <3>0, <3>2, Zenon DEF TypeOK
      <4>5. Running(g)'
        BY <3>2, <3>5, <4>1, <4>2, <4>4 DEF Running, Runs
      <4>6. stack' = <<g>> \o rest /\ Runs(g) /\ timer' <= cur
        BY <3>2, <3>5, <4>1, <4>2, Zenon DEF Runs
      <4> QED BY <3>2, <4>1, <4>3, <4>5, <4>6, <1>StepTime, Zenon
    <3> QED BY <3>1, <3>3, <3>4, <3>5, Zenon DEF EnterFlush
  \* Going on to the current environment keeps TimeInv.
  <2>FlushCurTime. ASSUME Base, TimeInv, FlushCur
        PROVE  TimeInv'
    <3> USE <2>FlushCurTime
    <3>0. Top("flushCur") /\ stack # <<>>
          /\ cur \in Nums /\ cur \in Nat /\ old \in Nat /\ cur = old + 1
      BY TwoNums, Zenon DEF FlushCur, Top, Base, TypeOK, Numbered
    <3>1. PICK f \in Frame, rest \in Seq(Frame) : f = Head(stack) /\ rest = Tail(stack)
      BY <3>0, <1>TopCall, Zenon DEF TimeInv
    <3>2. /\ Waiting(rest) /\ \A s \in 1..Len(rest) : Nests(f, rest[s]) /\ rest[s] \in Frame
          /\ f.fn = "flushCur" /\ timer <= cur
          /\ Guarded(rest, old) <=> Guarded(stack, old)
      BY <3>0, <3>1, <1>TopCall, FrameParts, Zenon DEF TimeInv, ResetAt, Top, Newer
    <3>3. UNCHANGED <<tables, queue, cur, old, puts, served, status, timer>>
      BY Zenon DEF FlushCur, disk, envs, hist
    <3>4. PICK g \in Frame : g = EnterF(cur) /\ g.fn = "enter" /\ g.env = cur
      BY <3>0, Frames
    <3>5. \A s \in 1..Len(rest) : rest[s].fn = "reset" => rest[s].env <= cur
      <4>1. \A s \in 1..Len(rest) : rest[s].fn = "reset" => rest[s].env <= old /\ rest[s].env \in Nat
        BY <3>2, FrameParts, TwoNums, Zenon DEF Waiting, Low
      <4> QED BY <3>0, <4>1
    <3>6. \A s \in 1..Len(rest) : Nests(g, rest[s])
      BY <3>2, <3>4, <3>5, <1>NestsFlush, Zenon DEF Runs
    <3>7. Running(g)'
      BY <3>0, <3>3, <3>4 DEF Running, Runs
    <3>8. stack' = <<g>> \o rest /\ Runs(g) /\ timer' <= cur
      BY <3>1, <3>2, <3>3, <3>4, Zenon DEF FlushCur, Runs
    <3> QED BY <3>2, <3>3, <3>6, <3>7, <3>8, <1>StepTime, Zenon
  \* A record written to the transaction keeps TimeInv.
  <2>ExecPutTime. ASSUME Base, TimeInv, ExecPut
        PROVE  TimeInv'
    <3> USE <2>ExecPutTime
    <3>0. Top("flush") /\ stack # <<>> /\ TypeOK
      BY Zenon DEF ExecPut, Top, Base
    <3>1. PICK f \in Frame, rest \in Seq(Frame) : f = Head(stack) /\ rest = Tail(stack)
      BY <3>0, <1>TopCall, Zenon DEF TimeInv
    <3>2. /\ Waiting(rest) /\ \A s \in 1..Len(rest) : Nests(f, rest[s])
          /\ f.fn = "flush" /\ f.env \in Nums /\ f.next \in Nat \ {0} /\ Running(f) /\ timer <= cur
          /\ Guarded(rest, old) <=> Guarded(stack, old)
      BY <3>0, <3>1, <1>TopCall, FrameParts, Zenon DEF TimeInv, ResetAt, Top, Newer
    <3>3. UNCHANGED <<tables, queue, cur, old, puts, served, status, timer>>
      BY Zenon DEF ExecPut, disk, envs, hist
    <3> DEFINE q == queue[f.env]
    <3>4. /\ f.next <= Len(q) /\ Sound(f.env, q[f.next]) /\ dirty' = ApplyOp(dirty, q[f.next])
          /\ stack' = <<FlushF(f.env, f.next + 1)>> \o rest
      BY <3>1, Zenon DEF ExecPut
    <3>5. PICK g \in Frame : /\ g = FlushF(f.env, f.next + 1)
                             /\ g.fn = "flush" /\ g.env = f.env /\ g.next = f.next + 1
      BY <3>2, Frames
    <3>6. \A s \in 1..Len(rest) : Nests(g, rest[s])
      BY <3>2, <3>5, <1>NestsFlush, Zenon DEF Runs
    <3>7. q \in Seq(Op) /\ Len(q) \in Nat
      BY <3>0, <3>2 DEF TypeOK
    <3>8. Running(g)'
      <4>1. f.next + 1 <= Len(q) + 1 /\ ~Bad(q[f.next])
        BY <3>2, <3>4, <3>7 DEF Sound, Bad
      <4>2. \A j \in 1..(g.next - 1) : ~Bad(q[j])
        BY <3>2, <3>5, <4>1 DEF Running
      <4>3. IsPut(q, 1, f.next)
        BY <3>2, <3>4, <3>7 DEF Sound, IsPut
      <4>4. ASSUME f.env = cur, NEW k \in Keys
            PROVE  dirty'[k] = tables[cur][k] \/ \E j \in Nat : IsPut(q, 1, j) /\ dirty'[k] = q[j].val
        <5>1. dirty[k] = tables[cur][k] \/ \E j \in Nat : IsPut(q, 1, j) /\ dirty[k] = q[j].val
          BY <3>2, <4>4, Zenon DEF Running
        <5>2. dirty'[k] = dirty[k] \/ dirty'[k] = q[f.next].val
          BY <3>0, <3>4, Zenon DEF ApplyOp, TypeOK, Tables
        <5> QED BY <3>2, <4>3, <5>1, <5>2, Zenon
      <4>5. /\ f.env <= cur /\ (f.env = old => Harmless(queue[old]))
            /\ queue[f.env] # <<>>
        BY <3>2, Zenon DEF Running, Runs
      <4>6. f.env = cur => \A k \in Keys :
              dirty'[k] = tables[cur][k] \/ \E j \in Nat : IsPut(queue[cur], 1, j) /\ dirty'[k] = queue[cur][j].val
        BY <4>4, Zenon
      <4>7. UNCHANGED <<tables, queue, cur, old>>
        BY <3>3, Zenon
      <4> QED BY <3>5, <4>1, <4>2, <4>5, <4>6, <4>7, Zenon DEF Running, Runs
    <3>9. stack' = <<g>> \o rest /\ Runs(g) /\ timer' <= cur
      BY <3>2, <3>3, <3>4, <3>5, Zenon DEF Runs
    <3> QED BY <3>2, <3>3, <3>6, <3>8, <3>9, <1>StepTime, Zenon
  \* A commit keeps TimeInv: what it writes is newer than what was read.
  <2>CommitTime. ASSUME Falsy \cap Vals = {}, Base, TimeInv, Commit
        PROVE  TimeInv'
    <3> USE <2>CommitTime
    <3>0. Top("flush") /\ stack # <<>> /\ TypeOK /\ cur \in Nums /\ old \in Nums
          /\ cur \in Nat /\ old \in Nat /\ cur = old + 1
      BY TwoNums, Zenon DEF Commit, Top, Base, TypeOK, Numbered
    <3>1. PICK f \in Frame, rest \in Seq(Frame) : f = Head(stack) /\ rest = Tail(stack)
      BY <3>0, <1>TopCall, Zenon DEF TimeInv
    <3>2. /\ Waiting(rest) /\ \A s \in 1..Len(rest) : ~Runs(rest[s])
          /\ Running(f)
          /\ Guarded(rest, old) <=> Guarded(stack, old)
      BY <3>0, <3>1, <1>TopCall, Zenon DEF TimeInv, ResetAt, Top
    <3>3. f.fn = "flush" /\ f.env \in Nums /\ f.env # old /\ f.env <= cur
      BY <3>1, <1>CommitsGood, Zenon
    <3>4. /\ tables' = [tables EXCEPT ![f.env] = dirty]
          /\ queue' = [queue EXCEPT ![f.env] = <<>>]
          /\ stack' = rest
          /\ UNCHANGED <<cur, old, puts, served, status, timer>>
      BY <3>1, Zenon DEF Commit, envs, hist
    <3>5. queue'[old] = queue[old] /\ tables'[old] = tables[old]
      BY <3>0, <3>3, <3>4, Zenon DEF TypeOK
    <3>6. \A n \in Nums : n > cur => queue'[n] = <<>> /\ tables'[n] = Empty
      <4>1. \A n \in Nums : n > cur => queue[n] = <<>> /\ tables[n] = Empty
        BY Zenon DEF TimeInv, Newer
      <4>2. \A n \in Nums : n > cur => n # f.env
        BY <3>0, <3>3, TwoNums
      <4> QED BY <3>0, <3>4, <4>1, <4>2, Zenon DEF TypeOK
    <3>7. stack' # <<>> => Running(Head(stack))'
      BY <3>2, <3>4, <1>WaitingRuns, Zenon
    <3>8. CASE f.env = cur
      <4>1. tables'[cur] = dirty /\ queue'[cur] = <<>>
        BY <3>0, <3>4, <3>8, Zenon DEF TypeOK
      <4>2. \A k \in Keys : \/ dirty[k] = tables[cur][k]
                            \/ \E j \in Nat : IsPut(queue[cur], 1, j) /\ dirty[k] = queue[cur][j].val
        BY <3>2, <3>3, <3>8, Zenon DEF Running
      <4>3. \A x \in Taken' : x \in Taken \/ \E j \in Nat : IsPut(queue[cur], 1, j) /\ x = queue[cur][j].val
        BY <3>4, <3>5, <4>1, <4>2 DEF Taken
      <4>4. Ready(queue[cur], 1, Taken, puts) /\ \A x \in Taken : x <= puts
        BY Zenon DEF TimeInv, Newer
      <4>5. \A x \in Taken' : x <= puts
        BY <4>3, <4>4, Zenon DEF Ready
      <4>6. Newer'
        BY <3>4, <3>6, <4>1, <4>5, <1>NoRecords, Zenon DEF TimeInv, Newer
      <4>7. Reads'
        <5> SUFFICES ASSUME NEW k \in Keys PROVE Lookup(k)' # NoVal => Lookup(k)' >= served[k]
          BY <3>4, Zenon DEF Reads
        <5>1. CASE dirty[k] = tables[cur][k]
          <6>1. Lookup(k)' = Lookup(k)
            BY <3>4, <3>5, <4>1, <5>1 DEF Lookup
          <6> QED BY <6>1, Zenon DEF TimeInv, Reads
        <5>2. CASE \E j \in Nat : IsPut(queue[cur], 1, j) /\ dirty[k] = queue[cur][j].val
          <6>1. PICK j \in Nat : IsPut(queue[cur], 1, j) /\ dirty[k] = queue[cur][j].val
            BY <5>2, Zenon
          <6>2. 0 \in Taken /\ served[k] \in Taken
            BY Zenon DEF Taken
          <6>3. 0 < dirty[k] /\ served[k] < dirty[k]
            BY <4>4, <6>1, <6>2, Zenon DEF Ready
          <6>4. dirty[k] \in Vals \cup {NoVal} /\ NoVal = 0 /\ served[k] \in Nat /\ dirty[k] \in Nat
            <7>1. dirty[k] \in Vals \cup {NoVal} /\ served[k] \in Vals \cup {NoVal}
              BY <3>0, Zenon DEF TypeOK, Tables
            <7>2. NoVal = 0 /\ \A x \in Vals \cup {NoVal} : x \in Nat
              BY ValsAssumption, BoundsAssumption
            <7> QED BY <7>1, <7>2, Zenon
          <6>5. dirty[k] \notin Falsy \cup {NoVal}
            BY <6>3, <6>4
          <6>6. Lookup(k)' = dirty[k]
            BY <3>4, <4>1, <6>5, Zenon DEF Lookup
          <6> QED BY <6>3, <6>4, <6>6
        <5> QED BY <4>2, <5>1, <5>2, Zenon
      <4>8. Lined(rest, <<>>, Taken', puts)
        BY <3>0, <3>2, <4>3, <1>LinedCommit DEF Waiting, TypeOK
      <4>9. Waiting(stack)'
        BY <3>2, <3>4, <3>5, <4>1, <4>8, Zenon DEF Waiting
      <4>10. Retired'
        BY <3>2, <3>4, <3>5, <4>1, <1>NoRecords, Zenon DEF TimeInv, Retired
      <4> QED BY <3>7, <4>6, <4>7, <4>9, <4>10, Zenon DEF TimeInv
    <3>9. CASE f.env # cur
      <4>1. tables'[cur] = tables[cur] /\ queue'[cur] = queue[cur]
        BY <3>0, <3>3, <3>4, <3>9, Zenon DEF TypeOK
      <4>2. Taken' = Taken
        BY <3>4, <3>5, <4>1, ZenonT(30) DEF Taken
      <4>3. Newer' /\ Reads'
        BY <3>4, <3>5, <3>6, <4>1, <4>2, Zenon DEF TimeInv, Newer, Reads, Lookup
      <4>4. Waiting(stack)'
        BY <3>2, <3>4, <3>5, <4>1, <4>2, Zenon DEF Waiting
      <4>5. Retired'
        BY <3>2, <3>4, <3>5, <4>1, Zenon DEF TimeInv, Retired
      <4> QED BY <3>7, <4>3, <4>4, <4>5, Zenon DEF TimeInv
    <3> QED BY <3>8, <3>9, Zenon
  \* A put of the application is newer than everything.
  <2>CallTime. ASSUME Base, TimeInv, NEW op \in Op, op.op = "put" => op.val = puts + 1, Call(op)
        PROVE  TimeInv'
    <3> USE <2>CallTime
    <3>1. /\ stack = <<>> /\ DbCall(op, <<>>) /\ puts' = puts + 1
          /\ UNCHANGED <<tables, cur, old, status, served>>
      BY Zenon DEF Call, Usable, Idle, disk, envs
    <3>2. /\ Taken \subseteq Nat /\ puts \in Nat /\ queue[cur] \in Seq(Op)
          /\ \A x \in Taken : x <= puts /\ x <= puts'
      BY <3>1, <1>TakenNat DEF Base, TypeOK, TimeInv, Newer
    <3>3. Ready(queue[cur], 1, Taken, puts) /\ Ready(queue[cur], 1, Taken, puts')
      <4>1. Ready(queue[cur], 1, Taken, puts) /\ puts <= puts' /\ puts' \in Nat
            /\ Taken \in SUBSET Taken /\ 1 \in Nat \ {0}
        <5>1. puts <= puts' /\ puts' \in Nat /\ 1 \in Nat \ {0}
          BY <3>1, <3>2
        <5> QED BY <5>1, Zenon DEF TimeInv, Newer
      <4> QED BY <3>2, <4>1, <1>ReadyKeeps, Zenon
    <3>4. ASSUME op.op = "put"
          PROVE  /\ op.val <= puts' /\ \A x \in Taken : x < op.val
                 /\ \A j \in Nat : IsPut(queue[cur], 1, j) => queue[cur][j].val < op.val
      <4>1. op.val = puts + 1
        BY <3>4, Zenon
      <4>2. ASSUME NEW j \in Nat, IsPut(queue[cur], 1, j) PROVE queue[cur][j].val < op.val
        <5>1. j \in 1..Len(queue[cur]) /\ queue[cur][j].val <= puts
          BY <3>3, <4>2, Zenon DEF Ready, IsPut
        <5>2. queue[cur][j].val \in Nat
          BY <3>2, <5>1, <1>OpVals, Zenon
        <5> QED BY <3>2, <4>1, <5>1, <5>2
      <4>3. ASSUME NEW x \in Nat, x <= puts PROVE x < puts + 1
        BY <4>3, <3>2
      <4>4. puts + 1 <= puts'
        BY <3>1, <3>2
      <4> QED BY <3>2, <4>1, <4>2, <4>3, <4>4, Zenon
    <3>5. PICK r \in Seq(Frame) : r = <<>> /\ DbCall(op, r)
      <4>1. <<>> \in Seq(Frame)
        OBVIOUS
      <4> QED BY <3>1, <4>1, Zenon
    <3>6. /\ Nested(r) /\ Low(r, old) /\ Lined(r, queue[cur], Taken, puts')
          /\ ~Doomed(r, old) /\ ~Guarded(r, old) /\ Len(r) = 0
      BY <3>5, <1>NoCalls, Zenon
    <3>7. Harmless(queue[old])
      BY <3>1, <1>NoCalls, Zenon DEF TimeInv, Retired
    <3>8. /\ Reads /\ timer <= cur
          /\ \A n \in Nums : n > cur => queue[n] = <<>> /\ tables[n] = Empty
      BY Zenon DEF TimeInv, Newer
    <3>9. \A s \in 1..Len(r) : ~Runs(r[s]) /\ Precedes(op, r[s])
      BY <3>6
    <3> QED BY <3>1, <3>2, <3>3, <3>4, <3>5, <3>6, <3>7, <3>8, <3>9, <1>DbCallTime, Zenon
  \* A record put again keeps TimeInv.
  <2>ReplayTime. ASSUME Base, TimeInv, Replay
        PROVE  TimeInv'
    <3> USE <2>ReplayTime
    <3>0. Top("onfull") /\ stack # <<>> /\ TypeOK
          /\ UNCHANGED <<tables, cur, old, status, served, puts>>
      BY Zenon DEF Replay, Top, Base, disk, envs, hist
    <3>1. PICK f \in Frame, rest \in Seq(Frame) : f = Head(stack) /\ rest = Tail(stack)
      BY <3>0, <1>TopCall, Zenon DEF TimeInv
    <3>2. /\ Waiting(rest)
          /\ \A s \in 1..Len(rest) : Nests(f, rest[s]) /\ rest[s] \in Frame /\ ~Runs(rest[s])
          /\ \A s \in 1..Len(rest) : Spoils(f, rest[s], old) => Poisoned(queue[old])
          /\ Guarded(rest, old) <=> Guarded(stack, old)
          /\ f.fn = "onfull" /\ f.ops \in Seq(Op) /\ f.next \in Nat \ {0}
          /\ Follows(f, queue[cur], Taken, puts)
      BY <3>0, <3>1, <1>TopCall, FrameParts, Zenon DEF TimeInv, ResetAt, Top
    <3>3. CASE f.next > Len(f.ops) /\ stack' = Tail(stack) /\ UNCHANGED <<queue, timer>>
      BY <3>0, <3>1, <3>2, <3>3, <1>PopTime, Zenon DEF TimeInv, Newer
    <3>4. CASE f.next <= Len(f.ops) /\ DbCall(f.ops[f.next], <<OnfullF(f.ops, f.next + 1)>> \o rest)
      <4>1. PICK op \in Op : op = f.ops[f.next]
        BY <3>2, <3>4
      <4>2. PICK g \in Frame : /\ g = OnfullF(f.ops, f.next + 1) /\ g.fn = "onfull"
                               /\ g.ops = f.ops /\ g.next = f.next + 1
        <5>1. f.next + 1 \in Nat \ {0}
          BY <3>2
        <5>2. OnfullF(f.ops, f.next + 1) \in Frame
          BY <3>2, <5>1, Frames, Zenon
        <5> QED BY <5>2, Zenon DEF OnfullF
      <4>3. PICK r \in Seq(Frame) : r = <<g>> \o rest /\ DbCall(op, r)
        BY <3>4, <4>1, <4>2, Cons, Zenon
      <4>4. Ready(f.ops, f.next, Taken, puts) /\ Before(queue[cur], 1, f.ops, f.next)
        BY <3>2, Zenon DEF Follows
      <4>5. Follows(g, queue[cur], Taken, puts) /\ Precedes(op, g)
        BY <3>2, <3>4, <4>1, <4>2, <4>4, <1>NextRecord, Zenon DEF Follows, Precedes
      <4>6. op.op = "put" => /\ op.val <= puts /\ \A x \in Taken : x < op.val
                             /\ \A j \in Nat : IsPut(queue[cur], 1, j) => queue[cur][j].val < op.val
        BY <3>2, <3>4, <4>1, <4>4, <1>NextRecord, Zenon
      <4>7. ASSUME NEW s \in 1..Len(rest) PROVE Nests(g, rest[s]) /\ Precedes(op, rest[s])
        <5>1. Nests(f, rest[s])
          BY <3>2, Zenon
        <5>2. rest[s].fn = "onfull" => Before(f.ops, f.next, rest[s].ops, rest[s].next)
          BY <3>2, <5>1, Zenon DEF Nests
        <5>3. rest[s].fn = "onfull" => Before(g.ops, g.next, rest[s].ops, rest[s].next)
          BY <3>2, <3>4, <4>2, <4>4, <5>2, <1>NextRecord, ZenonT(30)
        <5>4. Precedes(op, rest[s])
          BY <3>2, <3>4, <4>1, <4>4, <5>2, <1>NextRecord, Zenon DEF Precedes
        <5>5. Nests(g, rest[s])
          BY <3>2, <4>2, <5>1, <5>3, Zenon DEF Nests, Runs
        <5> QED BY <5>4, <5>5, Zenon
      <4>8. \A s \in 1..Len(rest) : Spoils(g, rest[s], old) => Poisoned(queue[old])
        BY <3>2, <4>2, Zenon DEF Spoils
      <4>9. /\ Nested(rest) /\ Low(rest, old) /\ Lined(rest, queue[cur], Taken, puts)
            /\ Doomed(rest, old) => Poisoned(queue[old])
        BY <3>2, Zenon DEF Waiting
      <4>10. /\ Nested(<<g>> \o rest) /\ Low(<<g>> \o rest, old)
             /\ Lined(<<g>> \o rest, queue[cur], Taken, puts)
             /\ Doomed(<<g>> \o rest, old) => Poisoned(queue[old])
             /\ Guarded(<<g>> \o rest, old) <=> ResetAt(g, old) \/ Guarded(rest, old)
        BY <4>2, <4>5, <4>7, <4>8, <4>9, <1>StackCons, Zenon
      <4>11. \A s \in 1..Len(r) : ~Runs(r[s]) /\ Precedes(op, r[s])
        <5>1. r[1] = g /\ \A s \in 1..Len(r) : s = 1 \/ (s - 1 \in 1..Len(rest) /\ r[s] = rest[s - 1])
          <6>1. r[1] = g
            BY <4>3, Cons, Zenon
          <6>2. \A s \in 1..Len(r) : s = 1 \/ (s - 1 \in 1..Len(rest) /\ r[s] = rest[s - 1])
            BY <4>3, <1>ConsRest, ZenonT(30)
          <6> QED BY <6>1, <6>2, Zenon
        <5> QED BY <3>2, <4>2, <4>5, <4>7, <5>1, Zenon DEF Runs
      <4>12. Guarded(r, old) <=> Guarded(stack, old)
        BY <3>2, <4>2, <4>3, <4>10, Zenon DEF ResetAt
      <4>13. Guarded(stack, old) => (Bad(op) => Poisoned(queue[old]))
        <5> SUFFICES ASSUME Guarded(stack, old), Bad(op) PROVE Poisoned(queue[old])
          BY Zenon
        <5>1. PICK s \in 1..Len(rest) : ResetAt(rest[s], old)
          BY <3>2, ZenonT(30) DEF Guarded
        <5>2. Poisoned(f.ops)
          BY <3>2, <3>4, <4>1 DEF Poisoned
        <5> QED BY <3>2, <5>1, <5>2, Zenon DEF Spoils
      <4>14. /\ Reads /\ timer <= cur /\ \A x \in Taken : x <= puts
             /\ \A n \in Nums : n > cur => queue[n] = <<>> /\ tables[n] = Empty
             /\ Ready(queue[cur], 1, Taken, puts)
             /\ Guarded(stack, old) \/ Harmless(queue[old])
             /\ Guarded(stack, old) => status[cur] = "open" /\ (Poisoned(queue[cur]) => Poisoned(queue[old]))
        BY Zenon DEF TimeInv, Newer, Retired
      <4>15. puts' = puts /\ UNCHANGED <<tables, cur, old, status, served>>
        BY <3>0, Zenon
      <4> QED BY <4>3, <4>6, <4>10, <4>11, <4>12, <4>13, <4>14, <4>15, <1>DbCallTime, ZenonT(30)
    <3> QED BY <3>1, <3>3, <3>4, Zenon DEF Replay
  \* A del in the queue of an old environment: a flush of it never commits.
  <2>PushOldTime. ASSUME Base, TimeInv, PushOld
        PROVE  TimeInv'
    <3> USE <2>PushOldTime
    <3>0. /\ Top("push") /\ stack # <<>> /\ TypeOK /\ cur \in Nums /\ old \in Nums
          /\ cur \in Nat /\ old \in Nat /\ cur = old + 1
          /\ UNCHANGED <<tables, cur, old, status, served, puts>>
      BY TwoNums, Zenon DEF PushOld, Top, Base, TypeOK, Numbered, disk, envs, hist
    <3>1. PICK f \in Frame, rest \in Seq(Frame) : f = Head(stack) /\ rest = Tail(stack)
      BY <3>0, <1>TopCall, Zenon DEF TimeInv
    <3>2. /\ Waiting(rest) /\ \A s \in 1..Len(rest) : Nests(f, rest[s]) /\ ~Runs(rest[s])
          /\ Guarded(rest, old) <=> Guarded(stack, old)
          /\ f.fn = "push" /\ f.env \in Nums /\ f.key \in Keys /\ f.env <= old
      BY <3>0, <3>1, <1>TopCall, FrameParts, Zenon DEF TimeInv, ResetAt, Top
    <3>3. f.env \in Nat /\ f.env # cur
      <4>1. f.env \in Nat /\ f.env <= old
        BY <3>2, TwoNums, Zenon
      <4> QED BY <3>0, <4>1
    <3>4. PICK op \in Op : op = DelOp(f.key) /\ Bad(op)
      BY <3>2, OpTypes, Zenon DEF DelOp, Bad
    <3>5. PushBatch(f.env, op, rest)
      BY <3>1, <3>4, Zenon DEF PushOld
    <3>6. queue' = [queue EXCEPT ![f.env] = Append(@, op)] /\ timer' \in {timer, f.env}
      BY <3>5, Zenon DEF PushBatch
    <3>7. /\ queue'[cur] = queue[cur]
          /\ f.env # old => queue'[old] = queue[old]
          /\ f.env = old => Poisoned(queue'[old])
      BY <3>0, <3>2, <3>3, <3>4, <3>6, <1>Appends, Zenon DEF TypeOK
    <3>8. /\ Poisoned(queue[old]) => Poisoned(queue'[old])
          /\ Harmless(queue[old]) => Harmless(queue'[old])
          /\ f.env = old => Harmless(queue'[old])
      BY <3>7, Zenon DEF Harmless
    <3>9. Taken' = Taken /\ Reads'
      BY <3>0, Zenon DEF Taken, TimeInv, Reads, Lookup
    <3>10. Newer'
      <4>1. timer' <= cur
        BY <3>0, <3>2, <3>3, <3>6 DEF TimeInv, Newer
      <4>2. \A n \in Nums : n > cur => queue'[n] = <<>> /\ tables'[n] = Empty
        <5>1. \A n \in Nums : n > cur => n # f.env
          BY <3>0, <3>2, <3>3, TwoNums
        <5>2. \A n \in Nums : n > cur => queue[n] = <<>> /\ tables[n] = Empty
          BY Zenon DEF TimeInv, Newer
        <5> QED BY <3>0, <3>6, <5>1, <5>2, Zenon DEF TypeOK
      <4> QED BY <3>0, <3>7, <3>9, <4>1, <4>2, Zenon DEF TimeInv, Newer
    <3>11. Waiting(rest)'
      BY <3>0, <3>2, <3>7, <3>8, <3>9, Zenon DEF Waiting
    <3>12. (Guarded(stack', old') <=> Guarded(rest, old)) => Retired'
      BY <3>0, <3>2, <3>7, <3>8, Zenon DEF TimeInv, Retired
    <3>13. CASE stack' = rest
      <4>1. Waiting(stack)' /\ Retired'
        BY <3>0, <3>11, <3>12, <3>13, Zenon DEF Waiting
      <4>2. stack' # <<>> => Running(Head(stack))'
        BY <3>2, <3>13, <1>WaitingRuns, Zenon
      <4> QED BY <3>9, <3>10, <4>1, <4>2, Zenon DEF TimeInv
    <3>14. CASE stack' = <<EnterF(f.env)>> \o rest
      <4>1. PICK g \in Frame : g = EnterF(f.env) /\ g.fn = "enter" /\ g.env = f.env
        BY <3>2, Frames
      <4>2. \A s \in 1..Len(rest) : Nests(g, rest[s])
        BY <3>2, <4>1, <1>NestsFlush, Zenon DEF Runs
      <4>3. g.fn \notin {"reset", "onfull"} /\ (g.fn = "push" => g.env <= old')
        BY <4>1, Zenon
      <4>4. stack' = <<g>> \o rest
        BY <3>14, <4>1, Zenon
      <4>5. Waiting(stack)' /\ Head(stack') = g /\ (Guarded(stack', old') <=> Guarded(rest, old'))
        BY <3>11, <4>2, <4>3, <4>4, <1>NewCall, Zenon
      <4>6. g.env <= cur'
        BY <3>0, <3>2, <3>3, <4>1
      <4>7. Running(g)'
        BY <3>0, <3>8, <4>1, <4>6, Zenon DEF Running, Runs
      <4>8. Retired'
        BY <3>0, <3>12, <4>5, Zenon
      <4> QED BY <3>9, <3>10, <4>5, <4>7, <4>8, Zenon DEF TimeInv
    <3> QED BY <3>5, <3>13, <3>14, Zenon DEF PushBatch
  \* After a reset no other call waits to reset the same queue.
  <2>ResetQueueTime. ASSUME Base, TimeInv, ResetQueue
        PROVE  TimeInv'
    <3> USE <2>ResetQueueTime
    <3>0. /\ Top("reset") /\ stack # <<>> /\ TypeOK /\ cur \in Nums /\ old \in Nums
          /\ cur \in Nat /\ old \in Nat /\ cur = old + 1
          /\ UNCHANGED <<tables, cur, old, status, served, puts, timer>>
      BY TwoNums, Zenon DEF ResetQueue, Top, Base, TypeOK, Numbered, disk, envs, hist
    <3>1. PICK f \in Frame, rest \in Seq(Frame) : f = Head(stack) /\ rest = Tail(stack)
      BY <3>0, <1>TopCall, Zenon DEF TimeInv
    <3>2. /\ Waiting(rest)
          /\ \A s \in 1..Len(rest) : Nests(f, rest[s]) /\ rest[s] \in Frame /\ ~Runs(rest[s])
          /\ Guarded(stack, old) <=> ResetAt(f, old) \/ Guarded(rest, old)
          /\ f.fn = "reset" /\ f.env \in Nums /\ f.env <= old
      BY <3>0, <3>1, <1>TopCall, FrameParts, Zenon DEF TimeInv, Top
    <3>3. f.env \in Nat /\ f.env # cur
      <4>1. f.env \in Nat /\ f.env <= old
        BY <3>2, TwoNums, Zenon
      <4> QED BY <3>0, <4>1
    <3>4. queue' = [queue EXCEPT ![f.env] = <<>>] /\ stack' = rest
      BY <3>1, Zenon DEF ResetQueue
    <3>5. /\ queue'[cur] = queue[cur]
          /\ f.env # old => queue'[old] = queue[old]
          /\ f.env = old => queue'[old] = <<>>
      BY <3>0, <3>2, <3>3, <3>4, Zenon DEF TypeOK
    <3>6. Taken' = Taken /\ Reads'
      BY <3>0, Zenon DEF Taken, TimeInv, Reads, Lookup
    <3>7. Newer'
      <4>1. \A n \in Nums : n > cur => queue'[n] = <<>> /\ tables'[n] = Empty
        <5>1. \A n \in Nums : n > cur => queue[n] = <<>> /\ tables[n] = Empty
          BY Zenon DEF TimeInv, Newer
        <5> QED BY <3>0, <3>4, <5>1, Zenon DEF TypeOK
      <4> QED BY <3>0, <3>5, <3>6, <4>1, Zenon DEF TimeInv, Newer
    <3>8. f.env = old => ~Guarded(rest, old)
      <4> SUFFICES ASSUME f.env = old, NEW s \in 1..Len(rest), ResetAt(rest[s], old) PROVE FALSE
        BY Zenon DEF Guarded
      <4>1. rest[s].env < f.env
        BY <3>2, Zenon DEF Nests, ResetAt
      <4> QED BY <3>0, <4>1 DEF ResetAt
    <3>9. Doomed(rest, old) => Guarded(rest, old)
      BY Zenon DEF Doomed, Guarded, Spoils
    <3>10. Waiting(stack)'
      BY <3>0, <3>2, <3>4, <3>5, <3>6, <3>8, <3>9, Zenon DEF Waiting
    <3>11. Retired'
      BY <3>0, <3>2, <3>4, <3>5, <3>8, <1>NoRecords, Zenon DEF TimeInv, Retired, ResetAt
    <3>12. stack' # <<>> => Running(Head(stack))'
      BY <3>2, <3>4, <1>WaitingRuns, Zenon
    <3> QED BY <3>6, <3>7, <3>10, <3>11, <3>12, Zenon DEF TimeInv
  \* A full map keeps TimeInv.
  <2>MapFullTime. ASSUME Falsy \cap Vals = {}, Base, TimeInv, MapFull
        PROVE  TimeInv'
    <3> USE <2>MapFullTime
    <3>1. Top("flush")
      BY Zenon DEF MapFull
    <3>2. CASE Head(stack).env = cur /\ Rotate(cur)
      BY <3>1, <3>2, <1>RotateTime, Zenon
    <3>3. CASE Head(stack).env # cur /\ Throw
      BY <3>1, <3>3, <1>FailsHarmless, <1>ThrowTime, Zenon
    <3> QED BY <3>2, <3>3, Zenon DEF MapFull
  \* flushBatchOps of the cache starts with the old environment.
  <2>FlushTime. ASSUME Base, TimeInv, Flush
        PROVE  TimeInv'
    <3> USE <2>FlushTime
    <3>0. /\ stack = <<>> /\ TypeOK /\ old \in Nums
          /\ cur \in Nat /\ old \in Nat /\ cur = old + 1
          /\ stack' = <<EnterF(old), FlushCurF>>
          /\ UNCHANGED <<tables, queue, cur, old, puts, served, status, timer>>
      BY TwoNums, Zenon DEF Flush, Usable, Idle, Base, TypeOK, Numbered, disk, envs, hist
    <3>1. PICK f \in Frame, g \in Frame :
            /\ f = EnterF(old) /\ f.fn = "enter" /\ f.env = old
            /\ g = FlushCurF /\ g.fn = "flushCur"
      BY <3>0, Frames
    <3>2. PICK rest \in Seq(Frame) : rest = <<g>>
      <4>1. <<g>> \in Seq(Frame)
        OBVIOUS
      <4> QED BY <4>1, Zenon
    <3>3. stack' = <<f>> \o rest
      BY <3>0, <3>1, <3>2
    <3>4. /\ Nested(rest) /\ Low(rest, old) /\ Lined(rest, queue[cur], Taken, puts)
          /\ ~Doomed(rest, old) /\ ~Guarded(rest, old)
      BY <3>1, <3>2 DEF Nested, Low, Lined, Follows, Doomed, Guarded, ResetAt
    <3>5. Waiting(rest) /\ (Guarded(rest, old) <=> Guarded(stack, old)) /\ Harmless(queue[old])
      BY <3>0, <3>4, <1>NoCalls, Zenon DEF Waiting, TimeInv, Retired
    <3>6. \A s \in 1..Len(rest) : Nests(f, rest[s])
      BY <3>1, <3>2 DEF Nests, Runs
    <3>7. Runs(f) /\ Running(f)'
      BY <3>0, <3>1, <3>5 DEF Running, Runs
    <3>8. timer' <= cur
      BY <3>0, Zenon DEF TimeInv, Newer
    <3> QED BY <3>0, <3>3, <3>5, <3>6, <3>7, <3>8, <1>StepTime, Zenon
  \* The auto-flush, of the environment that armed it.
  <2>TimerFireTime. ASSUME Base, TimeInv, TimerFire
        PROVE  TimeInv'
    <3> USE <2>TimerFireTime
    <3>0. /\ stack = <<>> /\ TypeOK /\ timer \in Nums /\ cur \in Nat
          /\ stack' = <<EnterF(timer)>> /\ timer' = 0
          /\ UNCHANGED <<tables, queue, cur, old, puts, served, status>>
      BY TwoNums, Zenon DEF TimerFire, Idle, Base, TypeOK, disk, envs, hist
    <3>1. PICK f \in Frame : f = EnterF(timer) /\ f.fn = "enter" /\ f.env = timer
      BY <3>0, Frames
    <3>2. PICK rest \in Seq(Frame) : rest = <<>>
      <4>1. <<>> \in Seq(Frame)
        OBVIOUS
      <4> QED BY <4>1, Zenon
    <3>3. stack' = <<f>> \o rest
      BY <3>0, <3>1, <3>2
    <3>4. Waiting(rest) /\ (Guarded(rest, old) <=> Guarded(stack, old)) /\ Harmless(queue[old])
      BY <3>0, <3>2, <1>NoCalls, Zenon DEF Waiting, TimeInv, Retired
    <3>5. \A s \in 1..Len(rest) : Nests(f, rest[s])
      BY <3>2
    <3>6. Runs(f) /\ Running(f)'
      BY <3>0, <3>1, <3>4, Zenon DEF Running, Runs, TimeInv, Newer
    <3>7. timer' <= cur
      BY <3>0
    <3> QED BY <3>0, <3>3, <3>4, <3>5, <3>6, <3>7, <1>StepTime, Zenon
  \* What a get returns is taken already.
  <2>GetTime. ASSUME Base, TimeInv, NEW k \in Keys, Get(k)
        PROVE  TimeInv'
    <3> USE <2>GetTime
    <3>0. /\ stack = <<>> /\ stack' = <<>> /\ TypeOK
          /\ UNCHANGED <<tables, queue, cur, old, puts, timer>>
          /\ served' = [served EXCEPT ![k] = IF @ < Lookup(k) THEN Lookup(k) ELSE @]
      BY Zenon DEF Get, Usable, Idle, Base, disk, envs
    <3>1. Harmless(queue'[old'])
      BY <3>0, <1>NoCalls, Zenon DEF TimeInv, Retired
    <3>2. /\ \A j \in Keys : Lookup(j)' = Lookup(j)
          /\ Lookup(k) \in Taken
      BY <3>0, Zenon DEF Lookup, Taken
    <3>3. \A j \in Keys : served'[j] = served[j] \/ (served'[j] = Lookup(j) /\ j = k)
      BY <3>0, Zenon DEF TypeOK
    <3>4. Taken' \subseteq Taken
      <4>1. \A j \in Keys : served'[j] \in Taken
        BY <3>2, <3>3, Zenon DEF Taken
      <4> QED BY <3>0, <4>1, Zenon DEF Taken
    <3>5. Newer'
      <4>1. Ready(queue[cur], 1, Taken', puts)
        BY <3>4, Zenon DEF TimeInv, Newer, Ready
      <4> QED BY <3>0, <3>4, <4>1, Zenon DEF TimeInv, Newer
    <3>6. Reads'
      <4> SUFFICES ASSUME NEW j \in Keys, Lookup(j) # NoVal PROVE Lookup(j) >= served'[j]
        BY <3>2, Zenon DEF Reads
      <4>1. Lookup(j) >= served[j] /\ Lookup(j) \in Nat
        BY <1>TakenNat, Zenon DEF TimeInv, Reads, Lookup, Taken
      <4> QED BY <3>3, <4>1
    <3> QED BY <3>0, <3>1, <3>5, <3>6, <1>IdleTime, Zenon
  \* rmStale removes neither environment of the pair.
  <2>RmStaleTime. ASSUME Base, Base', TimeInv, RmStale
        PROVE  TimeInv'
    <3> USE <2>RmStaleTime
    <3>0. /\ stack = <<>> /\ stack' = <<>> /\ TypeOK /\ cur \in Nums /\ old \in Nums
          /\ UNCHANGED <<queue, cur, old, puts, served, timer, proc>> /\ proc = "up"
          /\ tables' = [n \in Nums |-> IF n \in dirs \ dirs' THEN Empty ELSE tables[n]]
      BY Zenon DEF RmStale, Usable, Idle, Base, TypeOK, envs, hist
    <3>1. cur \in dirs' /\ old \in dirs'
      BY <3>0, Zenon DEF Base, Numbered
    <3>2. tables'[cur] = tables[cur] /\ tables'[old] = tables[old]
      BY <3>0, <3>1, Zenon
    <3>3. Taken' = Taken /\ \A k \in Keys : Lookup(k)' = Lookup(k)
      BY <3>0, <3>2, Zenon DEF Taken, Lookup
    <3>4. \A n \in Nums : n > cur => tables'[n] = Empty
      BY <3>0, Zenon DEF TimeInv, Newer
    <3>5. Newer' /\ Reads'
      BY <3>0, <3>3, <3>4, Zenon DEF TimeInv, Newer, Reads
    <3>6. Harmless(queue'[old'])
      BY <3>0, <1>NoCalls, Zenon DEF TimeInv, Retired
    <3> QED BY <3>0, <3>5, <3>6, <1>IdleTime, Zenon
  \* close and its completion change no data.
  <2>CloseTime. ASSUME TimeInv, Close \/ \E n \in Nums : CloseDone(n)
        PROVE  TimeInv'
    <3> USE <2>CloseTime
    <3>0. /\ stack = <<>> /\ stack' = <<>>
          /\ UNCHANGED <<tables, queue, cur, old, puts, served, timer>>
      BY Zenon DEF Close, CloseDone, Usable, Idle, disk, hist
    <3>1. Newer' /\ Reads'
      BY <3>0, <1>SameData, Zenon DEF TimeInv, Newer
    <3>2. Harmless(queue'[old'])
      BY <3>0, <1>NoCalls, Zenon DEF TimeInv, Retired
    <3> QED BY <3>0, <3>1, <3>2, <1>IdleTime, Zenon
  \* A new process reads what the last one left.
  <2>OpenTime. ASSUME Falsy \cap Vals = {}, Base, TimeInv, OpenCur \/ OpenOld
        PROVE  TimeInv'
    <3> USE <2>OpenTime
    <3>0. /\ stack = <<>> /\ stack' = <<>> /\ TypeOK /\ cur \in Nums /\ cur \in Nat
          /\ cur' \in Nums /\ old' \in Nums
          /\ timer = 0 /\ timer' = 0 /\ \A n \in Nums : queue[n] = <<>>
          /\ UNCHANGED <<tables, queue, puts, served>>
      <4>1. stack = <<>> /\ timer = 0 /\ \A n \in Nums : queue[n] = <<>>
        BY Zenon DEF OpenCur, OpenOld, Base, Quiet
      <4>2. TypeOK /\ TypeOK' /\ UNCHANGED <<tables, queue, puts, served, timer, stack>>
        BY OpenCurBase, OpenOldBase, Zenon DEF OpenCur, OpenOld, Base, hist
      <4> QED BY <4>1, <4>2, TwoNums, Zenon DEF TypeOK
    <3>1. Harmless(queue'[old'])
      BY <3>0, <1>NoRecords, Zenon
    <3>2. CASE cur' = cur /\ old' = old
      <4>1. Newer' /\ Reads'
        BY <3>0, <3>2, <1>SameData DEF TimeInv
      <4> QED BY <3>0, <3>1, <4>1, <1>IdleTime, Zenon
    <3>3. CASE cur' = cur + 1 /\ old' = cur
      <4>1. tables[cur + 1] = Empty
        BY <3>0, <3>3 DEF TimeInv, Newer
      <4>2. Taken' \subseteq Taken
        <5>1. NoVal = 0
          BY ValsAssumption, Zenon
        <5> QED BY <3>0, <3>3, <4>1, <5>1, Zenon DEF Taken, Empty
      <4>3. \A n \in Nums : n > cur' => queue'[n] = <<>> /\ tables'[n] = Empty
        <5>1. \A n \in Nums : n > cur' => n > cur
          <6>1. \A n, c \in Nat : n > c + 1 => n > c
            OBVIOUS
          <6>2. cur \in Nat /\ \A n \in Nums : n \in Nat
            BY <3>0, TwoNums, Zenon
          <6> QED BY <3>3, <6>1, <6>2, Zenon
        <5> QED BY <3>0, <5>1, Zenon DEF TimeInv, Newer
      <4>4. Newer'
        BY <3>0, <3>3, <4>2, <4>3, <1>NoRecords DEF TimeInv, Newer
      <4>5. Reads'
        <5> SUFFICES ASSUME NEW k \in Keys PROVE Lookup(k)' # NoVal => Lookup(k)' >= served[k]
          BY <3>0, Zenon DEF Reads
        <5>1. Lookup(k)' = tables[cur][k]
          BY <3>0, <3>3, <4>1, Zenon DEF Lookup, Empty
        <5>2. tables[cur][k] \in Vals \cup {NoVal}
          BY <3>0, Zenon DEF TypeOK, Tables
        <5>3. tables[cur][k] # NoVal => Lookup(k) = tables[cur][k]
          BY <5>2, Zenon DEF Lookup
        <5> QED BY <5>1, <5>3, Zenon DEF TimeInv, Reads
      <4> QED BY <3>0, <3>1, <4>4, <4>5, <1>IdleTime, Zenon
    <3>4. (cur' = cur /\ old' = old) \/ (cur' = cur + 1 /\ old' = cur)
      BY ChosenPair, Zenon DEF Base, OpenCur, OpenOld
    <3> QED BY <3>2, <3>3, <3>4, Zenon
  \* A del that blocks leaves everything where it is.
  <2>SameTime. ASSUME TimeInv, UNCHANGED <<tables, queue, cur, old, puts, served, timer, stack, status, dirty>>
        PROVE  TimeInv'
    <3> USE <2>SameTime
    <3>1. Taken' = Taken /\ \A k : Lookup(k)' = Lookup(k)
      BY Zenon DEF Taken, Lookup
    <3>2. Newer' /\ Reads' /\ Retired'
      BY <3>1, Zenon DEF TimeInv, Newer, Reads, Retired
    <3>3. Waiting(stack)'
      BY <3>1, Zenon DEF TimeInv, Waiting
    <3>4. stack' # <<>> => Running(Head(stack))'
      BY Zenon DEF TimeInv, Running
    <3> QED BY <3>2, <3>3, <3>4, Zenon DEF TimeInv
  <2> SUFFICES ASSUME ~eio' PROVE TimeInv'
    BY Zenon
  <2>1. ~eio
    <3>1. CASE UNCHANGED vars
      BY <3>1, Zenon DEF vars
    <3>2. CASE LoopStep
      <4>1. CASE Fail
        BY <4>1, Zenon DEF Fail
      <4>2. CASE MapFull
        BY <4>2, Zenon DEF MapFull, Rotate, hist
      <4> QED BY <3>2, <4>1, <4>2, Zenon DEF LoopStep, EnterFlush, FlushCur, PushOld, ExecPut, ExecDel,
                 Commit, Replay, ResetQueue, hist
    <3>3. CASE OpenCur \/ OpenOld \/ Flush \/ RmStale \/ Close \/ TimerFire \/ Crash
      BY <3>3, Zenon DEF OpenCur, OpenOld, Flush, RmStale, Close, TimerFire, Crash, hist
    <3>4. ASSUME NEW op, Call(op) PROVE ~eio
      BY <3>4, Zenon DEF Call
    <3>5. ASSUME NEW k \in Keys, Get(k) PROVE ~eio
      BY <3>5, Zenon DEF Get
    <3>6. ASSUME NEW n \in Nums, CloseDone(n) PROVE ~eio
      BY <3>6, Zenon DEF CloseDone, hist
    <3> QED BY <3>1, <3>2, <3>3, <3>4, <3>5, <3>6, Zenon DEF Next
  <2>2. TimeInv /\ Base'
    BY <2>1, BaseNext, Zenon
  <2>3. CASE UNCHANGED vars
    BY <2>2, <2>3, <2>SameTime, Zenon DEF vars
  <2>4. CASE OpenCur \/ OpenOld
    BY <2>2, <2>4, <2>OpenTime, Zenon
  <2>5. CASE \E k \in Keys : "put" \in Kinds /\ Call(PutOp(k, puts + 1))
    <3>1. PICK k \in Keys : Call(PutOp(k, puts + 1))
      BY <2>5, Zenon
    <3>2. puts + 1 \in Vals
      BY <3>1, ValsAssumption, BoundsAssumption DEF Call, Base, TypeOK
    <3>3. PutOp(k, puts + 1) \in Op /\ PutOp(k, puts + 1).val = puts + 1
      BY <3>2, OpTypes, Zenon DEF PutOp
    <3> QED BY <2>2, <3>1, <3>3, <2>CallTime, Zenon
  <2>6. CASE \E k \in Keys : "del" \in Kinds /\ Call(DelOp(k))
    <3>1. PICK k \in Keys : Call(DelOp(k))
      BY <2>6, Zenon
    <3>2. DelOp(k) \in Op /\ DelOp(k).op = "del"
      BY OpTypes, Zenon DEF DelOp
    <3> QED BY <2>2, <3>1, <3>2, <2>CallTime, Zenon
  <2>7. CASE \E k \in Keys : Get(k)
    BY <2>2, <2>7, <2>GetTime, Zenon
  <2>8. CASE Flush \/ RmStale
    BY <2>2, <2>8, <2>FlushTime, <2>RmStaleTime, Zenon
  <2>9. CASE Close \/ \E n \in Nums : CloseDone(n)
    BY <2>2, <2>9, <2>CloseTime, Zenon
  <2>10. CASE TimerFire
    BY <2>2, <2>10, <2>TimerFireTime, Zenon
  <2>11. CASE ExecDel
    BY <2>2, <2>11, <2>SameTime, Zenon DEF ExecDel, disk, envs, hist
  <2>12. CASE LoopStep /\ ~ExecDel
    BY <2>2, <2>12, <2>EnterFlushTime, <2>FlushCurTime, <2>PushOldTime, <2>ExecPutTime, <2>CommitTime, <2>FailTime,
       <2>MapFullTime, <2>ReplayTime, <2>ResetQueueTime, Zenon DEF LoopStep
  <2>13. CASE Crash
    BY <2>2, <2>13, <1>DieTime, Zenon DEF Crash
  <2> QED BY <2>3, <2>4, <2>5, <2>6, <2>7, <2>8, <2>9, <2>10, <2>11, <2>12, <2>13, Zenon DEF Next
<1>1. Init => (~eio => TimeInv)
  BY <1>InitTime, Zenon
<1>2. Base /\ (~eio => TimeInv) /\ [Next]_vars => (~eio => TimeInv)'
  BY <1>NextTime, Zenon
<1>3. (~eio => TimeInv) => NeverOlder
  BY Zenon DEF TimeInv, Reads, NeverOlder
<1> QED BY <1>1, <1>2, <1>3, BaseAlways, PTL DEF Spec

-----------------------------------------------------------------------------
(* A cache used with puts that LMDB accepts, in batches that fit an empty  *)
(* environment, on a disk that works.                                      *)

Fits ==
  "del" \notin Kinds /\ BadKeys \cap Keys = {} /\ ~IOErrors /\ BatchSize <= MinRoom

\* A flush of the current environment that has executed records 1..i-1.
IsFlush(f, i) ==
  /\ f = FlushF(cur, i) /\ i \in 1..(Len(queue[cur]) + 1) /\ queue[cur] # <<>>
  /\ dirty = Applied(tables[cur], queue[cur], i - 1)

Flushes(f) == f = EnterF(cur) \/ \E i \in Nat : IsFlush(f, i)

\* The calls in progress when no rotation is.
Plain ==
  /\ queue[old] = <<>>
  /\ stack # <<>> => rotations = 0
  /\ \/ /\ Len(queue[cur]) < BatchSize
        /\ \/ stack = <<>>
           \/ stack = <<FlushCurF>>
           \/ stack = <<EnterF(old), FlushCurF>>
           \/ \E e \in Nums : stack = <<EnterF(e)>>
     \/ \E f \in Frame : Flushes(f) /\ stack = <<f>>

\* onfull is putting the records again, i being the next.
Replaying(i) ==
  /\ stack = <<OnfullF(queue[old], i), FlushCurF, ResetF(old)>>
  /\ i \in 1..(Len(queue[old]) + 1) /\ i - 1 < BatchSize
  /\ queue[cur] = SubSeq(queue[old], 1, i - 1) /\ tables[cur] = Empty

\* The handler has put the last one.
Replayed ==
  \/ stack = <<OnfullF(queue[old], Len(queue[old]) + 1), FlushCurF, ResetF(old)>> /\ queue[cur] = <<>>
  \/ stack = <<FlushCurF, ResetF(old)>>
  \/ \E f \in Frame :
       /\ Flushes(f)
       /\ \/ stack = <<f, OnfullF(queue[old], Len(queue[old]) + 1), FlushCurF, ResetF(old)>>
          \/ stack = <<f, ResetF(old)>>
  \/ stack = <<ResetF(old)>> /\ queue[cur] = <<>>

\* A rotation is in progress: the new environment is empty until the records
\* are flushed to it.
Rotating ==
  /\ rotations = 1 /\ status[cur] = "open"
  /\ tables[cur] = Empty \/ queue[cur] = <<>>
  /\ Len(queue[old]) <= BatchSize
  /\ Replayed \/ \E i \in Nat : Replaying(i)

Puts(ops) == \A j \in 1..Len(ops) : ops[j].op = "put"

PutInv ==
  /\ Len(queue[cur]) <= BatchSize /\ rotations <= 1 /\ ~broken
  /\ \A n \in Nums : Puts(queue[n]) /\ (n \notin {cur, old} => queue[n] = <<>>)
  /\ \A n \in Nums : n > cur => tables[n] = Empty
  /\ old \notin dirs => tables[cur] = Empty /\ tables[old] = Empty
  /\ by = "app" /\ stack # <<>> => status[cur] = "open"
  /\ Plain \/ Rotating

\* Sequences with the same elements are equal.
LEMMA SeqEqual ==
  ASSUME NEW S, NEW s \in Seq(S), NEW t \in Seq(S),
         Len(s) = Len(t), \A i \in 1..Len(s) : s[i] = t[i]
  PROVE  s = t
OBVIOUS

\* Heads and tails of the stacks there are.
LEMMA Tuples ==
  ASSUME NEW a, NEW b, NEW c, NEW d
  PROVE  /\ <<a>> # <<>> /\ Head(<<a>>) = a /\ Tail(<<a>>) = <<>>
         /\ <<a, b>> # <<>> /\ Head(<<a, b>>) = a /\ Tail(<<a, b>>) = <<b>>
         /\ <<a, b, c>> # <<>> /\ Head(<<a, b, c>>) = a /\ Tail(<<a, b, c>>) = <<b, c>>
         /\ <<a, b, c, d>> # <<>> /\ Head(<<a, b, c, d>>) = a /\ Tail(<<a, b, c, d>>) = <<b, c, d>>
<1>1. <<a>> # <<>> /\ Head(<<a>>) = a /\ Tail(<<a>>) = <<>>
  OBVIOUS
<1>2. <<a, b>> # <<>> /\ Head(<<a, b>>) = a /\ Tail(<<a, b>>) = <<b>>
  OBVIOUS
<1>3. <<a, b, c>> # <<>> /\ Head(<<a, b, c>>) = a /\ Tail(<<a, b, c>>) = <<b, c>>
  OBVIOUS
<1>4. <<a, b, c, d>> # <<>> /\ Head(<<a, b, c, d>>) = a /\ Tail(<<a, b, c, d>>) = <<b, c, d>>
  OBVIOUS
<1> QED BY <1>1, <1>2, <1>3, <1>4, Zenon

\* A call on top of two that wait.
LEMMA Join3 ==
  ASSUME NEW a \in Frame, NEW b \in Frame, NEW c \in Frame
  PROVE  <<a>> \o <<b, c>> = <<a, b, c>>
<1>1. <<a>> \in Seq(Frame) /\ <<b, c>> \in Seq(Frame) /\ <<a, b, c>> \in Seq(Frame)
  OBVIOUS
<1>2. <<a>> \o <<b, c>> \in Seq(Frame) /\ Len(<<a>> \o <<b, c>>) = 3 /\ Len(<<a, b, c>>) = 3
  BY <1>1
<1>3. (<<a>> \o <<b, c>>)[1] = a /\ (<<a>> \o <<b, c>>)[2] = b /\ (<<a>> \o <<b, c>>)[3] = c
  OBVIOUS
<1>4. \A i \in 1..3 : (<<a>> \o <<b, c>>)[i] = <<a, b, c>>[i]
  BY <1>3
<1>5. PICK s \in Seq(Frame) : s = <<a>> \o <<b, c>>
  BY <1>2, Zenon
<1>6. PICK t \in Seq(Frame) : t = <<a, b, c>>
  BY <1>1, Zenon
<1>7. Len(s) = 3 /\ Len(t) = 3 /\ \A i \in 1..3 : s[i] = t[i]
  BY <1>2, <1>4, <1>5, <1>6, Zenon
<1>8. s = t
  BY <1>7, SeqEqual, Zenon
<1> QED BY <1>5, <1>6, <1>8, Zenon

\* A call on top of three that wait.
LEMMA Join4 ==
  ASSUME NEW a \in Frame, NEW b \in Frame, NEW c \in Frame, NEW d \in Frame
  PROVE  <<a>> \o <<b, c, d>> = <<a, b, c, d>>
<1>1. <<a>> \in Seq(Frame) /\ <<b, c, d>> \in Seq(Frame) /\ <<a, b, c, d>> \in Seq(Frame)
  OBVIOUS
<1>2. <<a>> \o <<b, c, d>> \in Seq(Frame) /\ Len(<<a>> \o <<b, c, d>>) = 4 /\ Len(<<a, b, c, d>>) = 4
  BY <1>1
<1>3. (<<a>> \o <<b, c, d>>)[1] = a /\ (<<a>> \o <<b, c, d>>)[2] = b /\ (<<a>> \o <<b, c, d>>)[3] = c /\ (<<a>> \o <<b, c, d>>)[4] = d
  OBVIOUS
<1>4. \A i \in 1..4 : (<<a>> \o <<b, c, d>>)[i] = <<a, b, c, d>>[i]
  BY <1>3
<1>5. PICK s \in Seq(Frame) : s = <<a>> \o <<b, c, d>>
  BY <1>2, Zenon
<1>6. PICK t \in Seq(Frame) : t = <<a, b, c, d>>
  BY <1>1, Zenon
<1>7. Len(s) = 4 /\ Len(t) = 4 /\ \A i \in 1..4 : s[i] = t[i]
  BY <1>2, <1>4, <1>5, <1>6, Zenon
<1>8. s = t
  BY <1>7, SeqEqual, Zenon
<1> QED BY <1>5, <1>6, <1>8, Zenon

\* The two queues of an open pair.
LEMMA PutQueues ==
  ASSUME Base
  PROVE  /\ cur \in Nums /\ old \in Nums /\ old # cur /\ cur \in Nat /\ old \in Nat /\ cur = old + 1
         /\ queue[cur] \in Seq(Op) /\ queue[old] \in Seq(Op)
         /\ Len(queue[cur]) \in Nat /\ Len(queue[old]) \in Nat
<1>1. /\ cur \in Nums /\ old \in Nums /\ cur \in Nat /\ old \in Nat /\ cur = old + 1
      /\ queue[cur] \in Seq(Op) /\ queue[old] \in Seq(Op)
  BY TwoNums, Zenon DEF Base, TypeOK, Numbered
<1>2. Len(queue[cur]) \in Nat /\ Len(queue[old]) \in Nat /\ old # cur
  BY <1>1
<1> QED BY <1>1, <1>2, Zenon

\* The frames of PutInv.
LEMMA PutFrames ==
  ASSUME Base
  PROVE  /\ cur \in Nums /\ old \in Nums /\ cur \in Nat /\ old \in Nat /\ cur = old + 1
         /\ queue[cur] \in Seq(Op) /\ queue[old] \in Seq(Op)
         /\ Len(queue[cur]) \in Nat /\ Len(queue[old]) \in Nat
         /\ tables[cur] \in Tables /\ tables[old] \in Tables /\ dirty \in Tables
         /\ FlushCurF \in Frame /\ FlushCurF.fn = "flushCur"
         /\ ResetF(old) \in Frame /\ ResetF(old).fn = "reset" /\ ResetF(old).env = old
         /\ EnterF(old) \in Frame /\ EnterF(old).fn = "enter" /\ EnterF(old).env = old
         /\ EnterF(cur) \in Frame /\ EnterF(cur).fn = "enter" /\ EnterF(cur).env = cur
         /\ \A i \in Nat \ {0} : LET f == OnfullF(queue[old], i) IN
              f \in Frame /\ f.fn = "onfull" /\ f.ops = queue[old] /\ f.next = i
         /\ \A f, i : IsFlush(f, i) =>
              /\ f \in Frame /\ f.fn = "flush" /\ f.env = cur /\ f.next = i
              /\ i \in 1..(Len(queue[cur]) + 1)
<1>1. /\ cur \in Nums /\ old \in Nums /\ cur \in Nat /\ old \in Nat /\ cur = old + 1
      /\ queue[cur] \in Seq(Op) /\ queue[old] \in Seq(Op)
      /\ tables[cur] \in Tables /\ tables[old] \in Tables /\ dirty \in Tables
  BY TwoNums, Zenon DEF Base, TypeOK, Numbered
<1>2. Len(queue[cur]) \in Nat /\ Len(queue[old]) \in Nat
  BY <1>1
<1>3. /\ FlushCurF \in Frame /\ FlushCurF.fn = "flushCur"
      /\ ResetF(old) \in Frame /\ ResetF(old).fn = "reset" /\ ResetF(old).env = old
      /\ EnterF(old) \in Frame /\ EnterF(old).fn = "enter" /\ EnterF(old).env = old
      /\ EnterF(cur) \in Frame /\ EnterF(cur).fn = "enter" /\ EnterF(cur).env = cur
  BY <1>1, Frames, ZenonT(30)
<1>4. \A i \in Nat \ {0} : LET f == OnfullF(queue[old], i) IN
              f \in Frame /\ f.fn = "onfull" /\ f.ops = queue[old] /\ f.next = i
  BY <1>1, Frames
<1>5. ASSUME NEW f, NEW i, IsFlush(f, i)
      PROVE  /\ f \in Frame /\ f.fn = "flush" /\ f.env = cur /\ f.next = i
             /\ i \in 1..(Len(queue[cur]) + 1)
  <2>1. f = FlushF(cur, i) /\ i \in 1..(Len(queue[cur]) + 1)
    BY <1>5, Zenon DEF IsFlush
  <2>2. i \in Nat \ {0}
    BY <1>2, <2>1
  <2> QED BY <1>1, <2>1, <2>2, Frames
<1> QED BY <1>1, <1>2, <1>3, <1>4, <1>5, Zenon

\* The stack by its top: what is in progress and what waits.
TopIs(f, rest, last) ==
  \/ Plain /\ f = FlushCurF /\ rest = <<>> /\ Len(queue[cur]) < BatchSize
  \/ Plain /\ f = EnterF(old) /\ rest = <<FlushCurF>> /\ Len(queue[cur]) < BatchSize
  \/ Plain /\ rest = <<>> /\ Len(queue[cur]) < BatchSize /\ \E e \in Nums : f = EnterF(e)
  \/ Plain /\ rest = <<>> /\ Flushes(f)
  \/ Rotating /\ \E i \in Nat : Replaying(i) /\ f = OnfullF(queue[old], i)
                                /\ rest = <<FlushCurF, ResetF(old)>>
  \/ Rotating /\ f = last /\ rest = <<FlushCurF, ResetF(old)>> /\ queue[cur] = <<>>
  \/ Rotating /\ f = FlushCurF /\ rest = <<ResetF(old)>>
  \/ Rotating /\ Flushes(f) /\ rest = <<last, FlushCurF, ResetF(old)>>
  \/ Rotating /\ Flushes(f) /\ rest = <<ResetF(old)>>
  \/ Rotating /\ f = ResetF(old) /\ rest = <<>> /\ queue[cur] = <<>>

\* The invariant leaves no other top.
LEMMA PutTop ==
  ASSUME Base, PutInv, stack # <<>>, NEW f, NEW rest, f = Head(stack), rest = Tail(stack),
         NEW last, last = OnfullF(queue[old], Len(queue[old]) + 1)
  PROVE  TopIs(f, rest, last)
<1> USE DEF TopIs
<1>1. CASE Plain
  <2>1. CASE Len(queue[cur]) < BatchSize /\ stack = <<FlushCurF>>
    BY <1>1, <2>1, Tuples, Zenon
  <2>2. CASE Len(queue[cur]) < BatchSize /\ stack = <<EnterF(old), FlushCurF>>
    BY <1>1, <2>2, Tuples
  <2>3. CASE Len(queue[cur]) < BatchSize /\ \E e \in Nums : stack = <<EnterF(e)>>
    BY <1>1, <2>3, Tuples
  <2>4. CASE \E g \in Frame : Flushes(g) /\ stack = <<g>>
    <3>1. PICK g \in Frame : Flushes(g) /\ stack = <<g>>
      BY <2>4, Zenon
    <3>2. f = g /\ rest = <<>>
      BY <3>1, Tuples, Zenon
    <3> QED BY <1>1, <3>1, <3>2, Zenon
  <2> QED BY <1>1, <2>1, <2>2, <2>3, <2>4, Zenon DEF Plain
<1>2. CASE Rotating
  <2>1. CASE stack = <<last, FlushCurF, ResetF(old)>> /\ queue[cur] = <<>>
    BY <1>2, <2>1, Tuples
  <2>2. CASE stack = <<FlushCurF, ResetF(old)>>
    BY <1>2, <2>2, Tuples
  <2>3. CASE \E g \in Frame : Flushes(g) /\ (stack = <<g, last, FlushCurF, ResetF(old)>> \/ stack = <<g, ResetF(old)>>)
    <3>1. PICK g \in Frame : Flushes(g) /\ (stack = <<g, last, FlushCurF, ResetF(old)>> \/ stack = <<g, ResetF(old)>>)
      BY <2>3, Zenon
    <3>2. CASE stack = <<g, last, FlushCurF, ResetF(old)>>
      BY <1>2, <3>1, <3>2, Tuples
    <3>3. CASE stack = <<g, ResetF(old)>>
      BY <1>2, <3>1, <3>3, Tuples
    <3> QED BY <3>1, <3>2, <3>3, Zenon
  <2>4. CASE stack = <<ResetF(old)>> /\ queue[cur] = <<>>
    BY <1>2, <2>4, Tuples, Zenon
  <2>5. CASE \E i \in Nat : Replaying(i)
    <3>1. PICK i \in Nat : Replaying(i)
      BY <2>5, Zenon
    <3>2. f = OnfullF(queue[old], i) /\ rest = <<FlushCurF, ResetF(old)>>
      BY <3>1, Tuples DEF Replaying
    <3> QED BY <1>2, <3>1, <3>2, Zenon
  <2> QED BY <1>2, <2>1, <2>2, <2>3, <2>4, <2>5, Zenon DEF Rotating, Replayed
<1> QED BY <1>1, <1>2, Zenon DEF PutInv

\* What can wait for a flush of the current environment.
WaitsFor(rest) ==
  \/ Plain /\ rest = <<>>
  \/ /\ Rotating
     /\ \/ rest = <<OnfullF(queue[old], Len(queue[old]) + 1), FlushCurF, ResetF(old)>>
        \/ rest = <<ResetF(old)>>

\* The call on top, and what waits for it.
LEMMA TopPick ==
  ASSUME TypeOK, NEW fn, Top(fn)
  PROVE  \E f \in Frame, rest \in Seq(Frame) : f = Head(stack) /\ rest = Tail(stack) /\ f.fn = fn
<1>1. Head(stack) \in Frame /\ Head(stack).fn = fn /\ Tail(stack) \in Seq(Frame)
  BY TopParts, Zenon
<1>2. PICK f \in Frame : f = Head(stack) /\ f.fn = fn
  BY <1>1, Zenon
<1>3. PICK rest \in Seq(Frame) : rest = Tail(stack)
  BY <1>1, Zenon
<1> QED BY <1>2, <1>3, Zenon

\* A flush in progress is one of the current environment.
LEMMA TopFlush ==
  ASSUME Base, PutInv, stack # <<>>, NEW f, NEW rest, f = Head(stack), rest = Tail(stack),
         f.fn = "flush"
  PROVE  WaitsFor(rest) /\ \E i \in Nat \ {0} : IsFlush(f, i)
<1>1. PICK last : last = OnfullF(queue[old], Len(queue[old]) + 1)
  BY Zenon
<1>2. Len(queue[old]) + 1 \in Nat \ {0}
  BY PutQueues
<1>3. last.fn = "onfull"
  BY <1>1, <1>2, PutFrames, Zenon
<1>4. \A e \in Nums : f # EnterF(e)
  BY Frames, Zenon
<1>5. \A i \in Nat : Replaying(i) => f # OnfullF(queue[old], i)
  BY PutFrames DEF Replaying
<1>6. f # FlushCurF /\ f # ResetF(old) /\ f # EnterF(old)
  BY PutFrames, Zenon
<1>t. TopIs(f, rest, last)
  BY <1>1, PutTop, Zenon
<1>7. WaitsFor(rest) /\ Flushes(f)
  BY <1>1, <1>t, <1>3, <1>4, <1>5, <1>6, Zenon DEF WaitsFor, TopIs
<1>8. \E i \in Nat : IsFlush(f, i)
  BY <1>4, <1>7, PutFrames, Zenon DEF Flushes
<1>9. \E i \in Nat \ {0} : IsFlush(f, i)
  BY <1>8 DEF IsFlush
<1> QED BY <1>7, <1>9, Zenon

\* A flush is about to begin.
Enters(f, rest) ==
  \/ WaitsFor(rest) /\ f = EnterF(cur)
  \/ Plain /\ rest = <<>> /\ Len(queue[cur]) < BatchSize
  \/ Plain /\ f = EnterF(old) /\ rest = <<FlushCurF>> /\ Len(queue[cur]) < BatchSize

\* Of which environment, and what waits for it.
LEMMA TopEnter ==
  ASSUME Base, PutInv, stack # <<>>, NEW f, NEW rest, f = Head(stack), rest = Tail(stack),
         f.fn = "enter"
  PROVE  Enters(f, rest)
<1>1. PICK last : last = OnfullF(queue[old], Len(queue[old]) + 1)
  BY Zenon
<1>2. Len(queue[old]) + 1 \in Nat \ {0}
  BY PutQueues
<1>3. last.fn = "onfull"
  BY <1>1, <1>2, PutFrames, Zenon
<1>4. \A i : ~ IsFlush(f, i)
  BY PutFrames, Zenon
<1>5. \A i \in Nat : Replaying(i) => f # OnfullF(queue[old], i)
  BY PutFrames DEF Replaying
<1>6. f # FlushCurF /\ f # ResetF(old)
  BY PutFrames, Zenon
<1>7. Flushes(f) => f = EnterF(cur)
  BY <1>4, Zenon DEF Flushes
<1>t. TopIs(f, rest, last)
  BY <1>1, PutTop, Zenon
<1> QED BY <1>1, <1>t, <1>3, <1>5, <1>6, <1>7, Zenon DEF WaitsFor, TopIs, Enters

\* What a step that only moves the calls in progress has to establish.
LEMMA PutMoves ==
  ASSUME PutInv, stack # <<>>, Plain' \/ Rotating',
         UNCHANGED <<dirs, tables, status, queue, cur, old, by, broken, rotations>>
  PROVE  PutInv'
BY Zenon DEF PutInv

\* A call of flushBatchOps goes on.
LEMMA PutFlushes ==
  ASSUME Base, PutInv, stack # <<>>, NEW rest \in Seq(Frame), WaitsFor(rest),
         NEW g \in Frame, Flushes(g)', stack' = <<g>> \o rest,
         UNCHANGED <<dirs, tables, status, queue, cur, old, by, broken, rotations>>
  PROVE  PutInv'
\* A call on top of one that waits.
<1>Join2. ASSUME NEW a \in Frame, NEW b \in Frame
      PROVE  <<a>> \o <<b>> = <<a, b>>
  <2> USE <1>Join2
  <2>1. <<a>> \in Seq(Frame) /\ <<b>> \in Seq(Frame) /\ <<a, b>> \in Seq(Frame)
    OBVIOUS
  <2>2. <<a>> \o <<b>> \in Seq(Frame) /\ Len(<<a>> \o <<b>>) = 2 /\ Len(<<a, b>>) = 2
    BY <2>1
  <2>3. (<<a>> \o <<b>>)[1] = a /\ (<<a>> \o <<b>>)[2] = b
    OBVIOUS
  <2>4. \A i \in 1..2 : (<<a>> \o <<b>>)[i] = <<a, b>>[i]
    BY <2>3
  <2>5. PICK s \in Seq(Frame) : s = <<a>> \o <<b>>
    BY <2>2, Zenon
  <2>6. PICK t \in Seq(Frame) : t = <<a, b>>
    BY <2>1, Zenon
  <2>7. Len(s) = 2 /\ Len(t) = 2 /\ \A i \in 1..2 : s[i] = t[i]
    BY <2>2, <2>4, <2>5, <2>6, Zenon
  <2>8. s = t
    BY <2>7, SeqEqual, Zenon
  <2> QED BY <2>5, <2>6, <2>8, Zenon
<1>1. PICK last \in Frame : last = OnfullF(queue[old], Len(queue[old]) + 1)
  <2>1. Len(queue[old]) + 1 \in Nat \ {0}
    BY PutQueues
  <2> QED BY <2>1, PutFrames, Zenon
<1>2. FlushCurF \in Frame /\ ResetF(old) \in Frame
  BY PutFrames, Zenon
<1>3. CASE Plain /\ rest = <<>>
  <2>1. stack' = <<g>>
    BY <1>3
  <2>2. Plain'
    BY <1>3, <2>1, Zenon DEF Plain
  <2> QED BY <2>2, PutMoves, Zenon
<1>4. CASE Rotating /\ rest = <<last, FlushCurF, ResetF(old)>>
  <2>1. stack' = <<g, last, FlushCurF, ResetF(old)>>
    <3>1. <<g>> \o <<last, FlushCurF, ResetF(old)>> = <<g, last, FlushCurF, ResetF(old)>>
      BY <1>2, Join4, Zenon
    <3> QED BY <1>4, <3>1, Zenon
  <2>2. Replayed'
    BY <1>1, <2>1, Zenon DEF Replayed
  <2>3. Rotating'
    BY <1>4, <2>2, Zenon DEF Rotating
  <2> QED BY <2>3, PutMoves, Zenon
<1>5. CASE Rotating /\ rest = <<ResetF(old)>>
  <2>1. stack' = <<g, ResetF(old)>>
    BY <1>2, <1>5, <1>Join2, Zenon
  <2>2. Replayed'
    BY <2>1, Zenon DEF Replayed
  <2>3. Rotating'
    BY <1>5, <2>2, Zenon DEF Rotating
  <2> QED BY <2>3, PutMoves
<1> QED BY <1>1, <1>3, <1>4, <1>5, Zenon DEF WaitsFor

\* The process ends.
LEMMA DiePut ==
  ASSUME Base, PutInv, Die, UNCHANGED broken
  PROVE  PutInv'
<1>1. /\ UNCHANGED <<dirs, tables, cur, old, rotations, broken>>
      /\ queue' = [n \in Nums |-> <<>>] /\ stack' = <<>>
  BY Zenon DEF Die, disk
<1>2. cur \in Nums /\ old \in Nums
  BY PutFrames, Zenon
<1>3. queue'[cur'] = <<>> /\ queue'[old'] = <<>> /\ Len(queue'[cur']) = 0
  BY <1>1, <1>2, Zenon
<1>4. 0 < BatchSize /\ 0 <= BatchSize
  BY SizesAssumption
<1>5. Plain'
  BY <1>1, <1>3, <1>4, Zenon DEF Plain
<1>6. \A n \in Nums : queue'[n] = <<>> /\ Puts(queue'[n])
  BY <1>1 DEF Puts
<1> QED BY <1>1, <1>3, <1>4, <1>5, <1>6 DEF PutInv

\* A handler has returned: all of its records are flushed.
LEMMA TopReset ==
  ASSUME Base, PutInv, stack # <<>>, NEW f, NEW rest, f = Head(stack), rest = Tail(stack),
         f.fn = "reset"
  PROVE  Rotating /\ f = ResetF(old) /\ rest = <<>> /\ queue[cur] = <<>>
<1>1. PICK last : last = OnfullF(queue[old], Len(queue[old]) + 1)
  BY Zenon
<1>2. Len(queue[old]) + 1 \in Nat \ {0}
  BY PutQueues
<1>3. last.fn = "onfull" /\ \A e \in Nums : f # EnterF(e)
  BY <1>1, <1>2, PutFrames, Frames, Zenon
<1>4. \A i \in Nat : Replaying(i) => f # OnfullF(queue[old], i)
  BY PutFrames DEF Replaying
<1>5. f # FlushCurF /\ f # EnterF(old) /\ ~Flushes(f)
  BY PutFrames, Zenon DEF Flushes
<1>6. TopIs(f, rest, last)
  BY <1>1, PutTop, Zenon
<1> QED BY <1>3, <1>4, <1>5, <1>6, Zenon DEF TopIs

\* The records of a flush are puts of legal keys.
LEMMA FitsPut ==
  ASSUME Base, PutInv, Fits, NEW i \in 1..Len(queue[cur])
  PROVE  /\ queue[cur][i].op = "put" /\ queue[cur][i].key \notin BadKeys
         /\ status[cur] = "open" => Sound(cur, queue[cur][i])
<1>1. queue[cur][i].op = "put"
  BY PutFrames, Zenon DEF PutInv, Puts
<1>2. queue[cur][i] \in Op
  BY PutQueues
<1>3. queue[cur][i].key \in Keys
  BY <1>2, Zenon DEF Op
<1> QED BY <1>1, <1>3, Zenon DEF Fits, Sound

\* Only a flush of a closing environment fails, and only the timer calls one.
LEMMA FailPut ==
  ASSUME Base, PutInv, Fits, Fail
  PROVE  Die /\ UNCHANGED broken
<1>0. Top("flush") /\ stack # <<>> /\ TypeOK
  BY Zenon DEF Fail, Top, Base
<1>1. PICK f \in Frame, rest \in Seq(Frame) : f = Head(stack) /\ rest = Tail(stack) /\ f.fn = "flush"
  BY <1>0, TopPick, Zenon
<1>2. PICK i \in Nat \ {0} : IsFlush(f, i)
  BY <1>0, <1>1, TopFlush, Zenon
<1>3. f.env = cur /\ f.next = i
  BY <1>2, PutFrames
<1>4. i <= Len(queue[cur]) /\ ~Sound(cur, queue[cur][i])
  BY <1>1, <1>3, ZenonT(30) DEF Fail, Fits
<1>5. i \in 1..Len(queue[cur])
  BY <1>4, PutFrames
<1>6. by # "app"
  BY <1>0, <1>4, <1>5, FitsPut, Zenon DEF PutInv
<1> QED BY <1>6, Zenon DEF Fail, Throw

\* No del record is executed.
LEMMA NoDel ==
  ASSUME Base, PutInv, Fits
  PROVE  ~ExecDel /\ ~PushOld
<1>1. ASSUME ExecDel PROVE FALSE
  <2>0. Top("flush") /\ stack # <<>> /\ TypeOK
    BY <1>1, Zenon DEF ExecDel, Top, Base
  <2>1. PICK f \in Frame, rest \in Seq(Frame) : f = Head(stack) /\ rest = Tail(stack) /\ f.fn = "flush"
    BY <2>0, TopPick, Zenon
  <2>2. PICK i \in Nat \ {0} : IsFlush(f, i)
    BY <2>0, <2>1, TopFlush, ZenonT(30)
  <2>3. f.env = cur /\ f.next = i
    BY <2>2, PutFrames
  <2>4. i <= Len(queue[cur]) /\ queue[cur][i].op = "del"
    BY <1>1, <2>1, <2>3, Zenon DEF ExecDel
  <2>5. i \in 1..Len(queue[cur])
    BY <2>4, PutFrames
  <2> QED BY <2>4, <2>5, FitsPut, Zenon
<1>2. ASSUME PushOld PROVE FALSE
  <2>0. Top("push") /\ stack # <<>> /\ TypeOK
    BY <1>2, Zenon DEF PushOld, Top, Base
  <2>1. PICK f \in Frame, rest \in Seq(Frame) : f = Head(stack) /\ rest = Tail(stack) /\ f.fn = "push"
    BY <2>0, TopPick, Zenon
  <2>2. PICK last : last = OnfullF(queue[old], Len(queue[old]) + 1)
    BY Zenon
  <2>3. Len(queue[old]) + 1 \in Nat \ {0}
    BY PutQueues
  <2>4. last.fn = "onfull" /\ \A e \in Nums : f # EnterF(e)
    BY <2>1, <2>2, <2>3, PutFrames, Frames, Zenon
  <2>5. \A i \in Nat : Replaying(i) => f # OnfullF(queue[old], i)
    BY <2>1, PutFrames DEF Replaying
  <2>6. f # FlushCurF /\ f # EnterF(old) /\ f # ResetF(old) /\ ~Flushes(f)
    BY <2>1, PutFrames, Zenon DEF Flushes
  <2>7. TopIs(f, rest, last)
    BY <2>0, <2>1, <2>2, PutTop, Zenon
  <2> QED BY <2>1, <2>4, <2>5, <2>6, <2>7, Zenon DEF TopIs
<1> QED BY <1>1, <1>2, Zenon

\* onfull in progress.
LEMMA TopOnfull ==
  ASSUME Base, PutInv, stack # <<>>, NEW f, NEW rest, f = Head(stack), rest = Tail(stack),
         f.fn = "onfull"
  PROVE  /\ Rotating /\ rest = <<FlushCurF, ResetF(old)>>
         /\ f.ops = queue[old] /\ f.next \in Nat \ {0}
         /\ f.next <= Len(queue[old]) => Replaying(f.next)
         /\ Replaying(f.next) \/ queue[cur] = <<>>
<1>1. PICK last : last = OnfullF(queue[old], Len(queue[old]) + 1)
  BY Zenon
<1>2. Len(queue[old]) + 1 \in Nat \ {0} /\ ~(Len(queue[old]) + 1 <= Len(queue[old]))
  BY PutQueues
<1>3. last.next = Len(queue[old]) + 1 /\ last.ops = queue[old] /\ \A e \in Nums : f # EnterF(e)
  BY <1>1, <1>2, PutFrames, Frames, Zenon
<1>4. \A i \in Nat : Replaying(i) /\ f = OnfullF(queue[old], i) =>
        f.ops = queue[old] /\ f.next = i /\ i \in Nat \ {0}
  BY PutFrames DEF Replaying
<1>5. f # FlushCurF /\ f # EnterF(old) /\ f # ResetF(old) /\ ~Flushes(f)
  BY PutFrames, Zenon DEF Flushes
<1>6. TopIs(f, rest, last)
  BY <1>1, PutTop, Zenon
<1>7. \/ /\ Rotating /\ rest = <<FlushCurF, ResetF(old)>>
         /\ \E i \in Nat : Replaying(i) /\ f = OnfullF(queue[old], i)
      \/ Rotating /\ rest = <<FlushCurF, ResetF(old)>> /\ f = last /\ queue[cur] = <<>>
  BY <1>3, <1>5, <1>6, Zenon DEF TopIs
<1>8. CASE /\ Rotating /\ rest = <<FlushCurF, ResetF(old)>>
           /\ \E i \in Nat : Replaying(i) /\ f = OnfullF(queue[old], i)
  BY <1>4, <1>8, Zenon
<1>9. CASE Rotating /\ rest = <<FlushCurF, ResetF(old)>> /\ f = last /\ queue[cur] = <<>>
  BY <1>2, <1>3, <1>9, Zenon
<1> QED BY <1>7, <1>8, <1>9, Zenon

\* One more record of a prefix.
LEMMA PrefixStep ==
  ASSUME NEW q \in Seq(Op), NEW i \in Nat \ {0}, i <= Len(q)
  PROVE  Append(SubSeq(q, 1, i - 1), q[i]) = SubSeq(q, 1, (i + 1) - 1)
<1>1. PICK a \in Seq(Op) : a = SubSeq(q, 1, i - 1)
  <2>1. SubSeq(q, 1, i - 1) \in Seq(Op)
    OBVIOUS
  <2> QED BY <2>1, Zenon
<1>2. PICK b \in Seq(Op) : b = SubSeq(q, 1, (i + 1) - 1)
  <2>1. SubSeq(q, 1, (i + 1) - 1) \in Seq(Op)
    OBVIOUS
  <2> QED BY <2>1, Zenon
<1>3. Len(a) = i - 1 /\ \A j \in 1..(i - 1) : a[j] = q[j]
  BY <1>1
<1>4. Len(b) = i /\ \A j \in 1..i : b[j] = q[j]
  BY <1>2
<1>5. q[i] \in Op
  OBVIOUS
<1>6. PICK c \in Seq(Op) : c = Append(a, q[i])
  <2>1. Append(a, q[i]) \in Seq(Op)
    BY <1>5
  <2> QED BY <2>1, Zenon
<1>7. Len(c) = i /\ c[i] = q[i] /\ \A j \in 1..(i - 1) : c[j] = a[j]
  BY <1>3, <1>5, <1>6
<1>8. \A j \in 1..i : c[j] = b[j]
  BY <1>3, <1>4, <1>7
<1>9. c = b
  BY <1>4, <1>7, <1>8, SeqEqual, Zenon
<1> QED BY <1>1, <1>2, <1>6, <1>9, Zenon

\* onfull puts a record again: the batch is complete, and flushed, with the last
\* one only.
LEMMA ReplayOne ==
  ASSUME Base, PutInv, Fits, stack # <<>>, Rotating, NEW rest, rest = <<FlushCurF, ResetF(old)>>,
         NEW i \in Nat \ {0}, i <= Len(queue[old]), Replaying(i),
         DbCall(queue[old][i], <<OnfullF(queue[old], i + 1)>> \o rest),
         UNCHANGED <<dirs, tables, status, cur, old, by, broken, rotations>>
  PROVE  /\ PutInv' /\ queue'[old] = queue[old]
         /\ \/ Replaying(i + 1)'
            \/ stack' # <<>> /\ Head(stack').fn = "enter" /\ queue'[cur] = queue[old]
<1>a. TypeOK /\ UNCHANGED <<dirs, tables, status, cur, old, by, broken, rotations>>
  BY Zenon DEF Base
<1>0. /\ cur \in Nums /\ old \in Nums /\ old # cur /\ queue[old] \in Seq(Op)
      /\ Len(queue[old]) \in Nat /\ queue[cur] \in Seq(Op) /\ Len(queue[cur]) \in Nat
  BY PutQueues
<1>1. Replaying(i) /\ i \in 1..Len(queue[old]) /\ Len(queue[old]) <= BatchSize
  <2>1. \A n \in Nat : \A m \in Nat \ {0} : m <= n => m \in 1..n
    OBVIOUS
  <2> QED BY <1>0, <2>1, Zenon DEF Rotating
<1>2. PICK op \in Op : op = queue[old][i] /\ op.op = "put"
  BY <1>0, <1>1 DEF PutInv, Puts
<1>3. PushBatch(cur, op, <<OnfullF(queue[old], i + 1)>> \o rest)
  BY <1>2, Zenon DEF DbCall
<1>4. PICK h \in Frame : h = OnfullF(queue[old], i + 1)
  <2>1. i + 1 \in Nat \ {0}
    OBVIOUS
  <2> QED BY <2>1, PutFrames, Zenon
<1>5. <<h>> \o rest = <<h, FlushCurF, ResetF(old)>>
  BY Join3, PutFrames, Zenon
<1>6. /\ queue[cur] = SubSeq(queue[old], 1, i - 1) /\ tables[cur] = Empty /\ i - 1 < BatchSize
      /\ Len(queue[cur]) = i - 1
  <2>1. queue[cur] = SubSeq(queue[old], 1, i - 1) /\ tables[cur] = Empty /\ i - 1 < BatchSize
    BY <1>1, Zenon DEF Replaying
  <2>2. Len(SubSeq(queue[old], 1, i - 1)) = i - 1
    BY <1>0, <1>1
  <2> QED BY <2>1, <2>2, Zenon
<1>7. queue'[cur] = SubSeq(queue[old], 1, (i + 1) - 1) /\ queue'[old] = queue[old]
      /\ \A n \in Nums \ {cur} : queue'[n] = queue[n]
  <2>1. queue' = [queue EXCEPT ![cur] = Append(queue[cur], op)]
    BY <1>3, Zenon DEF PushBatch
  <2>2. queue'[cur] = Append(SubSeq(queue[old], 1, i - 1), queue[old][i])
    BY <1>a, <1>0, <1>2, <1>6, <2>1, Zenon DEF TypeOK
  <2>3. queue'[cur] = SubSeq(queue[old], 1, (i + 1) - 1)
    BY <1>0, <1>1, <2>2, PrefixStep, Zenon
  <2> QED BY <1>a, <1>0, <2>1, <2>3, Zenon DEF TypeOK
<1>8. /\ Len(queue'[cur]) = i /\ i <= BatchSize
      /\ \A j \in 1..i : queue'[cur][j] = queue[old][j]
  <2>1. (i + 1) - 1 = i /\ i <= BatchSize
    BY <1>0, <1>1, SizesAssumption
  <2>2. PICK q \in Seq(Op) : q = queue[old] /\ i <= Len(q)
    BY <1>0, <1>1, Zenon
  <2>3. Len(SubSeq(q, 1, i)) = i /\ \A j \in 1..i : SubSeq(q, 1, i)[j] = q[j]
    BY <2>2
  <2> QED BY <1>7, <2>1, <2>2, <2>3, Zenon
<1>9. \A n \in Nums : Puts(queue'[n]) /\ (n \notin {cur, old} => queue'[n] = <<>>)
  <2>1. Puts(queue'[cur])
    <3> SUFFICES ASSUME NEW j \in 1..Len(queue'[cur]) PROVE queue'[cur][j].op = "put"
      BY Zenon DEF Puts
    <3>1. j \in 1..i /\ queue'[cur][j] = queue[old][j]
      BY <1>8, Zenon
    <3>2. j \in 1..Len(queue[old])
      BY <1>0, <1>1, <3>1
    <3> QED BY <1>0, <3>1, <3>2, Zenon DEF PutInv, Puts
  <2> QED BY <1>7, <2>1, Zenon DEF PutInv
<1>b. /\ cur' = cur /\ old' = old /\ rotations' <= 1 /\ ~broken'
      /\ \A n \in Nums : n > cur' => tables'[n] = Empty
      /\ old' \notin dirs' => tables'[cur'] = Empty /\ tables'[old'] = Empty
  <2>1. broken' = broken /\ ~broken
    BY <1>a, Zenon DEF PutInv
  <2>2. ~broken'
    BY <2>1
  <2> QED BY <1>a, <2>2, Zenon DEF PutInv
<1>10. CASE Len(queue[cur]) + 1 >= BatchSize /\ stack' = <<EnterF(cur)>> \o <<h, FlushCurF, ResetF(old)>>
  <2>1. i = Len(queue[old]) /\ i = BatchSize
    BY <1>0, <1>1, <1>6, <1>10, SizesAssumption
  <2>2. h = OnfullF(queue[old], Len(queue[old]) + 1)
    BY <1>4, <2>1, Zenon
  <2>3. PICK g \in Frame : g = EnterF(cur)
    BY PutFrames, Zenon
  <2>4. stack' = <<g, h, FlushCurF, ResetF(old)>>
    <3>1. h \in Frame /\ FlushCurF \in Frame /\ ResetF(old) \in Frame
      BY PutFrames, Zenon
    <3>2. <<g>> \o <<h, FlushCurF, ResetF(old)>> = <<g, h, FlushCurF, ResetF(old)>>
      BY <3>1, Join4
    <3> QED BY <1>10, <2>3, <3>2, Zenon
  <2>5. Flushes(g)'
    BY <1>a, <2>3, Zenon DEF Flushes
  <2>6. Replayed'
    BY <1>a, <1>7, <2>2, <2>4, <2>5, Zenon DEF Replayed
  <2>7. Rotating'
    BY <1>a, <1>6, <1>7, <2>6, Zenon DEF Rotating
  <2>8. PutInv'
    <3>1. Len(queue'[cur]) <= BatchSize
      BY <1>8, Zenon
    <3>2. status'[cur'] = "open"
      BY <2>7, Zenon DEF Rotating
    <3> QED BY <1>9, <1>b, <2>7, <3>1, <3>2, Zenon DEF PutInv
  <2>9. stack' # <<>> /\ Head(stack').fn = "enter"
    <3>1. g.fn = "enter"
      BY <2>3, PutFrames, Zenon
    <3>2. \A a, b, c, d : <<a, b, c, d>> # <<>> /\ Head(<<a, b, c, d>>) = a
      OBVIOUS
    <3> QED BY <2>4, <3>1, <3>2, Zenon
  <2>10. SubSeq(queue[old], 1, (i + 1) - 1) = queue[old]
    <3>1. PICK q \in Seq(Op) : q = queue[old]
      BY <1>0, Zenon
    <3>2. SubSeq(q, 1, Len(q)) = q
      OBVIOUS
    <3>3. (i + 1) - 1 = Len(queue[old])
      BY <1>0, <2>1
    <3> QED BY <3>1, <3>2, <3>3, Zenon
  <2> QED BY <1>7, <2>8, <2>9, <2>10, ZenonT(30)
<1>11. CASE Len(queue[cur]) + 1 < BatchSize /\ stack' = <<h, FlushCurF, ResetF(old)>>
  <2>1. i + 1 \in 1..(Len(queue[old]) + 1) /\ (i + 1) - 1 < BatchSize /\ i + 1 \in Nat
    BY <1>0, <1>1, <1>6, <1>11
  <2>2. Replaying(i + 1)'
    BY <1>a, <1>4, <1>6, <1>7, <1>11, <2>1, Zenon DEF Replaying
  <2>3. Rotating'
    BY <1>a, <1>6, <1>7, <2>1, <2>2, Zenon DEF Rotating
  <2>4. PutInv'
    <3>1. Len(queue'[cur]) <= BatchSize
      BY <1>8, Zenon
    <3>2. status'[cur'] = "open"
      BY <2>3, Zenon DEF Rotating
    <3> QED BY <1>9, <1>b, <2>3, <3>1, <3>2, Zenon DEF PutInv
  <2> QED BY <1>7, <2>2, <2>4, Zenon
<1> QED BY <1>3, <1>4, <1>5, <1>7, <1>10, <1>11, Zenon DEF PushBatch

\* The map is full: never during a rotation, the batch fits the new environment.
LEMMA MapFullPut ==
  ASSUME Base, PutInv, Fits, MapFull
  PROVE  /\ Plain /\ Tail(stack) = <<>> /\ queue[cur] # <<>> /\ Rotate(cur)
         /\ tables[cur] # Empty \/ Len(queue[cur]) > MinRoom
<1>0. Top("flush") /\ stack # <<>> /\ TypeOK
  BY Zenon DEF MapFull, Top, Base
<1>1. PICK f \in Frame, rest \in Seq(Frame) : f = Head(stack) /\ rest = Tail(stack) /\ f.fn = "flush"
  BY <1>0, TopPick, Zenon
<1>2. PICK i \in Nat \ {0} : IsFlush(f, i)
  BY <1>0, <1>1, TopFlush, Zenon
<1>3. WaitsFor(rest)
  BY <1>0, <1>1, TopFlush, Zenon
<1>4. f.env = cur /\ f.next = i /\ i \in 1..(Len(queue[cur]) + 1) /\ queue[cur] # <<>>
  BY <1>2, PutFrames DEF IsFlush
<1>5. Rotate(cur) /\ \E n \in 0..Len(queue[cur]) : MayFill(cur, n)
  <2>1. i <= Len(queue[cur]) => i \in 0..Len(queue[cur])
    BY PutQueues
  <2>2. i > Len(queue[cur]) => i - 1 \in 0..Len(queue[cur])
    BY <1>4, PutQueues
  <2> QED BY <1>1, <1>4, <2>1, <2>2, Zenon DEF MapFull
<1>6. tables[cur] # Empty \/ Len(queue[cur]) > MinRoom
  BY <1>5, PutFrames, SizesAssumption DEF MayFill
<1>7. Len(queue[cur]) <= BatchSize /\ BatchSize <= MinRoom
  BY Zenon DEF PutInv, Fits
<1>8. tables[cur] # Empty
  BY <1>6, <1>7, PutFrames, SizesAssumption
<1>9. ~Rotating
  BY <1>4, <1>8, Zenon DEF Rotating
<1> QED BY <1>1, <1>3, <1>4, <1>5, <1>6, <1>9, Zenon DEF WaitsFor

\* The rotation: the queue of the environment that was current is replayed.
LEMMA RotatePut ==
  ASSUME Base, PutInv, Fits, MapFull
  PROVE  PutInv' /\ Replaying(1)'
<1>0. /\ Plain /\ Tail(stack) = <<>> /\ queue[cur] # <<>> /\ Rotate(cur)
      /\ stack # <<>> /\ proc = "up" /\ rotations = 0 /\ TypeOK
  BY MapFullPut, Zenon DEF MapFull, Top, Plain, Base
<1>1. /\ cur \in Nums /\ old \in Nums /\ cur \in Nat /\ old \in Nat /\ cur = old + 1
      /\ cur + 1 \in Nums /\ cur + 1 # cur /\ cur + 1 # old /\ old # cur /\ MaxNum \in Nat
  <2>1. MaxNum \in Nat
    BY BoundsAssumption, Zenon
  <2>2. cur < MaxNum
    BY <1>0, Zenon DEF Rotate
  <2>3. cur + 1 \in Nums
    BY <2>1, <2>2, PutQueues DEF Nums
  <2> QED BY <2>1, <2>3, PutQueues
<1>2. /\ status' = [status EXCEPT ![old] = "closing", ![cur + 1] = "open"]
      /\ old' = cur /\ cur' = cur + 1 /\ dirs' = dirs \cup {cur'} /\ rotations' = 1
      /\ UNCHANGED <<tables, queue, by, broken>>
  <2>1. rotations + 1 = 1
    BY <1>0
  <2> QED BY <1>0, <2>1, Zenon DEF Rotate, hist
<1>3. stack' = <<OnfullF(queue[cur], 1), FlushCurF, ResetF(cur)>>
  <2>1. PICK h \in Frame : h = OnfullF(queue[cur], 1)
    BY PutFrames, Frames
  <2>2. PICK z \in Frame : z = ResetF(cur)
    BY <1>1, Frames, ZenonT(30)
  <2>3. PICK c \in Frame : c = FlushCurF
    BY Frames, Zenon
  <2>4. <<h, c, z>> \in Seq(Frame)
    OBVIOUS
  <2>5. <<h, c, z>> \o <<>> = <<h, c, z>>
    BY <2>4
  <2>6. stack' = <<h, c, z>> \o <<>>
    BY <1>0, <2>1, <2>2, <2>3, Zenon DEF Rotate
  <2> QED BY <2>1, <2>2, <2>3, <2>5, <2>6, ZenonT(30)
<1>4. /\ queue[cur + 1] = <<>> /\ tables[cur + 1] = Empty /\ queue[old] = <<>>
  <2>1. cur + 1 > cur
    BY <1>1
  <2> QED BY <1>0, <1>1, <2>1, Zenon DEF PutInv, Plain
<1>5. 1 \in 1..(Len(queue[cur]) + 1) /\ 1 - 1 < BatchSize /\ Len(<<>>) = 0 /\ 0 <= BatchSize
  BY PutQueues, SizesAssumption
<1>6. SubSeq(queue[cur], 1, 1 - 1) = <<>>
  BY PutQueues
<1>7. Replaying(1)'
  BY <1>2, <1>3, <1>4, <1>5, <1>6, Zenon DEF Replaying
<1>8. status'[cur'] = "open"
  BY <1>0, <1>1, <1>2, Zenon DEF TypeOK
<1>9. Rotating'
  BY <1>2, <1>4, <1>7, <1>8, Zenon DEF Rotating, PutInv
<1>10. \A n \in Nums : Puts(queue'[n]) /\ (n \notin {cur', old'} => queue'[n] = <<>>)
  BY <1>2, <1>4, Zenon DEF PutInv
<1>11. \A n \in Nums : n > cur' => tables'[n] = Empty
  <2>1. \A n \in Nums : n > cur' => n > cur
    BY <1>1, <1>2, TwoNums
  <2> QED BY <1>2, <2>1, Zenon DEF PutInv
<1>12. old' \in dirs'
  BY <1>0, <1>2, Zenon DEF Base, Numbered
<1>13. Len(queue'[cur']) <= BatchSize
  BY <1>2, <1>4, <1>5, Zenon
<1>14. rotations' <= 1
  BY <1>2
<1> QED BY <1>2, <1>7, <1>8, <1>9, <1>10, <1>11, <1>12, <1>13, <1>14, Zenon DEF PutInv

\* Between calls.
LEMMA IdlePut ==
  ASSUME Base, PutInv, stack = <<>>
  PROVE  Plain /\ Len(queue[cur]) < BatchSize /\ queue[old] = <<>> /\ \A i : ~Replaying(i)
<1>1. \A a, b, c, d : <<a>> # <<>> /\ <<a, b>> # <<>> /\ <<a, b, c>> # <<>> /\ <<a, b, c, d>> # <<>>
  BY Tuples, Zenon
<1>2. ~Rotating /\ \A i : ~Replaying(i)
  BY <1>1, Zenon DEF Rotating, Replayed, Replaying
<1>3. Plain
  BY <1>2, Zenon DEF PutInv
<1> QED BY <1>1, <1>2, <1>3, Zenon DEF Plain

\* A step between calls that leaves the queues.
LEMMA IdleKeeps ==
  ASSUME Base, PutInv, stack = <<>>, stack' = <<>>,
         UNCHANGED <<queue, cur, old, broken, rotations>>,
         \A n \in Nums : n > cur => tables'[n] = Empty,
         old \notin dirs' => tables'[cur] = Empty /\ tables'[old] = Empty
  PROVE  PutInv'
<1>1. Plain'
  BY IdlePut, Zenon DEF Plain
<1> QED BY <1>1, Zenon DEF PutInv

\* A put of the application.
LEMMA PutPut ==
  ASSUME Base, PutInv, NEW k \in Keys, PutOp(k, puts + 1) \in Op, Call(PutOp(k, puts + 1))
  PROVE  PutInv' /\ queue'[cur] = Append(queue[cur], PutOp(k, puts + 1))
         /\ \A i : ~Replaying(i)'
<1>1. PICK op \in Op : op = PutOp(k, puts + 1) /\ op.op = "put"
  BY Zenon DEF PutOp
<1>2. /\ stack = <<>> /\ status[cur] = "open" /\ PushBatch(cur, op, <<>>) /\ TypeOK
      /\ by' = "app" /\ rotations' = 0
      /\ UNCHANGED <<dirs, tables, status, cur, old, broken>>
  BY <1>1, Zenon DEF Call, Usable, Idle, DbCall, disk, envs, Base
<1>3. /\ cur \in Nums /\ old \in Nums /\ old # cur /\ queue[cur] \in Seq(Op)
      /\ Len(queue[cur]) \in Nat /\ Len(queue[cur]) < BatchSize /\ queue[old] = <<>>
  BY <1>2, PutQueues, IdlePut, Zenon
<1>4. /\ queue'[cur] = Append(queue[cur], op)
      /\ \A n \in Nums \ {cur} : queue'[n] = queue[n]
  BY <1>2, <1>3, Zenon DEF PushBatch, TypeOK
<1>5. /\ Len(queue'[cur]) = Len(queue[cur]) + 1 /\ queue'[old] = <<>>
      /\ \A j \in 1..Len(queue'[cur]) : 
           queue'[cur][j] = op \/ (j \in 1..Len(queue[cur]) /\ queue'[cur][j] = queue[cur][j])
  <2>1. PICK q \in Seq(Op) : q = queue[cur]
    BY <1>3, Zenon
  <2>2. /\ Len(Append(q, op)) = Len(q) + 1
        /\ \A j \in 1..(Len(q) + 1) : Append(q, op)[j] = op \/ (j \in 1..Len(q) /\ Append(q, op)[j] = q[j])
    <3>1. /\ Len(Append(q, op)) = Len(q) + 1 /\ Append(q, op)[Len(q) + 1] = op
          /\ \A j \in 1..Len(q) : Append(q, op)[j] = q[j]
      OBVIOUS
    <3>2. \A j \in 1..(Len(q) + 1) : j = Len(q) + 1 \/ j \in 1..Len(q)
      OBVIOUS
    <3>3. ASSUME NEW j \in 1..(Len(q) + 1)
          PROVE  Append(q, op)[j] = op \/ (j \in 1..Len(q) /\ Append(q, op)[j] = q[j])
      BY <3>1, <3>2, ZenonT(30)
    <3> QED BY <3>1, <3>3, Zenon
  <2> QED BY <1>3, <1>4, <2>1, <2>2, Zenon
<1>6. Len(queue'[cur]) <= BatchSize
  BY <1>3, <1>5, SizesAssumption
<1>7. \A n \in Nums : Puts(queue'[n]) /\ (n \notin {cur, old} => queue'[n] = <<>>)
  <2>1. Puts(queue'[cur])
    BY <1>1, <1>3, <1>5, Zenon DEF PutInv, Puts
  <2> QED BY <1>4, <2>1, Zenon DEF PutInv
<1>8. Plain' /\ \A i : ~Replaying(i)'
  <2>1. CASE stack' = <<>> /\ Len(queue[cur]) + 1 < BatchSize
    <3>1. Plain'
      BY <1>2, <1>5, <2>1, Zenon DEF Plain
    <3>2. \A i : ~Replaying(i)'
      BY <2>1, Tuples, Zenon DEF Replaying
    <3> QED BY <3>1, <3>2, Zenon
  <2>2. CASE stack' = <<EnterF(cur)>>
    <3>1. PICK g \in Frame : g = EnterF(cur)
      BY PutFrames, Zenon
    <3>2. Flushes(g)' /\ stack' = <<g>>
      BY <1>2, <2>2, <3>1, Zenon DEF Flushes
    <3>3. Plain'
      BY <1>2, <1>5, <3>2, Zenon DEF Plain
    <3>4. \A i : ~Replaying(i)'
      BY <2>2, Zenon DEF Replaying
    <3> QED BY <3>3, <3>4, Zenon
  <2>3. <<EnterF(cur)>> \o <<>> = <<EnterF(cur)>>
    BY PutQueues
  <2> QED BY <1>2, <2>1, <2>2, <2>3, Zenon DEF PushBatch
<1>9. rotations' <= 1
  BY <1>2
<1> QED BY <1>1, <1>2, <1>4, <1>6, <1>7, <1>8, <1>9, Zenon DEF PutInv

\* rmStale removes neither of the two.
LEMMA RmStaleKeeps ==
  ASSUME Base, Base', RmStale
  PROVE  /\ stack = <<>> /\ stack' = <<>> /\ old \in dirs'
         /\ tables'[cur] = tables[cur] /\ tables'[old] = tables[old]
         /\ \A n \in Nums : tables'[n] = tables[n] \/ tables'[n] = Empty
         /\ UNCHANGED <<queue, cur, old, status, by, proc, broken, rotations>>
<1>1. /\ stack = <<>> /\ stack' = <<>> /\ proc = "up" /\ proc' = "up"
      /\ UNCHANGED <<queue, cur, old, status, by, proc, broken, rotations>>
      /\ tables' = [n \in Nums |-> IF n \in dirs \ dirs' THEN Empty ELSE tables[n]]
  BY Zenon DEF RmStale, Usable, Idle, envs, hist
<1>2. cur \in dirs' /\ old \in dirs'
  BY <1>1, Zenon DEF Base, Numbered
<1> QED BY <1>1, <1>2, PutFrames, Zenon

\* Init and the steps.
LEMMA InitPut == ASSUME Init PROVE PutInv
<1>1. /\ stack = <<>> /\ cur = 2 /\ old = 1 /\ rotations = 0 /\ broken = FALSE
      /\ \A n \in Nums : queue[n] = <<>> /\ tables[n] = Empty
  BY Zenon DEF Init
<1>2. cur \in Nums /\ old \in Nums
  BY <1>1, TwoNums, Zenon
<1>3. Len(<<>>) = 0 /\ 0 < BatchSize /\ 0 <= BatchSize
  BY SizesAssumption
<1>4. Plain
  BY <1>1, <1>2, <1>3, Zenon DEF Plain
<1>5. \A n \in Nums : Puts(queue[n])
  BY <1>1 DEF Puts
<1>6. Len(queue[cur]) <= BatchSize /\ rotations <= 1
  BY <1>1, <1>2, <1>3
<1> QED BY <1>1, <1>2, <1>4, <1>5, <1>6, Zenon DEF PutInv

\* PutInv is inductive.
LEMMA NextPut ==
  ASSUME Base, Base', PutInv, Fits, [Next]_vars
  PROVE  PutInv'
\* flushBatchOps begins: it has something to write in the current environment
\* alone.
<1>EnterFlushPut. ASSUME Base, PutInv, EnterFlush
      PROVE  PutInv'
  <2> USE <1>EnterFlushPut
  <2>0. Top("enter") /\ stack # <<>> /\ TypeOK
    BY Zenon DEF EnterFlush, Top, Base
  <2>1. PICK f \in Frame, rest \in Seq(Frame) : f = Head(stack) /\ rest = Tail(stack) /\ f.fn = "enter"
    BY <2>0, TopPick, Zenon
  <2>2. PICK e \in Nums : e = f.env
    BY <2>1, FrameParts, Zenon
  <2>3. Enters(f, rest)
    BY <2>0, <2>1, TopEnter, Zenon
  <2>4. CASE queue[e] = <<>> /\ stack' = rest
             /\ UNCHANGED <<dirs, tables, status, queue, cur, old, by, broken, rotations>>
    <3>1. CASE WaitsFor(rest) /\ f = EnterF(cur)
      <4>1. e = cur /\ queue[cur] = <<>>
        BY <2>2, <2>4, <3>1, PutFrames, Zenon
      <4>2. Len(queue[cur]) < BatchSize
        BY <4>1, SizesAssumption
      <4>3. CASE Plain /\ rest = <<>>
        <5>1. Plain'
          BY <2>4, <4>2, <4>3, Zenon DEF Plain
        <5> QED BY <2>0, <2>4, <5>1, PutMoves, Zenon
      <4>4. CASE Rotating /\ (\/ rest = <<OnfullF(queue[old], Len(queue[old]) + 1), FlushCurF, ResetF(old)>>
                              \/ rest = <<ResetF(old)>>)
        <5>1. Replayed'
          BY <2>4, <4>1, <4>4, Zenon DEF Replayed
        <5>2. Rotating'
          BY <2>4, <4>4, <5>1, Zenon DEF Rotating
        <5> QED BY <2>0, <2>4, <5>2, PutMoves, Zenon
      <4> QED BY <3>1, <4>3, <4>4, Zenon DEF WaitsFor
    <3>2. CASE Plain /\ rest = <<>> /\ Len(queue[cur]) < BatchSize
      <4>1. Plain'
        BY <2>4, <3>2, Zenon DEF Plain
      <4> QED BY <2>0, <2>4, <4>1, PutMoves, Zenon
    <3>3. CASE Plain /\ rest = <<FlushCurF>> /\ Len(queue[cur]) < BatchSize
      <4>1. Plain'
        BY <2>0, <2>4, <3>3, Zenon DEF Plain
      <4> QED BY <2>0, <2>4, <4>1, PutMoves
    <3> QED BY <2>3, <3>1, <3>2, <3>3, Zenon DEF Enters
  <2>5. CASE queue[e] # <<>> /\ stack' = <<FlushF(e, 1)>> \o rest /\ dirty' = tables[e]
             /\ UNCHANGED <<dirs, tables, status, queue, cur, old, by, broken, rotations>>
    <3>1. Plain => e = cur
      BY <2>5, Zenon DEF Plain, PutInv
    <3>2. e = cur /\ WaitsFor(rest)
      <4>1. old # cur
        BY PutQueues
      <4> QED BY <2>2, <2>3, <3>1, <4>1, PutFrames, Zenon DEF WaitsFor, Enters
    <3>3. dirty' = Applied(tables[cur], queue[cur], 1 - 1)
      <4>1. tables[cur] \in Tables
        BY PutFrames, Zenon
      <4>2. 1 - 1 = 0
        OBVIOUS
      <4> QED BY <2>5, <3>2, <4>1, <4>2, AppliedZero, Zenon
    <3>4. 1 \in 1..(Len(queue[cur]) + 1)
      BY PutQueues
    <3>5. PICK g \in Frame : g = FlushF(cur, 1)
      <4>1. 1 \in Nat \ {0}
        OBVIOUS
      <4> QED BY <4>1, PutQueues, Frames, Zenon
    <3>6. IsFlush(g, 1)'
      BY <2>5, <3>2, <3>3, <3>4, <3>5, Zenon DEF IsFlush
    <3>7. Flushes(g)' /\ stack' = <<g>> \o rest
      BY <2>5, <3>2, <3>5, <3>6, Zenon DEF Flushes
    <3> QED BY <2>0, <2>5, <3>2, <3>7, PutFlushes, Zenon
  <2>6. CASE Die /\ UNCHANGED broken
    BY <2>6, DiePut, Zenon
  <2> QED BY <2>1, <2>2, <2>4, <2>5, <2>6, Zenon DEF EnterFlush, disk, envs, hist
\* flushBatchOps of the cache goes on to the current environment.
<1>FlushCurPut. ASSUME Base, PutInv, FlushCur
      PROVE  PutInv'
  <2> USE <1>FlushCurPut
  <2>0. Top("flushCur") /\ stack # <<>> /\ TypeOK
    BY Zenon DEF FlushCur, Top, Base
  <2>1. PICK f \in Frame, rest \in Seq(Frame) : f = Head(stack) /\ rest = Tail(stack) /\ f.fn = "flushCur"
    BY <2>0, TopPick, Zenon
  <2>2. /\ stack' = <<EnterF(cur)>> \o rest
        /\ UNCHANGED <<dirs, tables, status, queue, cur, old, by, broken, rotations>>
    BY <2>1, Zenon DEF FlushCur, disk, envs, hist
  <2>3. WaitsFor(rest)
    <3>1. PICK last : last = OnfullF(queue[old], Len(queue[old]) + 1)
      BY Zenon
    <3>2. Len(queue[old]) + 1 \in Nat \ {0}
      BY PutQueues
    <3>3. last.fn = "onfull" /\ \A e \in Nums : f # EnterF(e)
      BY <2>1, <3>1, <3>2, PutFrames, Frames, Zenon
    <3>4. \A i \in Nat : Replaying(i) => f # OnfullF(queue[old], i)
      BY <2>1, PutFrames DEF Replaying
    <3>5. f # ResetF(old) /\ f # EnterF(old) /\ ~Flushes(f)
      BY <2>1, PutFrames, Zenon DEF Flushes
    <3>6. TopIs(f, rest, last)
      BY <2>0, <2>1, <3>1, PutTop, Zenon
    <3> QED BY <2>1, <3>3, <3>4, <3>5, <3>6, Zenon DEF WaitsFor, TopIs
  <2>4. PICK g \in Frame : g = EnterF(cur)
    BY PutFrames, Zenon
  <2>5. Flushes(g)' /\ stack' = <<g>> \o rest
    BY <2>2, <2>4, Zenon DEF Flushes
  <2> QED BY <2>0, <2>2, <2>3, <2>5, PutFlushes, Zenon
\* A record is written.
<1>ExecPutPut. ASSUME Base, PutInv, ExecPut
      PROVE  PutInv'
  <2> USE <1>ExecPutPut
  <2>0. Top("flush") /\ stack # <<>> /\ TypeOK
    BY Zenon DEF ExecPut, Top, Base
  <2>1. PICK f \in Frame, rest \in Seq(Frame) : f = Head(stack) /\ rest = Tail(stack) /\ f.fn = "flush"
    BY <2>0, TopPick, Zenon
  <2>2. PICK i \in Nat \ {0} : IsFlush(f, i)
    BY <2>0, <2>1, TopFlush, ZenonT(30)
  <2>3. WaitsFor(rest)
    BY <2>0, <2>1, TopFlush, ZenonT(30)
  <2>4. f.env = cur /\ f.next = i /\ i \in 1..(Len(queue[cur]) + 1)
    BY <2>2, PutFrames
  <2>5. /\ i <= Len(queue[cur]) /\ dirty' = ApplyOp(dirty, queue[cur][i])
        /\ stack' = <<FlushF(cur, i + 1)>> \o rest
        /\ UNCHANGED <<dirs, tables, status, queue, cur, old, by, broken, rotations>>
    BY <2>1, <2>4, Zenon DEF ExecPut, disk, envs, hist
  <2>6. dirty' = Applied(tables[cur], queue[cur], (i + 1) - 1)
    <3>1. PICK m \in Nat : i = m + 1 /\ m = i - 1 /\ m < Len(queue[cur])
      <4>1. i - 1 \in Nat /\ i = (i - 1) + 1 /\ i - 1 < Len(queue[cur])
        BY <2>5, PutQueues
      <4> QED BY <4>1, Zenon
    <3>2. dirty = Applied(tables[cur], queue[cur], m)
      BY <2>2, <3>1, Zenon DEF IsFlush
    <3>3. Applied(tables[cur], queue[cur], m + 1) = ApplyOp(dirty, queue[cur][m + 1])
      BY <3>1, <3>2, AppliedStep, PutFrames, Zenon
    <3>4. (i + 1) - 1 = m + 1 /\ i = m + 1
      <4>1. \A x \in Nat : ((x + 1) + 1) - 1 = x + 1
        OBVIOUS
      <4> QED BY <3>1, <4>1, Zenon
    <3> QED BY <2>5, <3>3, <3>4, Zenon
  <2>7. i + 1 \in 1..(Len(queue[cur]) + 1) /\ i + 1 \in Nat \ {0} /\ i + 1 \in Nat
    BY <2>5, PutQueues
  <2>8. PICK g \in Frame : g = FlushF(cur, i + 1)
    BY <2>7, PutFrames, Frames, Zenon
  <2>9. IsFlush(g, i + 1)'
    BY <2>2, <2>5, <2>6, <2>7, <2>8, Zenon DEF IsFlush
  <2>10. Flushes(g)' /\ stack' = <<g>> \o rest
    BY <2>5, <2>7, <2>8, <2>9, Zenon DEF Flushes
  <2> QED BY <2>0, <2>3, <2>5, <2>10, PutFlushes, Zenon
\* A flush commits: the queue of the current environment is empty.
<1>CommitPut. ASSUME Base, PutInv, Commit
      PROVE  PutInv'
  <2> USE <1>CommitPut
  <2>0. Top("flush") /\ stack # <<>> /\ TypeOK /\ proc = "up"
    BY Zenon DEF Commit, Top, Base
  <2>1. PICK f \in Frame, rest \in Seq(Frame) : f = Head(stack) /\ rest = Tail(stack) /\ f.fn = "flush"
    BY <2>0, TopPick, Zenon
  <2>2. PICK i \in Nat \ {0} : IsFlush(f, i)
    BY <2>0, <2>1, TopFlush, ZenonT(30)
  <2>3. WaitsFor(rest)
    BY <2>0, <2>1, TopFlush, ZenonT(30)
  <2>4. f.env = cur
    BY <2>2, PutFrames, Zenon
  <2>5. /\ tables' = [tables EXCEPT ![cur] = dirty] /\ queue' = [queue EXCEPT ![cur] = <<>>]
        /\ stack' = rest /\ UNCHANGED <<dirs, status, cur, old, by, broken, rotations>>
    BY <2>1, <2>4, Zenon DEF Commit, envs, hist
  <2>6. /\ cur \in Nums /\ old \in Nums /\ old # cur /\ old \in dirs
        /\ queue'[cur] = <<>> /\ queue'[old] = queue[old] /\ Len(queue'[cur]) = 0
        /\ \A n \in Nums \ {cur} : queue'[n] = queue[n] /\ tables'[n] = tables[n]
    <3>1. cur \in Nums /\ old \in Nums /\ old # cur
      BY PutQueues
    <3>2. old \in dirs
      BY <2>0, Zenon DEF Base, Numbered
    <3> QED BY <2>0, <2>5, <3>1, <3>2, Zenon DEF TypeOK
  <2>7. 0 < BatchSize /\ 0 <= BatchSize
    BY SizesAssumption
  <2>8. Plain' \/ Rotating'
    <3>1. CASE Plain /\ rest = <<>>
      <4>1. Plain'
        BY <2>5, <2>6, <2>7, <3>1, Zenon DEF Plain
      <4> QED BY <4>1, Zenon
    <3>2. CASE Rotating /\ (\/ rest = <<OnfullF(queue[old], Len(queue[old]) + 1), FlushCurF, ResetF(old)>>
                            \/ rest = <<ResetF(old)>>)
      <4>1. Replayed'
        BY <2>5, <2>6, <3>2, Zenon DEF Replayed
      <4>2. Rotating'
        BY <2>5, <2>6, <3>2, <4>1, Zenon DEF Rotating
      <4> QED BY <4>2, Zenon
    <3> QED BY <2>3, <3>1, <3>2, Zenon DEF WaitsFor
  <2>9. \A n \in Nums : Puts(queue'[n]) /\ (n \notin {cur, old} => queue'[n] = <<>>)
    <3>1. Puts(<<>>)
      BY DEF Puts
    <3> QED BY <2>6, <3>1, Zenon DEF PutInv
  <2>10. \A n \in Nums : n > cur => tables'[n] = Empty
    <3>1. \A n \in Nums : n > cur => n # cur
      BY PutQueues
    <3> QED BY <2>6, <3>1, Zenon DEF PutInv
  <2> QED BY <2>0, <2>5, <2>6, <2>7, <2>8, <2>9, <2>10, Zenon DEF PutInv
\* onfull has returned: the queue of the old environment is dropped.
<1>ResetQueuePut. ASSUME Base, PutInv, ResetQueue
      PROVE  PutInv'
  <2> USE <1>ResetQueuePut
  <2>0. Top("reset") /\ stack # <<>> /\ TypeOK
    BY Zenon DEF ResetQueue, Top, Base
  <2>1. PICK f \in Frame, rest \in Seq(Frame) : f = Head(stack) /\ rest = Tail(stack) /\ f.fn = "reset"
    BY <2>0, TopPick, Zenon
  <2>2. Rotating /\ f = ResetF(old) /\ rest = <<>> /\ queue[cur] = <<>>
    BY <2>0, <2>1, TopReset, Zenon
  <2>3. /\ queue' = [queue EXCEPT ![old] = <<>>] /\ stack' = <<>>
        /\ UNCHANGED <<dirs, tables, status, cur, old, by, broken, rotations>>
    <3>1. f.env = old
      BY <2>2, PutFrames, Zenon
    <3> QED BY <2>1, <2>2, <3>1, Zenon DEF ResetQueue, disk, envs, hist
  <2>4. /\ queue'[cur] = <<>> /\ queue'[old] = <<>> /\ Len(queue'[cur]) = 0
        /\ \A n \in Nums : queue'[n] = <<>> \/ queue'[n] = queue[n]
    BY <2>0, <2>2, <2>3, PutFrames, Zenon DEF TypeOK
  <2>5. 0 < BatchSize /\ 0 <= BatchSize
    BY SizesAssumption
  <2>6. Plain'
    BY <2>3, <2>4, <2>5, Zenon DEF Plain
  <2>7. \A n \in Nums : Puts(queue'[n]) /\ (n \notin {cur, old} => queue'[n] = <<>>)
    <3>1. Puts(<<>>)
      BY DEF Puts
    <3> QED BY <2>4, <3>1, Zenon DEF PutInv
  <2> QED BY <2>3, <2>4, <2>5, <2>6, <2>7, Zenon DEF PutInv
\* onfull goes on.
<1>ReplayPut. ASSUME Base, PutInv, Fits, Replay
      PROVE  PutInv'
  <2> USE <1>ReplayPut
  <2>0. Top("onfull") /\ stack # <<>> /\ TypeOK
    BY Zenon DEF Replay, Top, Base
  <2>1. PICK f \in Frame, rest \in Seq(Frame) : f = Head(stack) /\ rest = Tail(stack) /\ f.fn = "onfull"
    BY <2>0, TopPick, Zenon
  <2>2. PICK i \in Nat \ {0} : i = f.next
    BY <2>1, FrameParts, Zenon
  <2>3. /\ Rotating /\ rest = <<FlushCurF, ResetF(old)>> /\ f.ops = queue[old]
        /\ i <= Len(queue[old]) => Replaying(i)
    BY <2>0, <2>1, <2>2, TopOnfull, Zenon
  <2>4. UNCHANGED <<dirs, tables, status, cur, old, by, broken, rotations>>
    BY Zenon DEF Replay, disk, envs, hist
  <2>5. CASE i > Len(queue[old]) /\ stack' = rest /\ UNCHANGED queue
    <3>1. Replayed'
      BY <2>3, <2>4, <2>5, Zenon DEF Replayed
    <3>2. Rotating'
      BY <2>3, <2>4, <2>5, <3>1, Zenon DEF Rotating
    <3> QED BY <2>0, <2>4, <2>5, <3>2, PutMoves, Zenon
  <2>6. CASE i <= Len(queue[old]) /\ DbCall(queue[old][i], <<OnfullF(queue[old], i + 1)>> \o rest)
    BY <2>0, <2>3, <2>4, <2>6, ReplayOne, ZenonT(30)
  <2> QED BY <2>1, <2>2, <2>3, <2>5, <2>6, Zenon DEF Replay
\* A step that begins a call and leaves the queues.
<1>CallPut. ASSUME Base, PutInv, stack = <<>>, rotations' = 0, by' = "app" => status[cur] = "open",
             UNCHANGED <<dirs, tables, status, queue, cur, old, broken>>,
             \/ stack' = <<EnterF(old), FlushCurF>>
             \/ \E e \in Nums : stack' = <<EnterF(e)>>
      PROVE  PutInv'
  <2> USE <1>CallPut
  <2>1. Plain'
    BY IdlePut, Zenon DEF Plain
  <2> QED BY <2>1 DEF PutInv
\* The constructor.
<1>OpenPut. ASSUME Base, Base', PutInv, OpenCur \/ OpenOld
      PROVE  PutInv'
  <2> USE <1>OpenPut
  <2>0. /\ stack = <<>> /\ stack' = <<>> /\ cur \in Nums /\ cur \in Nat
        /\ \A n \in Nums : queue[n] = <<>>
        /\ cur' \in Nums /\ old' \in Nums
        /\ UNCHANGED <<tables, queue, broken, rotations>>
    <3>1. stack = <<>> /\ \A n \in Nums : queue[n] = <<>>
      BY Zenon DEF OpenCur, OpenOld, Base, Quiet
    <3> QED BY <3>1, TwoNums, Zenon DEF OpenCur, OpenOld, Base, TypeOK, hist
  <2>1. CASE cur' = cur /\ old' = old
    <3>1. dirs \subseteq dirs'
      BY Zenon DEF OpenCur, OpenOld
    <3> QED BY <2>0, <2>1, <3>1, IdleKeeps, Zenon DEF PutInv
  <2>2. CASE cur' = cur + 1 /\ old' = cur /\ cur \in dirs'
    <3>1. Len(<<>>) = 0 /\ 0 < BatchSize /\ 0 <= BatchSize
      BY SizesAssumption
    <3>2. Plain'
      BY <2>0, <3>1, Zenon DEF Plain
    <3>3. \A n \in Nums : n > cur' => tables'[n] = Empty
      <4>1. \A n \in Nums : n > cur' => n > cur
        BY <2>0, <2>2, TwoNums
      <4> QED BY <2>0, <4>1, Zenon DEF PutInv
    <3>4. \A n \in Nums : Puts(queue'[n])
      <4>1. Puts(<<>>)
        BY <3>1 DEF Puts
      <4> QED BY <2>0, <4>1, Zenon
    <3> QED BY <2>0, <2>2, <3>1, <3>2, <3>3, <3>4, Zenon DEF PutInv
  <2>3. (cur' = cur /\ old' = old) \/ (cur' = cur + 1 /\ old' = cur /\ cur \in dirs')
    BY ChosenPair, Zenon DEF Base, OpenCur, OpenOld
  <2> QED BY <2>1, <2>2, <2>3, Zenon
<1>1. CASE UNCHANGED vars
  BY <1>1, Zenon DEF vars, PutInv, Plain, Rotating, Replayed, Replaying, Flushes, IsFlush
<1>2. CASE OpenCur \/ OpenOld
  BY <1>2, <1>OpenPut, Zenon
<1>3. CASE \E k \in Keys : "put" \in Kinds /\ Call(PutOp(k, puts + 1))
  <2>1. PICK k \in Keys : Call(PutOp(k, puts + 1))
    BY <1>3, Zenon
  <2>2. puts + 1 \in Vals
    BY <2>1, ValsAssumption, BoundsAssumption DEF Call, Base, TypeOK
  <2>3. PutOp(k, puts + 1) \in Op
    BY <2>2, OpTypes, Zenon
  <2> QED BY <2>1, <2>3, PutPut, Zenon
<1>4. CASE \E k \in Keys : "del" \in Kinds /\ Call(DelOp(k))
  BY <1>4, Zenon DEF Fits
<1>5. CASE \E k \in Keys : Get(k)
  <2>1. stack = <<>> /\ stack' = <<>> /\ UNCHANGED <<dirs, tables, queue, cur, old, broken, rotations>>
    BY <1>5, Zenon DEF Get, Usable, Idle, disk, envs
  <2> QED BY <2>1, IdleKeeps, Zenon DEF PutInv
<1>6. CASE Flush
  <2>1. /\ stack = <<>> /\ rotations' = 0 /\ status[cur] = "open" /\ stack' = <<EnterF(old), FlushCurF>>
        /\ UNCHANGED <<dirs, tables, status, queue, cur, old, broken>>
    BY <1>6, Zenon DEF Flush, Usable, Idle, disk, envs, hist
  <2> QED BY <2>1, <1>CallPut, Zenon
<1>7. CASE RmStale
  <2>1. /\ stack = <<>> /\ stack' = <<>> /\ old \in dirs'
        /\ \A n \in Nums : tables'[n] = tables[n] \/ tables'[n] = Empty
        /\ UNCHANGED <<queue, cur, old, broken, rotations>>
    BY <1>7, RmStaleKeeps, ZenonT(30)
  <2> QED BY <2>1, IdleKeeps, Zenon DEF PutInv
<1>8. CASE Close \/ \E n \in Nums : CloseDone(n)
  <2>1. stack = <<>> /\ stack' = <<>> /\ UNCHANGED <<dirs, tables, queue, cur, old, broken, rotations>>
    BY <1>8, Zenon DEF Close, CloseDone, Usable, Idle, disk, hist
  <2> QED BY <2>1, IdleKeeps DEF PutInv
<1>9. CASE TimerFire
  <2>1. /\ stack = <<>> /\ rotations' = 0 /\ by' = "timer" /\ timer \in Nums
        /\ stack' = <<EnterF(timer)>>
        /\ UNCHANGED <<dirs, tables, status, queue, cur, old, broken>>
    BY <1>9, Zenon DEF TimerFire, Idle, disk, envs, hist, Base, TypeOK
  <2> QED BY <2>1, <1>CallPut, Zenon
<1>10. CASE LoopStep
  BY <1>10, <1>EnterFlushPut, <1>FlushCurPut, NoDel, <1>ExecPutPut, <1>CommitPut, FailPut, DiePut,
     RotatePut, <1>ReplayPut, <1>ResetQueuePut, Zenon DEF LoopStep
<1>11. CASE Crash
  BY <1>11, DiePut, Zenon DEF Crash
<1> QED BY <1>1, <1>2, <1>3, <1>4, <1>5, <1>6, <1>7, <1>8, <1>9, <1>10, <1>11, Zenon DEF Next

\* PutInv holds in every state.
LEMMA PutAlways ==
  ASSUME Fits
  PROVE  Spec => []PutInv
<1>1. Init => PutInv
  BY InitPut, Zenon
<1>2. Base /\ Base' /\ PutInv /\ [Next]_vars => PutInv'
  BY NextPut, Zenon
<1> QED BY <1>1, <1>2, BaseAlways, PTL DEF Spec

\* A cache used with puts of legal keys, with batches an empty environment takes
\* and no failing disk rotates at most once during a call (onfull of
\* lib/cache/env.js): the batch that met the full map is put again into an empty
\* environment, where it is flushed whole and never in part.
THEOREM RotatesAtMostOnce ==
  ASSUME Fits
  PROVE  Spec => []RotatesOnce
<1>1. PutInv => RotatesOnce
  BY Zenon DEF PutInv, RotatesOnce
<1> QED BY <1>1, PutAlways, PTL

\* Then the handler of an environment that was rotated away is never called:
\* 'This should not happend.' of lib/cache/env.js is not thrown.
THEOREM NeverThrown ==
  ASSUME Fits
  PROVE  Spec => []ShouldNotHappen
<1>1. PutInv => ShouldNotHappen
  BY Zenon DEF PutInv, ShouldNotHappen
<1> QED BY <1>1, PutAlways, PTL

\* What the handlers in progress have not put again yet.
Unfold(st, f) ==
  [i \in Nat |-> IF i > Len(st) THEN <<>>
                 ELSE IF st[i].fn = "onfull"
                      THEN SubSeq(st[i].ops, st[i].next, Len(st[i].ops)) \o f[i + 1]
                      ELSE f[i + 1]]

Left(st) == CHOOSE f : f = Unfold(st, f)

\* pending, with that.
LEMMA PendingLeft == pending = queue[cur] \o Left(stack)[1]
BY Zenon DEF pending, Left, Unfold

\* With one handler in progress, at most four calls deep.
LEMMA OneHandler ==
  ASSUME NEW st \in Seq(Frame), Len(st) <= 4, NEW p \in 0..Len(st), NEW rest \in Seq(Op),
         \A s \in 1..Len(st) : (st[s].fn = "onfull") <=> (s = p),
         p # 0 => SubSeq(st[p].ops, st[p].next, Len(st[p].ops)) = rest,
         p = 0 => rest = <<>>
  PROVE  Left(st)[1] = rest
<1> DEFINE v(i) == IF i <= p THEN rest ELSE <<>>
           w == [i \in Nat |->
                  IF i # 0 THEN v(i)
                  ELSE IF st[0].fn = "onfull"
                       THEN SubSeq(st[0].ops, st[0].next, Len(st[0].ops)) \o v(1)
                       ELSE v(1)]
           l == Left(st)
<1>0. Len(st) \in Nat
  OBVIOUS
<1>1. w = Unfold(st, w)
  <2>1. ASSUME NEW i \in Nat PROVE w[i] = Unfold(st, w)[i]
    <3>1. i + 1 \in Nat /\ rest \o <<>> = rest
      OBVIOUS
    <3>2. CASE i > Len(st)
      BY <3>1, <3>2 DEF Unfold
    <3>3. CASE i = 0
      BY <3>1, <3>3 DEF Unfold
    <3>4. CASE i \in 1..Len(st) /\ i = p
      <4>1. w[i] = rest /\ w[i + 1] = <<>>
        BY <3>4
      <4>2. Unfold(st, w)[i] = SubSeq(st[i].ops, st[i].next, Len(st[i].ops)) \o w[i + 1]
        <5>1. ~(i > Len(st)) /\ st[i].fn = "onfull"
          BY <1>0, <3>4
        <5> HIDE DEF w
        <5> QED BY <5>1, Zenon DEF Unfold
      <4>3. SubSeq(st[i].ops, st[i].next, Len(st[i].ops)) = rest
        BY <3>4
      <4> QED BY <3>1, <4>1, <4>2, <4>3, Zenon
    <3>5. CASE i \in 1..Len(st) /\ i # p
      BY <3>1, <3>5 DEF Unfold
    <3> QED BY <1>0, <3>2, <3>3, <3>4, <3>5
  <2>2. DOMAIN Unfold(st, w) = Nat /\ Unfold(st, w) = [i \in Nat |-> Unfold(st, w)[i]]
    BY DEF Unfold
  <2> HIDE DEF w
  <2> QED BY <2>1, <2>2, Zenon DEF w
<1>2. l = Unfold(st, l)
  BY <1>1, Zenon DEF Left
<1> HIDE DEF l
<1>3. ASSUME NEW i \in Nat PROVE l[i] = IF i > Len(st) THEN <<>>
                 ELSE IF st[i].fn = "onfull"
                      THEN SubSeq(st[i].ops, st[i].next, Len(st[i].ops)) \o l[i + 1]
                      ELSE l[i + 1]
  BY <1>2, Zenon DEF Unfold
<1>4. ASSUME NEW i \in Nat \ {0}, l[i + 1] = IF i + 1 <= p THEN rest ELSE <<>>
      PROVE  l[i] = IF i <= p THEN rest ELSE <<>>
  <2>1. CASE i > Len(st)
    BY <1>0, <1>3, <2>1
  <2>2. CASE i \in 1..Len(st) /\ i = p
    <3>1. l[i + 1] = <<>> /\ rest \o <<>> = rest
      BY <1>4, <2>2
    <3>2. l[i] = SubSeq(st[i].ops, st[i].next, Len(st[i].ops)) \o l[i + 1]
      <4>1. ~(i > Len(st)) /\ st[i].fn = "onfull"
        BY <1>0, <2>2
      <4> QED BY <1>3, <4>1, Zenon
    <3>3. SubSeq(st[i].ops, st[i].next, Len(st[i].ops)) = rest
      BY <2>2, Zenon
    <3> QED BY <2>2, <3>1, <3>2, <3>3
  <2>3. CASE i \in 1..Len(st) /\ i # p
    BY <1>3, <1>4, <2>3
  <2> QED BY <1>0, <2>1, <2>2, <2>3
<1>5. l[5] = <<>>
  <2>1. 5 \in Nat /\ 5 > Len(st)
    BY <1>0
  <2> QED BY <1>3, <2>1, Zenon
<1>6. l[4] = IF 4 <= p THEN rest ELSE <<>>
  BY <1>0, <1>4, <1>5
<1>7. l[3] = IF 3 <= p THEN rest ELSE <<>>
  BY <1>4, <1>6
<1>8. l[2] = IF 2 <= p THEN rest ELSE <<>>
  BY <1>4, <1>7
<1>9. l[1] = IF 1 <= p THEN rest ELSE <<>>
  BY <1>4, <1>8
<1> QED BY <1>9 DEF l

\* The top of a stack of one, two or three calls.
LEMMA Tops ==
  \A a, b, c : /\ <<a>> # <<>> /\ Head(<<a>>) = a /\ <<a, b>> # <<>> /\ Head(<<a, b>>) = a
              /\ <<a, b, c>> # <<>> /\ Head(<<a, b, c>>) = a
OBVIOUS

\* The handler in progress is call p of st; 0 when there is none.
HandlerAt(st, p) ==
  /\ Len(st) <= 4 /\ p \in 0..Len(st)
  /\ \A s \in 1..Len(st) : (st[s].fn = "onfull") <=> (s = p)

\* The stacks without a handler.
LEMMA NoHandler ==
  /\ HandlerAt(<<>>, 0)
  /\ \A a : a.fn # "onfull" => HandlerAt(<<a>>, 0)
  /\ \A a, b : a.fn # "onfull" /\ b.fn # "onfull" => HandlerAt(<<a, b>>, 0)
<1>1. HandlerAt(<<>>, 0) /\ \A a : a.fn # "onfull" => HandlerAt(<<a>>, 0)
  BY DEF HandlerAt
<1>2. \A a, b : a.fn # "onfull" /\ b.fn # "onfull" => HandlerAt(<<a, b>>, 0)
  BY DEF HandlerAt
<1> QED BY <1>1, <1>2, Zenon

\* The stacks with one.
LEMMA HandlerTop ==
  ASSUME NEW a, NEW b, NEW c, a.fn = "onfull", b.fn # "onfull", c.fn # "onfull"
  PROVE  HandlerAt(<<a, b, c>>, 1) /\ <<a, b, c>>[1] = a
BY DEF HandlerAt

\* See HandlerTop.
LEMMA HandlerBelow ==
  ASSUME NEW a, NEW b, NEW c, NEW d,
         a.fn # "onfull", b.fn = "onfull", c.fn # "onfull", d.fn # "onfull"
  PROVE  HandlerAt(<<a, b, c, d>>, 2) /\ <<a, b, c, d>>[2] = b
BY DEF HandlerAt

\* No handler has a record left to put again.
Settled == \A i \in 1..Len(queue[old]) : ~Replaying(i)

\* Outside the replay what waits is the queue of the current environment.
LEMMA PendingCur ==
  ASSUME Base, PutInv, Settled
  PROVE  pending = queue[cur]
<1>1. stack \in Seq(Frame) /\ queue[cur] \in Seq(Op)
  BY PutFrames, Zenon DEF Base, TypeOK
<1>2. SUFFICES Left(stack)[1] = <<>>
  <2>1. queue[cur] \o <<>> = queue[cur]
    BY <1>1
  <2> QED BY <1>2, <2>1, PendingLeft, Zenon
<1>h. ASSUME NEW p, HandlerAt(stack, p),
             p # 0 => SubSeq(stack[p].ops, stack[p].next, Len(stack[p].ops)) = <<>>
      PROVE  Left(stack)[1] = <<>>
  <2>1. <<>> \in Seq(Op)
    OBVIOUS
  <2> QED BY <1>1, <1>h, <2>1, OneHandler, Zenon DEF HandlerAt
<1>3. HandlerAt(stack, 0) => Left(stack)[1] = <<>>
  BY <1>h, Zenon
<1>4. DEFINE last == OnfullF(queue[old], Len(queue[old]) + 1)
<1>5. last.fn = "onfull" /\ SubSeq(last.ops, last.next, Len(last.ops)) = <<>>
  <2>1. Len(queue[old]) + 1 \in Nat \ {0}
    BY PutQueues
  <2>2. last.fn = "onfull" /\ last.ops = queue[old] /\ last.next = Len(queue[old]) + 1
    BY <2>1, PutFrames, Zenon
  <2>3. SubSeq(queue[old], Len(queue[old]) + 1, Len(queue[old])) = <<>>
    BY PutQueues
  <2> QED BY <2>2, <2>3, Zenon
<1> HIDE DEF last
<1>f. FlushCurF.fn # "onfull" /\ ResetF(old).fn # "onfull" /\ \A e \in Nums : EnterF(e).fn # "onfull"
  <2>1. FlushCurF.fn = "flushCur" /\ ResetF(old).fn = "reset" /\ \A e \in Nums : EnterF(e).fn = "enter"
    BY PutFrames, Frames, Zenon
  <2> QED BY <2>1, Zenon
<1>6. CASE stack = <<last, FlushCurF, ResetF(old)>>
  <2>1. HandlerAt(stack, 1) /\ stack[1] = last
    BY <1>5, <1>f, <1>6, HandlerTop, Zenon
  <2> QED BY <1>h, <1>5, <2>1, Zenon
<1>7. CASE \E g \in Frame : g.fn # "onfull" /\ stack = <<g, last, FlushCurF, ResetF(old)>>
  <2>1. PICK g \in Frame : g.fn # "onfull" /\ stack = <<g, last, FlushCurF, ResetF(old)>>
    BY <1>7, Zenon
  <2>2. HandlerAt(stack, 2) /\ stack[2] = last
    BY <1>5, <1>f, <2>1, HandlerBelow, Zenon
  <2> QED BY <1>h, <1>5, <2>2, Zenon
<1>8. ASSUME NEW g, Flushes(g) PROVE g.fn # "onfull"
  <2>1. g.fn \in {"enter", "flush"}
    BY <1>8, PutFrames, Zenon DEF Flushes
  <2> QED BY <2>1
<1>9. CASE Plain
  <2>1. CASE stack = <<>>
    BY <2>1, <1>3, NoHandler, Zenon
  <2>2. CASE stack = <<FlushCurF>>
    BY <2>2, <1>3, <1>f, NoHandler, Zenon
  <2>3. CASE stack = <<EnterF(old), FlushCurF>>
    BY <2>3, <1>3, <1>f, PutQueues, NoHandler, Zenon
  <2>4. CASE \E e \in Nums : stack = <<EnterF(e)>>
    BY <2>4, <1>3, <1>f, NoHandler, Zenon
  <2>5. CASE \E g \in Frame : Flushes(g) /\ stack = <<g>>
    BY <2>5, <1>3, <1>8, NoHandler, Zenon
  <2> QED BY <1>9, <2>1, <2>2, <2>3, <2>4, <2>5, Zenon DEF Plain
<1>10. CASE Replayed
  <2>1. CASE stack = <<FlushCurF, ResetF(old)>>
    BY <2>1, <1>3, <1>f, NoHandler, Zenon
  <2>2. CASE \E g \in Frame : Flushes(g) /\ stack = <<g, last, FlushCurF, ResetF(old)>>
    BY <2>2, <1>7, <1>8, Zenon
  <2>3. CASE \E g \in Frame : Flushes(g) /\ stack = <<g, ResetF(old)>>
    BY <2>3, <1>3, <1>8, <1>f, NoHandler, Zenon
  <2>4. CASE stack = <<ResetF(old)>>
    BY <2>4, <1>3, <1>f, NoHandler, Zenon
  <2> QED BY <1>6, <1>10, <2>1, <2>2, <2>3, <2>4, ZenonT(30) DEF Replayed, last
<1>11. CASE \E i \in Nat : Replaying(i)
  <2>1. PICK i \in Nat : Replaying(i)
    BY <1>11, Zenon
  <2>2. i = Len(queue[old]) + 1
    <3>1. i \in 1..(Len(queue[old]) + 1)
      BY <2>1, Zenon DEF Replaying
    <3>2. i \notin 1..Len(queue[old])
      BY <2>1, Zenon DEF Settled
    <3>3. \A n \in Nat : \A m \in 1..(n + 1) : m \notin 1..n => m = n + 1
      OBVIOUS
    <3> QED BY <3>1, <3>2, <3>3, PutQueues, Zenon
  <2>3. stack = <<last, FlushCurF, ResetF(old)>>
    BY <2>1, <2>2, Zenon DEF Replaying, last
  <2> QED BY <1>6, <2>3, Zenon
<1> QED BY <1>9, <1>10, <1>11, Zenon DEF PutInv, Rotating

\* What is left of a batch is a batch.
LEMMA Suffix == \A q \in Seq(Op) : \A n \in 1..(Len(q) + 1) : SubSeq(q, n, Len(q)) \in Seq(Op)
OBVIOUS

\* A batch is what comes before a record and the rest.
LEMMA Halves ==
  ASSUME NEW q \in Seq(Op), NEW i \in 1..(Len(q) + 1)
  PROVE  SubSeq(q, 1, i - 1) \o SubSeq(q, i, Len(q)) = q
<1>1. PICK a \in Seq(Op) : a = SubSeq(q, 1, i - 1)
  <2>1. SubSeq(q, 1, i - 1) \in Seq(Op)
    OBVIOUS
  <2> QED BY <2>1, Zenon
<1>2. PICK r \in Seq(Op) : r = SubSeq(q, i, Len(q))
  BY Suffix, Zenon
<1>3. Len(a) = i - 1 /\ Len(r) = Len(q) - (i - 1)
  BY <1>1, <1>2
<1>4. \A j \in 1..Len(a) : a[j] = q[j]
  BY <1>1
<1>5. \A j \in 1..Len(r) : r[j] = q[j + (i - 1)]
  BY <1>2
<1>6. a \o r \in Seq(Op) /\ Len(a \o r) = Len(q)
  <2>1. a \o r \in Seq(Op) /\ Len(a \o r) = Len(a) + Len(r)
    OBVIOUS
  <2> QED BY <1>3, <2>1
<1>7. ASSUME NEW j \in 1..Len(q) PROVE (a \o r)[j] = q[j]
  <2>1. CASE j \in 1..Len(a)
    <3>1. (a \o r)[j] = a[j]
      BY <2>1
    <3> QED BY <1>4, <2>1, <3>1, Zenon
  <2>2. CASE j \notin 1..Len(a)
    <3>1. PICK k \in 1..Len(r) : j = k + (i - 1)
      BY <1>3, <1>7, <2>2
    <3>2. (a \o r)[j] = r[k]
      BY <1>3, <3>1
    <3> QED BY <1>5, <3>1, <3>2, Zenon
  <2> QED BY <2>1, <2>2, Zenon
<1>8. a \o r = q
  BY <1>6, <1>7, SeqEqual, Zenon
<1> QED BY <1>1, <1>2, <1>8, Zenon

\* In the replay, the records put again and those left are those of the batch.
LEMMA PendingOld ==
  ASSUME Base, PutInv, NEW i \in Nat, Replaying(i)
  PROVE  pending = queue[old]
<1>1. /\ stack \in Seq(Frame) /\ queue[old] \in Seq(Op) /\ i \in Nat \ {0}
      /\ i \in 1..(Len(queue[old]) + 1) /\ Len(queue[old]) \in Nat
  <2>1. stack \in Seq(Frame) /\ i \in 1..(Len(queue[old]) + 1)
    BY Zenon DEF Base, TypeOK, Replaying
  <2>2. \A n \in Nat : \A m \in 1..(n + 1) : m \in Nat \ {0}
    OBVIOUS
  <2> QED BY <2>1, <2>2, PutQueues, Zenon
<1>2. PICK h \in Frame : /\ h = OnfullF(queue[old], i) /\ h.fn = "onfull"
                         /\ h.ops = queue[old] /\ h.next = i
  BY <1>1, PutFrames, Zenon
<1>3. stack = <<h, FlushCurF, ResetF(old)>> /\ queue[cur] = SubSeq(queue[old], 1, i - 1)
  BY <1>2, Zenon DEF Replaying
<1>4. PICK r \in Seq(Op) : r = SubSeq(queue[old], i, Len(queue[old]))
  BY <1>1, Suffix, Zenon
<1>5. HandlerAt(stack, 1) /\ stack[1] = h
  <2>1. FlushCurF.fn = "flushCur" /\ ResetF(old).fn = "reset"
    BY PutFrames, Zenon
  <2> QED BY <1>2, <1>3, <2>1, HandlerTop, Zenon
<1>6. Left(stack)[1] = r
  <2>1. SubSeq(stack[1].ops, stack[1].next, Len(stack[1].ops)) = r
    BY <1>2, <1>4, <1>5, Zenon
  <2>2. 1 # 0
    OBVIOUS
  <2> QED BY <1>1, <1>5, <2>1, <2>2, OneHandler, Zenon DEF HandlerAt
<1>7. SubSeq(queue[old], 1, i - 1) \o r = queue[old]
  BY <1>1, <1>4, Halves, Zenon
<1> QED BY <1>3, <1>6, <1>7, PendingLeft, Zenon

\* CacheSpec's operators are those of BatchOps.
LEMMA SameOps ==
  /\ Abs!Op = Op /\ Abs!Empty = Empty
  /\ \A table, ops, n : Abs!Applied(table, ops, n) = Applied(table, ops, n)
BY Zenon DEF Abs!Op, Op, Abs!Empty, Empty, Abs!Applied, Applied, Abs!IsLastOn, IsLastOn

\* The top of the stack is not a handler with records left.
Settling ==
  \/ stack = <<>>
  \/ stack # <<>> /\ Head(stack).fn # "onfull"
  \/ stack = <<OnfullF(queue[old], Len(queue[old]) + 1), FlushCurF, ResetF(old)>>

\* Then no handler has any.
LEMMA Settles ==
  ASSUME Base, Settling
  PROVE  Settled
<1> SUFFICES ASSUME NEW i \in 1..Len(queue[old]), Replaying(i) PROVE FALSE
  BY Zenon DEF Settled
<1>1. i \in Nat \ {0} /\ Len(queue[old]) + 1 \in Nat \ {0} /\ i # Len(queue[old]) + 1
  BY PutQueues
<1>2. stack # <<>> /\ Head(stack) = OnfullF(queue[old], i)
  BY Tops, Zenon DEF Replaying
<1>3. Head(stack).fn = "onfull" /\ Head(stack).next = i
  <2>1. OnfullF(queue[old], i).fn = "onfull" /\ OnfullF(queue[old], i).next = i
    BY <1>1, PutFrames, Zenon
  <2> QED BY <1>2, <2>1, Zenon
<1>4. OnfullF(queue[old], Len(queue[old]) + 1).next = Len(queue[old]) + 1
  BY <1>1, PutFrames, Zenon
<1>5. Head(stack) # OnfullF(queue[old], Len(queue[old]) + 1)
  BY <1>1, <1>3, <1>4, Zenon
<1>6. stack = <<OnfullF(queue[old], Len(queue[old]) + 1), FlushCurF, ResetF(old)>>
  BY <1>2, <1>3, Zenon DEF Settling
<1> QED BY <1>5, <1>6, Tops, Zenon

\* What waits is one queue.
Waits(e) == pending = queue[e]

\* Which one.
LEMMA PendingIs ==
  ASSUME NEW i \in Nat
  PROVE  /\ Base /\ Settling => Settled
         /\ Base /\ PutInv /\ Settled => Waits(cur)
         /\ Base /\ PutInv /\ Replaying(i) => Waits(old)
BY Settles, PendingCur, PendingOld, Zenon DEF Waits

\* The same of the next state.
LEMMA PendingNext ==
  ASSUME NEW i \in Nat
  PROVE  /\ Base' /\ Settling' => Settled'
         /\ Base' /\ PutInv' /\ Settled' => pending' = queue'[cur']
         /\ Base' /\ PutInv' /\ Replaying(i)' => pending' = queue'[old']
<1>1. /\ Base /\ Settling => Settled
      /\ Base /\ PutInv /\ Settled => Waits(cur)
      /\ Base /\ PutInv /\ Replaying(i) => Waits(old)
  BY PendingIs, Zenon
<1>2. /\ Base' /\ Settling' => Settled'
      /\ Base' /\ PutInv' /\ Settled' => Waits(cur)'
      /\ Base' /\ PutInv' /\ Replaying(i)' => Waits(old)'
  BY <1>1, PTL
<1> QED BY <1>2, Zenon DEF Waits

\* The calls that leave no handler with records to replay.
LEMMA SettlesNext ==
  ASSUME Base, Base', old' = old, queue'[old] = queue[old],
         \/ stack' = <<>> \/ stack' = <<FlushCurF>> \/ stack' = <<ResetF(old)>>
         \/ stack' = <<FlushCurF, ResetF(old)>>
         \/ stack' = <<OnfullF(queue[old], Len(queue[old]) + 1), FlushCurF, ResetF(old)>>
  PROVE  Settled'
<1>1. FlushCurF.fn # "onfull" /\ ResetF(old).fn # "onfull"
  BY PutFrames, Zenon
<1>2. Settling'
  BY <1>1, Tops, Zenon DEF Settling
<1> QED BY <1>2, PendingNext, Zenon

\* A step that leaves both tables and what waits.
LEMMA Stutters ==
  ASSUME Base, PutInv, Settled, Base', PutInv', Settled', queue'[cur'] = queue[cur],
         tables'[cur'] = tables[cur], tables'[old'] = tables[old]
  PROVE  UNCHANGED Abs!vars
<1>1. pending' = pending
  BY PendingCur, PendingNext, Zenon
<1> QED BY <1>1, Zenon DEF Abs!vars

\* A call on top is the head.
LEMMA HeadCons ==
  ASSUME NEW f \in Frame, NEW rest \in Seq(Frame)
  PROVE  <<f>> \o rest # <<>> /\ Head(<<f>> \o rest) = f
OBVIOUS

\* The process ends.
LEMMA DieRefines ==
  ASSUME Base, PutInv, Base', PutInv', Die
  PROVE  Abs!Die
<1>1. queue'[cur'] = <<>> /\ UNCHANGED <<tables, cur, old>> /\ stack' = <<>>
  BY PutFrames, Zenon DEF Die, disk
<1>2. pending' = <<>>
  BY <1>1, PendingNext, Zenon DEF Settling
<1> QED BY <1>1, <1>2, Zenon DEF Abs!Die

\* Every step is one of CacheSpec or leaves its variables alone.
LEMMA NextRefines ==
  ASSUME Base, PutInv, Fits, Base', PutInv', [Next]_vars
  PROVE  [Abs!Next]_(Abs!vars)
\* A call in progress moves and changes no table.
<1>MoveRefines. ASSUME Base, PutInv, Base', PutInv', EnterFlush \/ FlushCur \/ ExecPut
      PROVE  Abs!Die \/ UNCHANGED Abs!vars
  <2> USE <1>MoveRefines
  <2>0. /\ TypeOK /\ stack # <<>> /\ \E fn \in {"enter", "flushCur", "flush"} : Top(fn)
    BY Zenon DEF EnterFlush, FlushCur, ExecPut, Top, Base
  <2>1. PICK f \in Frame, rest \in Seq(Frame) :
          f = Head(stack) /\ rest = Tail(stack) /\ f.fn \in {"enter", "flushCur", "flush"}
    BY <2>0, TopPick, Zenon
  <2>2. Settled
    BY <2>0, <2>1, Settles, Zenon DEF Settling
  <2>3. CASE Die
    BY <2>3, DieRefines, Zenon
  <2>4. CASE UNCHANGED <<tables, queue, cur, old>> /\ \E g \in Frame : g.fn # "onfull" /\ stack' = <<g>> \o rest
    <3>1. PICK g \in Frame : g.fn # "onfull" /\ stack' = <<g>> \o rest
      BY <2>4, Zenon
    <3>2. stack' # <<>> /\ Head(stack').fn # "onfull"
      BY <3>1, HeadCons, Zenon
    <3>3. Settled'
      BY <3>2, PendingNext, Zenon DEF Settling
    <3> QED BY <2>2, <2>4, <3>3, Stutters, Zenon
  <2>5. CASE UNCHANGED <<tables, queue, cur, old>> /\ stack' = rest /\ f.fn = "enter"
    <3>1. Enters(f, rest)
      BY <2>0, <2>1, <2>5, TopEnter, Zenon
    <3>2. \/ rest = <<>> \/ rest = <<FlushCurF>> \/ rest = <<ResetF(old)>>
          \/ rest = <<OnfullF(queue[old], Len(queue[old]) + 1), FlushCurF, ResetF(old)>>
      BY <3>1, Zenon DEF Enters, WaitsFor
    <3>3. Settled'
      BY <2>5, <3>2, SettlesNext, Zenon
    <3> QED BY <2>2, <2>5, <3>3, Stutters, Zenon
  <2>6. CASE EnterFlush
    <3>0. f.fn = "enter"
      BY <2>1, <2>6, Zenon DEF EnterFlush, Top
    <3>1. f.env \in Nums
      BY <3>0, FrameParts, Zenon
    <3>2. FlushF(f.env, 1) \in Frame /\ FlushF(f.env, 1).fn = "flush"
      BY <3>1, Frames
    <3> QED BY <2>1, <2>3, <2>4, <2>5, <2>6, <3>0, <3>2, Zenon DEF EnterFlush, disk, envs
  <2>7. CASE FlushCur
    BY <2>1, <2>4, <2>7, PutFrames, Zenon DEF FlushCur, disk, envs
  <2>8. CASE ExecPut
    <3>0. f.fn = "flush"
      BY <2>1, <2>8, Zenon DEF ExecPut, Top
    <3>1. f.env \in Nums /\ f.next + 1 \in Nat \ {0}
      BY <3>0, FrameParts
    <3>2. FlushF(f.env, f.next + 1) \in Frame /\ FlushF(f.env, f.next + 1).fn = "flush"
      BY <3>1, Frames
    <3> QED BY <2>1, <2>4, <2>8, <3>2, Zenon DEF ExecPut, disk, envs
  <2> QED BY <2>6, <2>7, <2>8, Zenon
\* A commit is the flush of all that waits.
<1>CommitRefines. ASSUME Base, PutInv, Base', PutInv', Commit
      PROVE  Abs!Flush
  <2> USE <1>CommitRefines
  <2>0. Top("flush") /\ stack # <<>> /\ TypeOK
    BY Zenon DEF Commit, Top, Base
  <2>1. PICK f \in Frame, rest \in Seq(Frame) : f = Head(stack) /\ rest = Tail(stack) /\ f.fn = "flush"
    BY <2>0, TopPick, Zenon
  <2>2. PICK i \in Nat \ {0} : IsFlush(f, i)
    BY <2>0, <2>1, TopFlush, ZenonT(30)
  <2>3. WaitsFor(rest)
    BY <2>0, <2>1, TopFlush, ZenonT(30)
  <2>4. f.env = cur /\ f.next = i /\ i \in 1..(Len(queue[cur]) + 1)
    BY <2>2, PutFrames
  <2>5. /\ i > Len(queue[cur]) /\ tables' = [tables EXCEPT ![cur] = dirty]
        /\ queue' = [queue EXCEPT ![cur] = <<>>] /\ stack' = rest /\ UNCHANGED <<cur, old>>
    BY <2>1, <2>4, Zenon DEF Commit, envs
  <2>6. cur \in Nums /\ old \in Nums /\ old # cur /\ Len(queue[cur]) \in Nat
    BY PutQueues
  <2>7. /\ tables'[cur] = dirty /\ tables'[old] = tables[old]
        /\ queue'[cur] = <<>> /\ queue'[old] = queue[old]
    BY <2>0, <2>5, <2>6, Zenon DEF TypeOK
  <2>8. dirty = Applied(tables[cur], queue[cur], Len(queue[cur])) /\ queue[cur] # <<>>
    <3>1. i - 1 = Len(queue[cur])
      BY <2>4, <2>5, <2>6
    <3> QED BY <2>2, <3>1, Zenon DEF IsFlush
  <2>9. pending = queue[cur]
    BY <2>0, <2>1, PendingIs, Zenon DEF Settling, Waits
  <2>10. pending' = <<>>
    <3>1. \/ rest = <<>> \/ rest = <<ResetF(old)>>
          \/ rest = <<OnfullF(queue[old], Len(queue[old]) + 1), FlushCurF, ResetF(old)>>
      BY <2>3, Zenon DEF WaitsFor
    <3>2. Settled'
      BY <2>5, <2>7, <3>1, SettlesNext, Zenon
    <3> QED BY <2>5, <2>7, <3>2, PendingNext, Zenon
  <2> QED BY <2>5, <2>7, <2>8, <2>9, <2>10, SameOps, Zenon DEF Abs!Flush
\* A rotation keeps what waits.
<1>RotateRefines. ASSUME Base, PutInv, Fits, Base', PutInv', MapFull
      PROVE  Abs!Rotate
  <2> USE <1>RotateRefines
  <2>0. Top("flush") /\ stack # <<>> /\ TypeOK /\ Head(stack).fn = "flush"
    BY Zenon DEF MapFull, Top, Base
  <2>1. /\ queue[cur] # <<>> /\ Rotate(cur) /\ Replaying(1)'
        /\ tables[cur] # Empty \/ Len(queue[cur]) > MinRoom
    BY MapFullPut, RotatePut, Zenon
  <2>2. old' = cur /\ cur' = cur + 1 /\ UNCHANGED <<tables, queue>> /\ tables'[cur'] = Empty
    BY <2>1, Zenon DEF Rotate, Replaying
  <2>3. pending = queue[cur]
    BY <2>0, PendingIs, Zenon DEF Settling, Waits
  <2>4. pending' = queue[cur]
    BY <2>1, <2>2, PendingNext, Zenon
  <2> QED BY <2>1, <2>2, <2>3, <2>4, SameOps, Zenon DEF Abs!Rotate
\* The replay keeps what waits.
<1>ReplayRefines. ASSUME Base, PutInv, Fits, Base', PutInv', Replay
      PROVE  UNCHANGED Abs!vars
  <2> USE <1>ReplayRefines
  <2>0. Top("onfull") /\ stack # <<>> /\ TypeOK
    BY Zenon DEF Replay, Top, Base
  <2>1. PICK f \in Frame, rest \in Seq(Frame) : f = Head(stack) /\ rest = Tail(stack) /\ f.fn = "onfull"
    BY <2>0, TopPick, Zenon
  <2>2. PICK i \in Nat \ {0} : i = f.next
    BY <2>1, FrameParts, Zenon
  <2>3. /\ Rotating /\ rest = <<FlushCurF, ResetF(old)>> /\ f.ops = queue[old]
        /\ i <= Len(queue[old]) => Replaying(i)
    BY <2>0, <2>1, <2>2, TopOnfull, Zenon
  <2>4. UNCHANGED <<dirs, tables, status, cur, old, by, broken, rotations>>
    BY Zenon DEF Replay, disk, envs, hist
  <2>5. CASE i > Len(queue[old]) /\ stack' = rest /\ UNCHANGED queue
    <3>1. Settled
      <4> SUFFICES ASSUME NEW j \in 1..Len(queue[old]), Replaying(j) PROVE FALSE
        BY Zenon DEF Settled
      <4>1. j \in Nat \ {0} /\ i # j
        BY <2>5, PutFrames
      <4>2. f = OnfullF(queue[old], j)
        BY <2>1, Tops, Zenon DEF Replaying
      <4> QED BY <2>2, <4>1, <4>2, PutFrames, Zenon
    <3>3. Settled'
      BY <2>3, <2>4, <2>5, SettlesNext, Zenon
    <3> QED BY <2>4, <2>5, <3>1, <3>3, Stutters, Zenon
  <2>6. CASE i <= Len(queue[old]) /\ DbCall(queue[old][i], <<OnfullF(queue[old], i + 1)>> \o rest)
    <3>1. /\ queue'[old] = queue[old]
          /\ \/ Replaying(i + 1)'
             \/ stack' # <<>> /\ Head(stack').fn = "enter" /\ queue'[cur] = queue[old]
      BY <2>0, <2>3, <2>4, <2>6, ReplayOne, ZenonT(30)
    <3>2. pending = queue[old]
      BY <2>3, <2>6, PendingOld, Zenon
    <3>3. CASE Replaying(i + 1)'
      <4>1. i + 1 \in Nat
        OBVIOUS
      <4>2. pending' = queue[old]
        BY <2>4, <3>1, <3>3, <4>1, PendingNext, ZenonT(30)
      <4> QED BY <2>4, <3>2, <4>2, Zenon DEF Abs!vars
    <3>4. CASE stack' # <<>> /\ Head(stack').fn = "enter" /\ queue'[cur] = queue[old]
      <4>1. pending' = queue[old]
        BY <2>4, <3>4, PendingNext, Zenon DEF Settling
      <4> QED BY <2>4, <3>2, <4>1 DEF Abs!vars
    <3> QED BY <3>1, <3>3, <3>4, Zenon
  <2> QED BY <2>1, <2>2, <2>3, <2>5, <2>6, Zenon DEF Replay
\* The queue onfull's flush leaves behind does not wait.
<1>ResetRefines. ASSUME Base, PutInv, Base', PutInv', ResetQueue
      PROVE  UNCHANGED Abs!vars
  <2> USE <1>ResetRefines
  <2>0. Top("reset") /\ stack # <<>> /\ TypeOK
    BY Zenon DEF ResetQueue, Top, Base
  <2>1. PICK f \in Frame, rest \in Seq(Frame) : f = Head(stack) /\ rest = Tail(stack) /\ f.fn = "reset"
    BY <2>0, TopPick, Zenon
  <2>2. f.env \in Nums /\ queue' = [queue EXCEPT ![f.env] = <<>>] /\ stack' = rest
        /\ UNCHANGED <<tables, cur, old>>
    BY <2>1, FrameParts, Zenon DEF ResetQueue, disk, envs
  <2>3. f = ResetF(old) /\ rest = <<>> /\ queue[cur] = <<>>
    BY <2>0, <2>1, TopReset, Zenon
  <2>4. queue'[cur'] = queue[cur]
    BY <2>0, <2>2, <2>3, PutFrames, Zenon DEF TypeOK
  <2>5. Settled /\ Settled'
    BY <2>0, <2>1, <2>2, <2>3, Settles, PendingNext, Zenon DEF Settling
  <2> QED BY <2>2, <2>4, <2>5, Stutters, Zenon
\* A put is accepted.
<1>PutRefines. ASSUME Base, PutInv, Base', PutInv', NEW k \in Keys, PutOp(k, puts + 1) \in Op,
             Call(PutOp(k, puts + 1))
      PROVE  Abs!Next
  <2> USE <1>PutRefines
  <2>1. /\ queue'[cur] = Append(queue[cur], PutOp(k, puts + 1)) /\ \A i : ~Replaying(i)'
    BY PutPut, Zenon
  <2>2. stack = <<>> /\ UNCHANGED <<tables, cur, old>>
    BY Zenon DEF Call, Usable, Idle, disk, envs
  <2>3. pending = queue[cur]
    BY <2>2, PendingIs, Zenon DEF Settling, Waits
  <2>4. Settled'
    BY <2>1, Zenon DEF Settled
  <2>5. pending' = Append(pending, PutOp(k, puts + 1))
    BY <2>1, <2>2, <2>3, <2>4, PendingNext, Zenon
  <2>6. Abs!Accept(PutOp(k, puts + 1))
    BY <2>2, <2>5, Zenon DEF Abs!Accept
  <2> QED BY <2>6, SameOps, Zenon DEF Abs!Next
\* The constructor opens the two generations that are there: when a crash left
\* one directory, both are empty.
<1>OpenRefines. ASSUME Base, PutInv, Base', PutInv', OpenCur \/ OpenOld
      PROVE  UNCHANGED Abs!vars
  <2> USE <1>OpenRefines
  <2>0. /\ stack = <<>> /\ stack' = <<>> /\ UNCHANGED <<tables, queue>>
        /\ \A n \in Nums : queue[n] = <<>>
    BY Zenon DEF OpenCur, OpenOld, Base, Quiet
  <2>1. /\ cur \in Nums /\ old \in Nums /\ cur' \in Nums /\ old' \in Nums
        /\ cur \in Nat /\ cur + 1 > cur /\ old # cur
    <3>1. cur \in Nums /\ old \in Nums /\ cur \in Nat /\ cur + 1 > cur /\ old # cur
      BY PutQueues
    <3>2. cur' \in Nums /\ old' \in Nums
      BY Zenon DEF Base, TypeOK
    <3> QED BY <3>1, <3>2, Zenon
  <2>2. Settled /\ Settled' /\ queue'[cur'] = queue[cur]
    BY <2>0, <2>1, Settles, PendingNext, Zenon DEF Settling
  <2>3. CASE cur' = cur /\ old' = old
    BY <2>0, <2>2, <2>3, Stutters, Zenon
  <2>4. CASE dirs = {cur} /\ cur' = cur + 1 /\ old' = cur
    <3>1. tables[cur] = Empty /\ tables[old] = Empty
      BY <2>1, <2>4, Zenon DEF PutInv
    <3>2. tables[cur + 1] = Empty
      BY <2>1, <2>4, Zenon DEF PutInv
    <3> QED BY <2>0, <2>2, <2>4, <3>1, <3>2, Stutters, Zenon
  <2>5. (cur' = cur /\ old' = old) \/ (dirs = {cur} /\ cur' = cur + 1 /\ old' = cur)
    BY ChosenPair, Zenon DEF Base, OpenCur, OpenOld
  <2> QED BY <2>3, <2>4, <2>5, Zenon
\* What the event loop and the application do between calls changes neither
\* generation and nothing that waits.
<1>IdleRefines. ASSUME Base, PutInv, Base', PutInv',
             \/ \E k \in Keys : Get(k)
             \/ Flush \/ RmStale \/ Close \/ \E n \in Nums : CloseDone(n)
             \/ TimerFire
      PROVE  UNCHANGED Abs!vars
  <2> USE <1>IdleRefines
  <2>1. /\ stack = <<>> /\ UNCHANGED <<queue, cur, old>>
        /\ tables'[cur] = tables[cur] /\ tables'[old] = tables[old]
        /\ \/ stack' = <<>> \/ stack' = <<EnterF(old), FlushCurF>>
           \/ timer \in Nums /\ stack' = <<EnterF(timer)>>
    <3>1. CASE \E k \in Keys : Get(k)
      BY <3>1, Zenon DEF Get, Usable, Idle, disk, envs
    <3>2. CASE Flush
      BY <3>2, Zenon DEF Flush, Usable, Idle, disk, envs
    <3>3. CASE RmStale
      BY <3>3, RmStaleKeeps, Zenon
    <3>4. CASE Close \/ \E n \in Nums : CloseDone(n)
      BY <3>4, Zenon DEF Close, CloseDone, Usable, Idle, disk
    <3>5. CASE TimerFire
      BY <3>5, Zenon DEF TimerFire, Idle, disk, envs, Base, TypeOK
    <3> QED BY <3>1, <3>2, <3>3, <3>4, <3>5, Zenon
  <2>2. Settled
    BY <2>1, Settles, Zenon DEF Settling
  <2>3. Settled'
    <3>1. CASE stack' = <<>>
      BY <3>1, PendingNext, Zenon DEF Settling
    <3>2. CASE stack' = <<EnterF(old), FlushCurF>>
      <4>1. EnterF(old).fn # "onfull"
        BY PutFrames, ZenonT(30)
      <4> QED BY <3>2, <4>1, PendingNext, Tops, Zenon DEF Settling
    <3>3. CASE timer \in Nums /\ stack' = <<EnterF(timer)>>
      <4>1. EnterF(timer).fn # "onfull"
        BY <3>3, Frames, Zenon
      <4> QED BY <3>3, <4>1, PendingNext, Tops, Zenon DEF Settling
    <3> QED BY <2>1, <3>1, <3>2, <3>3, Zenon
  <2> QED BY <2>1, <2>2, <2>3, Stutters, Zenon
<1>1. CASE UNCHANGED vars
  <2>1. pending' = pending
    BY <1>1, Zenon DEF vars, pending
  <2> QED BY <1>1, <2>1, Zenon DEF vars, Abs!vars
<1>2. CASE OpenCur \/ OpenOld
  BY <1>2, <1>OpenRefines, Zenon
<1>3. CASE \E k \in Keys : "put" \in Kinds /\ Call(PutOp(k, puts + 1))
  <2>1. PICK k \in Keys : Call(PutOp(k, puts + 1))
    BY <1>3, Zenon
  <2>2. puts + 1 \in Vals
    BY <2>1, ValsAssumption, BoundsAssumption DEF Call, Base, TypeOK
  <2>3. PutOp(k, puts + 1) \in Op
    BY <2>2, OpTypes, Zenon
  <2> QED BY <2>1, <2>3, <1>PutRefines, Zenon
<1>4. CASE \E k \in Keys : "del" \in Kinds /\ Call(DelOp(k))
  BY <1>4, Zenon DEF Fits
<1>5. CASE \/ \E k \in Keys : Get(k)
           \/ Flush \/ RmStale \/ Close \/ \E n \in Nums : CloseDone(n)
           \/ TimerFire
  BY <1>5, <1>IdleRefines, Zenon
<1>6. CASE LoopStep
  <2>1. CASE EnterFlush \/ FlushCur \/ ExecPut
    BY <2>1, <1>MoveRefines, Zenon DEF Abs!Next
  <2>2. CASE Commit
    BY <2>2, <1>CommitRefines, Zenon DEF Abs!Next
  <2>3. CASE Fail
    BY <2>3, FailPut, DieRefines, Zenon DEF Abs!Next
  <2>4. CASE MapFull
    BY <2>4, <1>RotateRefines, Zenon DEF Abs!Next
  <2>5. CASE Replay \/ ResetQueue
    BY <2>5, <1>ReplayRefines, <1>ResetRefines, Zenon
  <2> QED BY <1>6, <2>1, <2>2, <2>3, <2>4, <2>5, NoDel, Zenon DEF LoopStep
<1>7. CASE Crash
  BY <1>7, DieRefines, Zenon DEF Crash, Abs!Next
<1> QED BY <1>1, <1>2, <1>3, <1>4, <1>5, <1>6, <1>7, Zenon DEF Next

\* Nothing waits and both generations are empty.
LEMMA InitRefines ==
  ASSUME Init
  PROVE  Abs!Init
<1>1. Base /\ PutInv
  BY BaseInit, InitPut, Zenon
<1>2. /\ stack = <<>> /\ cur \in Nums /\ old \in Nums
      /\ \A n \in Nums : queue[n] = <<>> /\ tables[n] = Empty
  BY <1>1, PutFrames, Zenon DEF Init
<1>3. pending = <<>>
  BY <1>1, <1>2, PendingIs, Zenon DEF Settling, Waits
<1> QED BY <1>2, <1>3, SameOps, Zenon DEF Abs!Init

\* The same cache is two generations of data (CacheSpec): rotation in the middle
\* of a flush, replay, nested flushes, crashes and restarts lose and reorder
\* nothing that was accepted, other than what a crash finds waiting.
THEOREM TwoGenerationsRefined ==
  ASSUME Fits
  PROVE  Spec => TwoGenerations
<1>1. Init => Abs!Init
  BY InitRefines, Zenon
<1>2. Base /\ Base' /\ PutInv /\ PutInv' /\ [Next]_vars => [Abs!Next]_(Abs!vars)
  BY NextRefines, Zenon
<1> QED BY <1>1, <1>2, BaseAlways, PutAlways, PTL DEF Spec, TwoGenerations, Abs!Spec
=============================================================================
