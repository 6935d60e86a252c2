------------------------------ MODULE CacheEnv ------------------------------
(***************************************************************************)
(* The two-environment cache of lib/cache over lib/lmdb/env.js.            *)
(*                                                                         *)
(* A cache holds a current and an old LMDB environment, one per numbered   *)
(* directory.  When a flush of the current one meets MDB_MAP_FULL, its     *)
(* onfull handler closes the old environment, opens the next directory and *)
(* puts the unflushed records again, through the same batching calls: the  *)
(* handler runs inside flushBatchOps and calls flushBatchOps, so the calls *)
(* in progress are a stack.                                                *)
(*                                                                         *)
(* Values are numbered in the order they are put, so that "older" has a    *)
(* meaning; NoVal is 0.                                                    *)
(***************************************************************************)
EXTENDS BatchOps

CONSTANTS
  BadKeys,    \* keys mdb_put refuses (MDB_BAD_VALSIZE)
  Falsy,      \* values that are falsy in JavaScript (0, the empty string)
  Kinds,      \* the operations the application uses
  BatchSize,  \* the batchSize option
  MinRoom,    \* records an empty environment takes for certain
  IOErrors,   \* whether a commit may fail with EIO
  Crashes,    \* whether the process may be killed
  Closes,     \* whether the application closes the cache
  MaxOps,     \* bound: operations the application makes
  MaxNum      \* bound: directory numbers

ASSUME ValsAssumption == Vals = 1..MaxOps /\ NoVal = 0
ASSUME SizesAssumption == BatchSize \in Nat \ {0} /\ MinRoom \in Nat \ {0}
ASSUME BoundsAssumption == MaxOps \in Nat /\ MaxNum \in Nat /\ MaxNum >= 2

VARIABLES
  dirs,      \* the numbered directories on disk
  tables,    \* committed table of each directory
  status,    \* environment of each directory: "none", "open", "closing", "closed"
  queue,     \* its _batchOps
  cur, old,  \* numbers of _curEnv and _oldEnv
  first,     \* the current environment of this process when it started
  timer,     \* thisArg of the pending debounced flush, 0 when none is set
  stack,     \* calls in progress, innermost first
  by,        \* who made the outermost one: "app" or "timer"
  dirty,     \* the table the open write transaction sees
  proc,      \* "down", "opening", "up", "hung"
  puts,      \* operations accepted
  served,    \* newest value a get has returned, per key
  broken,    \* whether 'This should not happend.' was thrown
  eio,       \* whether a commit has failed with EIO
  rotations  \* rotations during the outermost call

vars == <<dirs, tables, status, queue, cur, old, first, timer, stack, by, dirty,
          proc, puts, served, broken, eio, rotations>>

disk == <<dirs, tables>>
envs == <<status, cur, old, first>>
hist == <<puts, served, broken, eio>>

Nums == 1..MaxNum

\* The calls that can be in progress.
EnterF(e) == [fn |-> "enter", env |-> e]
FlushF(e, i) == [fn |-> "flush", env |-> e, next |-> i]
ResetF(e) == [fn |-> "reset", env |-> e]
OnfullF(ops, i) == [fn |-> "onfull", ops |-> ops, next |-> i]
FlushCurF == [fn |-> "flushCur"]
PushF(e, k) == [fn |-> "push", env |-> e, key |-> k]

Frame ==
  {EnterF(e) : e \in Nums} \cup {ResetF(e) : e \in Nums} \cup {FlushCurF}
    \cup [fn : {"flush"}, env : Nums, next : Nat \ {0}]
    \cup [fn : {"onfull"}, ops : Seq(Op), next : Nat \ {0}]
    \cup [fn : {"push"}, env : Nums, key : Keys]

TypeOK ==
  /\ dirs \subseteq Nums
  /\ tables \in [Nums -> Tables]
  /\ status \in [Nums -> {"none", "open", "closing", "closed"}]
  /\ queue \in [Nums -> Seq(Op)]
  /\ cur \in Nums /\ old \in Nums /\ first \in Nums
  /\ timer \in Nums \cup {0}
  /\ stack \in Seq(Frame)
  /\ by \in {"app", "timer"}
  /\ dirty \in Tables
  /\ proc \in {"down", "opening", "up", "hung"}
  /\ puts \in Nat /\ rotations \in Nat
  /\ served \in [Keys -> Vals \cup {NoVal}]
  /\ broken \in BOOLEAN /\ eio \in BOOLEAN

Empty == [k \in Keys |-> NoVal]

\* Nothing on disk and no process.
Init ==
  /\ dirs = {} /\ tables = [n \in Nums |-> Empty]
  /\ status = [n \in Nums |-> "none"] /\ queue = [n \in Nums |-> <<>>]
  /\ cur = 2 /\ old = 1 /\ first = 2
  /\ timer = 0 /\ stack = <<>> /\ by = "app" /\ dirty = Empty
  /\ proc = "down" /\ puts = 0 /\ rotations = 0
  /\ served = [k \in Keys |-> NoVal] /\ broken = FALSE /\ eio = FALSE

\* The event loop can run the next callback.
Idle == proc = "up" /\ stack = <<>>

\* The application may call the cache.
Usable == Idle /\ status[cur] = "open"

Die ==
  /\ proc' = "down"
  /\ status' = [n \in Nums |-> "none"]
  /\ queue' = [n \in Nums |-> <<>>]
  /\ timer' = 0
  /\ stack' = <<>>
  /\ UNCHANGED <<disk, cur, old, first, by, dirty, puts, served, rotations>>

\* An exception leaves every call in progress: none of them catches what a
\* nested flush or the onfull handler throws.  Nobody catches the timer's.
Throw ==
  \/ /\ by = "app" /\ stack' = <<>>
     /\ UNCHANGED <<disk, envs, queue, timer, by, dirty, proc, puts, served, rotations>>
  \/ by = "timer" /\ Die

-----------------------------------------------------------------------------
(* The constructor: _openEnv opens the current environment, then the old.  *)

Newest(S) == CHOOSE m \in S : \A n \in S : n <= m

\* Mutant: directories are numbered from 0.
ChosenFromZero == <<0, 1>>

\* Mutant: the first two directories, as an order by name could give.
ChosenFirst == <<1, 2>>

\* The directories the constructor opens, <<old, current>>.
Chosen ==
  CASE dirs = {} -> <<1, 2>>
    [] dirs = {Newest(dirs)} -> <<Newest(dirs), Newest(dirs) + 1>>
    [] OTHER -> <<Newest(dirs \ {Newest(dirs)}), Newest(dirs)>>

OpenCur ==
  /\ proc = "down" /\ Chosen[2] \in Nums
  /\ cur' = Chosen[2] /\ old' = Chosen[1] /\ first' = Chosen[2]
  /\ dirs' = dirs \cup {cur'}
  /\ status' = [status EXCEPT ![cur'] = "open"]
  /\ proc' = "opening"
  /\ UNCHANGED <<tables, queue, timer, stack, by, dirty, hist, rotations>>

OpenOld ==
  /\ proc = "opening"
  /\ dirs' = dirs \cup {old}
  /\ status' = [status EXCEPT ![old] = "open"]
  /\ proc' = "up"
  /\ UNCHANGED <<tables, queue, cur, old, first, timer, stack, by, dirty, hist, rotations>>

-----------------------------------------------------------------------------
(* The application's calls and what the event loop runs.                   *)

\* Mutant: the batch is flushed one record late.
PushBatchLate(e, op, rest) ==
  /\ queue' = [queue EXCEPT ![e] = Append(@, op)]
  /\ \/ Len(queue[e]) + 1 > BatchSize /\ stack' = <<EnterF(e)>> \o rest /\ UNCHANGED timer
     \/ Len(queue[e]) + 1 <= BatchSize /\ timer' = e /\ stack' = rest

\* Mutant: the auto-flush is not armed.
PushBatchUnarmed(e, op, rest) ==
  /\ queue' = [queue EXCEPT ![e] = Append(@, op)]
  /\ stack' = IF Len(queue[e]) + 1 >= BatchSize THEN <<EnterF(e)>> \o rest ELSE rest
  /\ UNCHANGED timer

\* _pushBatch of environment e, and then the calls rest.
PushBatch(e, op, rest) ==
  /\ queue' = [queue EXCEPT ![e] = Append(@, op)]
  /\ \/ /\ Len(queue[e]) + 1 >= BatchSize
        /\ stack' = <<EnterF(e)>> \o rest
        /\ UNCHANGED timer
     \/ /\ Len(queue[e]) + 1 < BatchSize
        /\ timer' = e
        /\ stack' = rest

\* Db.put and Db.del of lib/cache/db.js, and then the calls rest; del looks its
\* old environment up before it pushes to the current one.
DbCall(op, rest) ==
  \/ op.op = "put" /\ PushBatch(cur, op, rest)
  \/ op.op = "del" /\ PushBatch(cur, op, <<PushF(old, op.key)>> \o rest)

Call(op) ==
  /\ Usable /\ puts < MaxOps
  /\ DbCall(op, <<>>)
  /\ by' = "app" /\ rotations' = 0 /\ puts' = puts + 1
  /\ UNCHANGED <<disk, envs, dirty, proc, served, broken, eio>>

\* flushBatchOps: the old environment, then the one that is current by then.
Flush ==
  /\ Usable
  /\ stack' = <<EnterF(old), FlushCurF>>
  /\ by' = "app" /\ rotations' = 0
  /\ UNCHANGED <<disk, envs, queue, timer, dirty, proc, hist>>

\* What get returns: curDb.get(key) || oldDb.get(key).
Lookup(k) ==
  IF tables[cur][k] \in Falsy \cup {NoVal} THEN tables[old][k] ELSE tables[cur][k]

Get(k) ==
  /\ Usable
  /\ served' = [served EXCEPT ![k] = IF @ < Lookup(k) THEN Lookup(k) ELSE @]
  /\ UNCHANGED <<disk, envs, queue, timer, stack, by, dirty, proc, puts, broken, eio, rotations>>

\* Mutant: only the newest directory is kept.
RmStaleButOne ==
  /\ Usable
  /\ dirs' = {Newest(dirs)}
  /\ tables' = [n \in Nums |-> IF n \in dirs \ dirs' THEN Empty ELSE tables[n]]
  /\ UNCHANGED <<envs, queue, timer, stack, by, dirty, proc, hist, rotations>>

\* rmStale: all but the three newest directories are removed.
RmStale ==
  /\ Usable
  /\ dirs' = {n \in dirs : ~\E a, b, c \in dirs : n < a /\ a < b /\ b < c}
  /\ tables' = [n \in Nums |-> IF n \in dirs \ dirs' THEN Empty ELSE tables[n]]
  /\ UNCHANGED <<envs, queue, timer, stack, by, dirty, proc, hist, rotations>>

\* close: both environments; what is queued stays queued.
Close ==
  /\ Closes /\ Usable
  /\ status' = [status EXCEPT ![cur] = "closing", ![old] = "closing"]
  /\ UNCHANGED <<disk, queue, cur, old, first, timer, stack, by, dirty, proc, hist, rotations>>

\* The sync of a closing environment is done.
CloseDone(n) ==
  /\ Idle /\ status[n] = "closing"
  /\ status' = [status EXCEPT ![n] = "closed"]
  /\ UNCHANGED <<disk, queue, cur, old, first, timer, stack, by, dirty, proc, hist, rotations>>

TimerFire ==
  /\ Idle /\ timer # 0
  /\ stack' = <<EnterF(timer)>>
  /\ by' = "timer" /\ rotations' = 0 /\ timer' = 0
  /\ UNCHANGED <<disk, envs, queue, dirty, proc, hist>>

-----------------------------------------------------------------------------
(* The calls in progress.                                                  *)

Top(fn) == proc = "up" /\ stack # <<>> /\ Head(stack).fn = fn

\* flushBatchOps of an environment; beginTxn of a closed one ends the process.
EnterFlush ==
  LET e == Head(stack).env IN
  /\ Top("enter")
  /\ \/ /\ queue[e] = <<>>
        /\ stack' = Tail(stack)
        /\ UNCHANGED <<disk, envs, queue, timer, by, dirty, proc, hist, rotations>>
     \/ /\ queue[e] # <<>> /\ status[e] # "closed"
        /\ stack' = <<FlushF(e, 1)>> \o Tail(stack)
        /\ dirty' = tables[e]
        /\ UNCHANGED <<disk, envs, queue, timer, by, proc, hist, rotations>>
     \/ queue[e] # <<>> /\ status[e] = "closed" /\ Die /\ UNCHANGED <<broken, eio>>

FlushCur ==
  /\ Top("flushCur")
  /\ stack' = <<EnterF(cur)>> \o Tail(stack)
  /\ UNCHANGED <<disk, envs, queue, timer, by, dirty, proc, hist, rotations>>

\* oldDb.batchDel(key) of Db.del.
PushOld ==
  /\ Top("push")
  /\ PushBatch(Head(stack).env, DelOp(Head(stack).key), Tail(stack))
  /\ UNCHANGED <<disk, envs, by, dirty, proc, hist, rotations>>

\* A put record can be executed: its key is legal and its db is open.
Sound(e, op) == op.op = "put" /\ op.key \notin BadKeys /\ status[e] = "open"

ExecPut ==
  LET e == Head(stack).env  i == Head(stack).next IN
  /\ Top("flush") /\ i <= Len(queue[e]) /\ Sound(e, queue[e][i])
  /\ dirty' = ApplyOp(dirty, queue[e][i])
  /\ stack' = <<FlushF(e, i + 1)>> \o Tail(stack)
  /\ UNCHANGED <<disk, envs, queue, timer, by, proc, hist, rotations>>

\* A del record waits for the mutex its own flush holds.
ExecDel ==
  LET e == Head(stack).env  i == Head(stack).next IN
  /\ Top("flush") /\ i <= Len(queue[e]) /\ queue[e][i].op = "del"
  /\ proc' = "hung"
  /\ UNCHANGED <<disk, envs, queue, timer, stack, by, dirty, hist, rotations>>

Commit ==
  LET e == Head(stack).env IN
  /\ Top("flush") /\ Head(stack).next > Len(queue[e])
  /\ tables' = [tables EXCEPT ![e] = dirty]
  /\ queue' = [queue EXCEPT ![e] = <<>>]
  /\ stack' = Tail(stack)
  /\ UNCHANGED <<dirs, envs, timer, by, dirty, proc, hist, rotations>>

\* An error other than a full map.
Fail ==
  LET e == Head(stack).env  i == Head(stack).next IN
  /\ Top("flush")
  /\ \/ i <= Len(queue[e]) /\ queue[e][i].op = "put" /\ ~Sound(e, queue[e][i]) /\ UNCHANGED eio
     \/ i > Len(queue[e]) /\ IOErrors /\ eio' = TRUE
  /\ Throw /\ UNCHANGED broken

\* The n-th record of a batch may not fit: LMDB decides, an empty environment
\* takes MinRoom records for certain.
MayFill(e, n) == tables[e] # Empty \/ n > MinRoom

\* Mutant: the records of the batch are not put again.
RotateDrops(e) ==
  /\ cur < MaxNum
  /\ status' = [status EXCEPT ![old] = "closing", ![cur + 1] = "open"]
  /\ old' = cur /\ cur' = cur + 1
  /\ dirs' = dirs \cup {cur'}
  /\ rotations' = rotations + 1
  /\ stack' = <<FlushCurF, ResetF(e)>> \o Tail(stack)
  /\ UNCHANGED <<tables, first, queue, timer, by, dirty, proc, hist>>

\* _rotate, then the replay of the records, then the rest of flushBatchOps.
Rotate(e) ==
  /\ cur < MaxNum
  /\ status' = [status EXCEPT ![old] = "closing", ![cur + 1] = "open"]
  /\ old' = cur /\ cur' = cur + 1
  /\ dirs' = dirs \cup {cur'}
  /\ rotations' = rotations + 1
  /\ stack' = <<OnfullF(queue[e], 1), FlushCurF, ResetF(e)>> \o Tail(stack)
  /\ UNCHANGED <<tables, first, queue, timer, by, dirty, proc, hist>>

\* MDB_MAP_FULL.  The current environment has the rotating handler, one that
\* was rotated away has a handler that throws, the one opened as old has none.
MapFull ==
  LET e == Head(stack).env  i == Head(stack).next IN
  /\ Top("flush")
  /\ \/ i <= Len(queue[e]) /\ Sound(e, queue[e][i]) /\ MayFill(e, i)
     \/ i > Len(queue[e]) /\ MayFill(e, i - 1)
  /\ \/ e = cur /\ Rotate(e)
     \/ e # cur /\ Throw /\ broken' = (broken \/ e >= first) /\ UNCHANGED eio

\* onfull: put the next record again.
Replay ==
  LET ops == Head(stack).ops  i == Head(stack).next IN
  /\ Top("onfull")
  /\ \/ i <= Len(ops) /\ DbCall(ops[i], <<OnfullF(ops, i + 1)>> \o Tail(stack))
     \/ i > Len(ops) /\ stack' = Tail(stack) /\ UNCHANGED <<queue, timer>>
  /\ UNCHANGED <<disk, envs, by, dirty, proc, hist, rotations>>

\* Mutant: the queue is kept.
ResetQueueNot ==
  /\ Top("reset")
  /\ stack' = Tail(stack)
  /\ UNCHANGED <<disk, envs, queue, timer, by, dirty, proc, hist, rotations>>

\* this._batchOps = [] after the handler has returned.
ResetQueue ==
  /\ Top("reset")
  /\ queue' = [queue EXCEPT ![Head(stack).env] = <<>>]
  /\ stack' = Tail(stack)
  /\ UNCHANGED <<disk, envs, timer, by, dirty, proc, hist, rotations>>

-----------------------------------------------------------------------------
Crash == Crashes /\ proc # "down" /\ Die /\ UNCHANGED <<broken, eio>>

LoopStep ==
  \/ EnterFlush \/ FlushCur \/ PushOld \/ ExecPut \/ ExecDel \/ Commit \/ Fail
  \/ MapFull \/ Replay \/ ResetQueue

Next ==
  \/ OpenCur \/ OpenOld
  \/ \E k \in Keys : "put" \in Kinds /\ Call(PutOp(k, puts + 1))
  \/ \E k \in Keys : "del" \in Kinds /\ Call(DelOp(k))
  \/ \E k \in Keys : Get(k)
  \/ Flush \/ RmStale \/ Close
  \/ \E n \in Nums : CloseDone(n)
  \/ TimerFire \/ LoopStep \/ Crash

Spec == Init /\ [][Next]_vars

\* libuv runs a due timer, and a JavaScript call that does not block returns.
FairSpec == Spec /\ WF_vars(TimerFire) /\ WF_vars(LoopStep)

-----------------------------------------------------------------------------
(* Properties.                                                             *)

\* The cache works on the two newest directories, and they exist: rotation,
\* rmStale, and a restart after a crash at any point agree on that.
PairIsNewest ==
  proc = "up" => /\ {cur, old} \subseteq dirs
                 /\ \A n \in dirs : n = cur \/ n <= old
                 /\ old < cur

\* A read never goes back in time: once a get has returned a value of a key, no
\* later get returns an older one, whatever rotated, was refused by LMDB, was
\* replayed or crashed.  (A commit that fails with EIO inside onfull leaves the
\* same records in two queues, and then reads can go back.)
NeverOlder ==
  ~eio => \A k \in Keys : Lookup(k) # NoVal => Lookup(k) >= served[k]

\* A batch that fits an empty environment makes the cache rotate at most once.
RotatesOnce == rotations <= 1

\* The operations that wait, in order: those queued in the current environment,
\* then those the onfull handlers in progress have not put again yet.
pending ==
  LET left[i \in Nat] ==
        IF i > Len(stack) THEN <<>>
        ELSE IF stack[i].fn = "onfull"
             THEN SubSeq(stack[i].ops, stack[i].next, Len(stack[i].ops)) \o left[i + 1]
             ELSE left[i + 1]
  IN queue[cur] \o left[1]

Abs == INSTANCE CacheSpec WITH recent <- tables[cur], older <- tables[old]

\* A cache used with puts only is two generations of data: rotation in the
\* middle of a flush, replay and nested flushes lose and reorder nothing.
TwoGenerations == Abs!Spec

\* What is put is flushed without a further call (README.md:147).
AutoFlush == (pending # <<>>) ~> (pending = <<>>)

\* lib/cache/env.js:59 says of a full map in an old environment: 'This should
\* not happend.'
ShouldNotHappen == ~broken

\* After a flush a get returns the value that was put (test/cache.js:61-63,
\* README.md:147-148), not an older one and not null.
ReadBack ==
  Idle /\ pending = <<>> =>
    \A k \in Keys : tables[cur][k] # NoVal => Lookup(k) = tables[cur][k]
=============================================================================
