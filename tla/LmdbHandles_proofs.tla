------------------------- MODULE LmdbHandles_proofs -------------------------
(***************************************************************************)
(* The handles of LmdbHandles, for any number of databases, slots and calls *)
(* of sync and close: IInv is inductive, and the safety properties follow.  *)
(***************************************************************************)
EXTENDS LmdbHandles, TLAPS

\* The initial state satisfies the inductive invariant.
LEMMA InitInv == Init => IInv
<1> SUFFICES ASSUME Init PROVE IInv
  OBVIOUS
<1> USE NamesAssumption, MaxDbsAssumption, MaxSyncsAssumption
<1>1. TypeOK
  BY DEF Init, TypeOK, NoWt, Slots, Jobs, Job, JobStates, Past
<1>2. Named /\ SlotKept /\ TxnNames /\ OwnDatabase
  BY DEF Init, Named, SlotKept, TxnNames, OwnDatabase, NoWt
<1>3. AfterClose /\ ClosedIsDurable /\ KeptClosed
  BY DEF Init, AfterClose, ClosedIsDurable, KeptClosed
<1>4. OneJob /\ SyncsOpenEnv
  BY DEF Init, OneJob, SyncsOpenEnv, UnderWay
<1> QED
  BY <1>1, <1>2, <1>3, <1>4 DEF IInv

\* The records of jobs.
LEMMA JobFields ==
  ASSUME NEW r \in Job
  PROVE  r.kind \in {"sync", "close"} /\ r.st \in JobStates /\ r.all \in BOOLEAN
BY DEF Job

\* A record made of such fields is one, and has them.
LEMMA JobRecord ==
  ASSUME NEW k \in {"sync", "close"}, NEW st \in JobStates, NEW a \in BOOLEAN
  PROVE  LET h == [kind |-> k, st |-> st, all |-> a]
         IN  h \in Job /\ h.kind = k /\ h.st = st /\ h.all = a
BY DEF Job

\* A commit leaves the calls of sync and close where they are.
LEMMA WrittenKeeps ==
  ASSUME TypeOK, Written \/ UNCHANGED <<unsynced, jobs>>
  PROVE  /\ jobs' \in [Jobs -> Job]
         /\ unsynced' \in BOOLEAN
         /\ \A j \in Jobs : jobs'[j].st = jobs[j].st /\ jobs'[j].kind = jobs[j].kind
<1>1. CASE Written
  <2> DEFINE h(j) == [kind |-> jobs[j].kind, st |-> jobs[j].st, all |-> FALSE]
  <2>1. ASSUME NEW j \in Jobs
        PROVE  h(j) \in Job /\ h(j).kind = jobs[j].kind /\ h(j).st = jobs[j].st
    <3>1. jobs[j] \in Job
      BY DEF TypeOK
    <3>2. jobs[j].kind \in {"sync", "close"} /\ jobs[j].st \in JobStates /\ FALSE \in BOOLEAN
      BY <3>1, JobFields
    <3> QED
      BY <3>2, JobRecord, Zenon
  <2>2. jobs' = [j \in Jobs |-> h(j)] /\ unsynced' = TRUE
    BY <1>1 DEF Written
  <2> HIDE DEF h
  <2> QED
    BY <2>1, <2>2
<1>2. CASE UNCHANGED <<unsynced, jobs>>
  BY <1>2 DEF TypeOK
<1> QED
  BY <1>1, <1>2

\* Opening a database takes a slot no other Db has.
LEMMA OpenDbStep == ASSUME IInv, NEW d \in Names, OpenDb(d) PROVE IInv'
<1> USE NamesAssumption, MaxDbsAssumption, MaxSyncsAssumption
<1>1. CASE wt.live /\ Hang
  BY <1>1 DEF IInv, Hang, TypeOK, Named, SlotKept, TxnNames, OwnDatabase, AfterClose,
              ClosedIsDurable, KeptClosed, OneJob, SyncsOpenEnv, UnderWay
<1>2. CASE ~wt.live
  <2>1. PICK i \in Slots : FirstFree(i) /\ slots' = [slots EXCEPT ![i] = d]
                           /\ db' = [db EXCEPT ![d].dbi = i]
    BY <1>2 DEF OpenDb, Hang
  <2>2. /\ TypeOK /\ Named /\ SlotKept /\ db[d].dbi = 0 /\ slots[i] = NoName
        /\ wt' = wt /\ me' = me /\ kept' = kept /\ proc' = proc
        /\ past' = past \cup (IF "closing" \in past THEN {"late"} ELSE {})
        /\ Written \/ UNCHANGED <<unsynced, jobs>>
    BY <1>2, <2>1 DEF IInv, OpenDb, FirstFree, Free, Hang
  <2>3. TypeOK'
    <3>1. slots' \in [Slots -> Names \cup {NoName}]
      BY <2>1, <2>2 DEF TypeOK
    <3>2. db' \in [Names -> [dbi : Slots \cup {0}, closed : BOOLEAN]]
      BY <2>1, <2>2 DEF TypeOK
    <3>3. kept' \subseteq {e \in Names : db'[e].dbi # 0}
      BY <2>1, <2>2 DEF TypeOK, Slots
    <3>4. past' \subseteq Past
      BY <2>2 DEF TypeOK, Past
    <3> QED
      BY <2>2, <3>1, <3>2, <3>3, <3>4, WrittenKeeps DEF TypeOK
  <2>4. Named'
    BY <2>1, <2>2 DEF TypeOK, Named, Slots
  <2>5. SlotKept'
    BY <2>1, <2>2 DEF TypeOK, SlotKept, Named, Slots
  <2>6. TxnNames' /\ OwnDatabase'
    BY <1>2, <2>2 DEF TxnNames, OwnDatabase
  <2>7. AfterClose' /\ KeptClosed' /\ ClosedIsDurable'
    BY <2>2 DEF IInv, AfterClose, KeptClosed, ClosedIsDurable, OneJob
  <2>8. OneJob' /\ SyncsOpenEnv'
    BY <2>2, WrittenKeeps DEF IInv, OneJob, SyncsOpenEnv, UnderWay
  <2> QED
    BY <2>3, <2>4, <2>5, <2>6, <2>7, <2>8 DEF IInv
<1> QED
  BY <1>1, <1>2 DEF OpenDb

\* Closing slots keeps the transaction's view of them.
LEMMA CloseSlotsStep ==
  ASSUME IInv, NEW I \in SUBSET Slots, CloseSlots(I)
  PROVE  /\ slots' \in [Slots -> Names \cup {NoName}]
         /\ wt' \in [live : BOOLEAN, names : [Slots -> Names \cup {NoName}],
                     changed : SUBSET Slots, dirty : SUBSET Slots]
         /\ wt'.live = wt.live /\ wt'.names = wt.names /\ wt'.dirty = wt.dirty
         /\ \A i \in Slots : slots'[i] = IF i \in I THEN NoName ELSE slots[i]
         /\ TxnNames'
<1> USE NamesAssumption
<1>1. slots' \in [Slots -> Names \cup {NoName}]
  BY DEF IInv, TypeOK, CloseSlots
<1>2. \A i \in Slots : slots'[i] = IF i \in I THEN NoName ELSE slots[i]
  BY DEF CloseSlots
<1>3. /\ wt' \in [live : BOOLEAN, names : [Slots -> Names \cup {NoName}],
                  changed : SUBSET Slots, dirty : SUBSET Slots]
      /\ wt'.live = wt.live /\ wt'.names = wt.names /\ wt'.dirty = wt.dirty
      /\ wt.live => wt'.changed = wt.changed \cup (I \ Free)
  BY DEF IInv, TypeOK, CloseSlots
<1>4. TxnNames'
  BY <1>2, <1>3 DEF IInv, TxnNames, Free
<1> QED
  BY <1>1, <1>2, <1>3, <1>4

\* The record of a Db after close().
LEMMA HandleClosed ==
  ASSUME NEW A, NEW r \in [dbi : A, closed : BOOLEAN], NEW b \in BOOLEAN
  PROVE  /\ [r EXCEPT !.closed = b] \in [dbi : A, closed : BOOLEAN]
         /\ [r EXCEPT !.closed = b].dbi = r.dbi
         /\ [r EXCEPT !.closed = b].closed = b
<1>1. [r EXCEPT !.closed = b].dbi = r.dbi
  OBVIOUS
<1>2. [r EXCEPT !.closed = b].closed = b
  OBVIOUS
<1>3. [r EXCEPT !.closed = b] = [dbi |-> r.dbi, closed |-> b]
  OBVIOUS
<1>4. [dbi |-> r.dbi, closed |-> b] \in [dbi : A, closed : BOOLEAN]
  OBVIOUS
<1> QED
  BY <1>1, <1>2, <1>3, <1>4

\* db.close() empties the slot of its own database, if it was not closed.
LEMMA CloseDbStep == ASSUME IInv, NEW d \in Names, CloseDb(d) PROVE IInv'
<1> USE NamesAssumption, MaxDbsAssumption
<1>1. /\ TypeOK /\ Named /\ SlotKept /\ OwnDatabase
      /\ db[d].dbi \in Slots /\ CloseSlots({db[d].dbi})
      /\ db' = [db EXCEPT ![d].closed = TRUE] /\ kept' = kept \ {d}
      /\ past' = past \cup (IF db[d].closed THEN {"reclosed"} ELSE {})
      /\ UNCHANGED <<me, unsynced, jobs, proc>>
  BY DEF IInv, TypeOK, CloseDb
<1>2. /\ slots' \in [Slots -> Names \cup {NoName}]
      /\ wt' \in [live : BOOLEAN, names : [Slots -> Names \cup {NoName}],
                  changed : SUBSET Slots, dirty : SUBSET Slots]
      /\ wt'.live = wt.live /\ wt'.names = wt.names /\ wt'.dirty = wt.dirty
      /\ \A i \in Slots : slots'[i] = IF i = db[d].dbi THEN NoName ELSE slots[i]
      /\ TxnNames'
  BY <1>1, CloseSlotsStep
<1>3. /\ db' \in [Names -> [dbi : Slots \cup {0}, closed : BOOLEAN]]
      /\ \A e \in Names : db'[e].dbi = db[e].dbi
      /\ \A e \in Names : db'[e].closed <=> db[e].closed \/ e = d
  <2>1. db' \in [Names -> [dbi : Slots \cup {0}, closed : BOOLEAN]]
    <3> DEFINE Handle == [dbi : Slots \cup {0}, closed : BOOLEAN]
               h == [db[d] EXCEPT !.closed = TRUE]
    <3>1. h \in Handle
      <4>1. db[d] \in [dbi : Slots \cup {0}, closed : BOOLEAN]
        BY <1>1 DEF TypeOK
      <4> QED
        BY <4>1, HandleClosed, Zenon
    <3>2. db \in [Names -> Handle] /\ db' = [db EXCEPT ![d] = h]
      BY <1>1 DEF TypeOK
    <3> HIDE DEF Handle, h
    <3>3. db' \in [Names -> Handle]
      BY <3>1, <3>2
    <3> QED
      BY <3>3 DEF Handle
  <2>2. \A e \in Names : db'[e].dbi = db[e].dbi
    BY <1>1 DEF TypeOK
  <2>3. \A e \in Names : db'[e].closed <=> db[e].closed \/ e = d
    BY <1>1 DEF TypeOK
  <2> QED
    BY <2>1, <2>2, <2>3
<1>4. TypeOK'
  BY <1>1, <1>2, <1>3 DEF TypeOK, Past
<1>5. Named'
  BY <1>1, <1>2, <1>3 DEF Named, TypeOK
<1>6. SlotKept'
  BY <1>1, <1>2, <1>3 DEF SlotKept, TypeOK
<1>7. OwnDatabase'
  <2>1. wt'.live => \A i \in wt'.dirty \ wt'.changed : slots'[i] = wt'.names[i]
    BY <1>2 DEF TxnNames
  <2>2. wt'.live /\ "reclosed" \notin past' =>
          \A e \in Names : db'[e].dbi # 0 /\ ~db'[e].closed => wt'.names[db'[e].dbi] = e
    BY <1>1, <1>2, <1>3 DEF OwnDatabase
  <2> QED
    BY <2>1, <2>2 DEF OwnDatabase
<1>8. AfterClose' /\ ClosedIsDurable' /\ KeptClosed'
  BY <1>1, <1>2 DEF IInv, AfterClose, ClosedIsDurable, KeptClosed, TypeOK
<1>9. OneJob' /\ SyncsOpenEnv'
  BY <1>1 DEF IInv, OneJob, SyncsOpenEnv, UnderWay
<1> QED
  BY <1>2, <1>4, <1>5, <1>6, <1>7, <1>8, <1>9 DEF IInv

\* After close() no slot has a name, so nothing is written.
LEMMA PutStep == ASSUME IInv, NEW d \in Names, Put(d) PROVE IInv'
<1>1. CASE wt.live /\ Hang
  BY <1>1 DEF IInv, Hang, TypeOK, Named, SlotKept, TxnNames, OwnDatabase, AfterClose,
              ClosedIsDurable, KeptClosed, OneJob, SyncsOpenEnv, UnderWay
<1>2. CASE ~wt.live /\ Written
  <2>1. /\ UNCHANGED <<me, slots, db, kept, wt, proc, past>> /\ TypeOK
        /\ db[d].dbi \in Slots /\ slots[db[d].dbi] # NoName /\ me = "open"
    BY <1>2 DEF Put, Hang, Calm, IInv, TypeOK
  <2>2. TypeOK'
    BY <1>2, <2>1, WrittenKeeps DEF TypeOK
  <2>3. Named' /\ SlotKept' /\ TxnNames' /\ OwnDatabase' /\ KeptClosed'
    BY <2>1 DEF IInv, Named, SlotKept, TxnNames, OwnDatabase, KeptClosed
  <2>4. AfterClose' /\ ClosedIsDurable'
    BY <2>1 DEF IInv, AfterClose, ClosedIsDurable, OneJob
  <2>5. OneJob' /\ SyncsOpenEnv'
    BY <1>2, <2>1, WrittenKeeps DEF IInv, OneJob, SyncsOpenEnv, UnderWay
  <2> QED
    BY <2>2, <2>3, <2>4, <2>5 DEF IInv
<1> QED
  BY <1>1, <1>2 DEF Put

\* exists() keeps a cursor only on a slot with a name.
LEMMA ExistsStep == ASSUME IInv, NEW d \in Names, Exists(d) PROVE IInv'
<1>1. /\ UNCHANGED <<me, slots, db, wt, unsynced, jobs, past>> /\ TypeOK /\ me = "open"
      /\ db[d].dbi \in Slots /\ kept' \subseteq kept \cup {d}
      /\ kept' = kept \/ slots[db[d].dbi] # NoName
      /\ proc' \in {"up", "undefined"}
  BY DEF Exists, Calm, IInv, TypeOK
<1>2. TypeOK'
  BY <1>1 DEF TypeOK, Slots
<1>3. Named' /\ SlotKept' /\ TxnNames' /\ OwnDatabase' /\ ClosedIsDurable'
  BY <1>1 DEF IInv, Named, SlotKept, TxnNames, OwnDatabase, ClosedIsDurable
<1>4. AfterClose' /\ KeptClosed'
  BY <1>1 DEF IInv, AfterClose, KeptClosed, OneJob
<1>5. OneJob' /\ SyncsOpenEnv'
  BY <1>1 DEF IInv, OneJob, SyncsOpenEnv, UnderWay
<1> QED
  BY <1>2, <1>3, <1>4, <1>5 DEF IInv

\* The transaction's calls: begin, put, commit and abort.
LEMMA TxnSame ==
  ASSUME IInv, UNCHANGED <<me, slots, db, kept, past>>, proc' = proc,
         Written \/ UNCHANGED <<unsynced, jobs>>
  PROVE  /\ wt' \in [live : BOOLEAN, names : [Slots -> Names \cup {NoName}],
                     changed : SUBSET Slots, dirty : SUBSET Slots]
            /\ (\A i \in wt'.dirty : wt'.names[i] # NoName) => TypeOK'
         /\ Named' /\ SlotKept' /\ KeptClosed' /\ OneJob' /\ SyncsOpenEnv'
<1> USE WrittenKeeps
<1>1. wt' \in [live : BOOLEAN, names : [Slots -> Names \cup {NoName}],
               changed : SUBSET Slots, dirty : SUBSET Slots]
      /\ (\A i \in wt'.dirty : wt'.names[i] # NoName) => TypeOK'
  BY DEF IInv, TypeOK
<1>2. Named' /\ SlotKept' /\ KeptClosed'
  BY DEF IInv, Named, SlotKept, KeptClosed
<1>3. OneJob' /\ SyncsOpenEnv'
  BY DEF IInv, OneJob, SyncsOpenEnv, UnderWay
<1> QED
  BY <1>1, <1>2, <1>3

\* beginTxn copies the slots.
LEMMA BeginTxnStep == ASSUME IInv, BeginTxn PROVE IInv'
<1>1. CASE wt.live /\ Hang
  BY <1>1 DEF IInv, Hang, TypeOK, Named, SlotKept, TxnNames, OwnDatabase, AfterClose,
              ClosedIsDurable, KeptClosed, OneJob, SyncsOpenEnv, UnderWay
<1>2. CASE ~wt.live
  <2>1. /\ UNCHANGED <<me, slots, db, kept, unsynced, jobs, proc, past>>
        /\ wt' = [live |-> TRUE, names |-> slots, changed |-> {}, dirty |-> {}]
    BY <1>2 DEF BeginTxn
  <2>2. TypeOK' /\ Named' /\ SlotKept' /\ KeptClosed' /\ OneJob' /\ SyncsOpenEnv'
    BY <2>1, TxnSame DEF IInv, TypeOK
  <2>3. TxnNames' /\ OwnDatabase'
    BY <2>1 DEF IInv, TxnNames, OwnDatabase, SlotKept
  <2>4. AfterClose' /\ ClosedIsDurable'
    BY <2>1 DEF IInv, AfterClose, ClosedIsDurable
  <2> QED
    BY <2>2, <2>3, <2>4 DEF IInv
<1> QED
  BY <1>1, <1>2 DEF BeginTxn

\* A put in the transaction marks a slot that had a name when it began.
LEMMA TxnPutStep == ASSUME IInv, NEW d \in Names, TxnPut(d) PROVE IInv'
<1>1. /\ UNCHANGED <<me, slots, db, kept, unsynced, jobs, proc, past>>
      /\ TypeOK /\ db[d].dbi \in Slots /\ wt.names[db[d].dbi] # NoName
      /\ wt' = [wt EXCEPT !.dirty = @ \cup {db[d].dbi}]
  BY DEF IInv, TypeOK, TxnPut
<1>2. /\ wt' \in [live : BOOLEAN, names : [Slots -> Names \cup {NoName}],
                  changed : SUBSET Slots, dirty : SUBSET Slots]
      /\ \A i \in wt'.dirty : wt'.names[i] # NoName
      /\ wt'.live = wt.live /\ wt'.names = wt.names /\ wt'.changed = wt.changed
  BY <1>1 DEF TypeOK
<1>3. TypeOK' /\ Named' /\ SlotKept' /\ KeptClosed' /\ OneJob' /\ SyncsOpenEnv'
  BY <1>1, <1>2, TxnSame
<1>4. TxnNames'
  BY <1>1, <1>2 DEF IInv, TxnNames
<1>5. OwnDatabase'
  BY <1>1, <1>2, <1>4 DEF IInv, OwnDatabase, TxnNames
<1>6. AfterClose' /\ ClosedIsDurable'
  BY <1>1 DEF IInv, AfterClose, ClosedIsDurable
<1> QED
  BY <1>3, <1>4, <1>5, <1>6 DEF IInv

\* The end of the transaction; a commit that writes does so on named slots.
LEMMA EndTxnStep == ASSUME IInv, Commit \/ Abort PROVE IInv'
<1> USE NamesAssumption
<1>1. /\ UNCHANGED <<me, slots, db, kept, proc, past>> /\ wt' = NoWt /\ me = "open" /\ wt.live
      /\ \/ UNCHANGED <<unsynced, jobs>>
         \/ Written /\ wt.dirty # {} /\ wt.dirty \cap wt.changed = {}
  BY DEF Commit, Abort, Calm
<1>2. TypeOK' /\ Named' /\ SlotKept' /\ KeptClosed' /\ OneJob' /\ SyncsOpenEnv'
  <2>1. /\ wt' \in [live : BOOLEAN, names : [Slots -> Names \cup {NoName}],
                    changed : SUBSET Slots, dirty : SUBSET Slots]
        /\ \A i \in wt'.dirty : wt'.names[i] # NoName
    BY <1>1 DEF NoWt
  <2> QED
    BY <1>1, <2>1, TxnSame
<1>3. TxnNames' /\ OwnDatabase'
  BY <1>1 DEF NoWt, TxnNames, OwnDatabase
<1>4. AfterClose' /\ ClosedIsDurable'
  <2>1. CASE UNCHANGED <<unsynced, jobs>>
    BY <1>1, <2>1 DEF IInv, AfterClose, ClosedIsDurable
  <2>2. CASE Written /\ wt.dirty # {} /\ wt.dirty \cap wt.changed = {}
    <3>1. \E i \in Slots : slots[i] # NoName
      BY <1>1, <2>2 DEF IInv, TypeOK, TxnNames
    <3> QED
      BY <1>1, <3>1 DEF IInv, AfterClose, ClosedIsDurable, OneJob
  <2> QED
    BY <1>1, <2>1, <2>2
<1> QED
  BY <1>2, <1>3, <1>4 DEF IInv

\* A call of sync or close takes the next job, which the flag tells of overlap.
LEMMA QueueStep ==
  ASSUME TypeOK, OneJob, NEW kind \in {"sync", "close"}, Queue(kind)
  PROVE  /\ jobs' \in [Jobs -> Job]
         /\ \E j \in Jobs :
              /\ jobs'[j].kind = kind /\ jobs'[j].st = "queued"
              /\ \A i \in Jobs \ {j} : jobs'[i] = jobs[i]
         /\ "overlap" \notin past \cup Overlap => UnderWay = {} /\ \A i, j \in UnderWay' : i = j
<1> DEFINE h == [kind |-> kind, st |-> "queued", all |-> FALSE]
<1>1. PICK j \in Jobs : jobs[j].st = "idle" /\ jobs' = [jobs EXCEPT ![j] = h]
  BY DEF Queue
<1>2. h \in Job /\ h.kind = kind /\ h.st = "queued"
  BY DEF Job, JobStates
<1>3. /\ jobs' \in [Jobs -> Job]
      /\ jobs'[j].kind = kind /\ jobs'[j].st = "queued"
      /\ \A i \in Jobs \ {j} : jobs'[i] = jobs[i]
  <2> HIDE DEF h
  <2> QED
    BY <1>1, <1>2 DEF TypeOK
<1>4. "overlap" \notin past \cup Overlap => UnderWay = {}
  BY DEF Overlap
<1>5. UnderWay = {} => \A i, k \in UnderWay' : i = k
  BY <1>3 DEF UnderWay
<1> QED
  BY <1>3, <1>4, <1>5

\* env.sync().
LEMMA SyncStep == ASSUME IInv, Sync PROVE IInv'
<1>1. /\ UNCHANGED <<me, slots, db, kept, wt, unsynced, proc>> /\ me = "open"
      /\ past' = past \cup Overlap /\ past \subseteq past'
      /\ \A p \in Past \ {"overlap"} : p \in past' <=> p \in past
      /\ past' \subseteq Past
  BY DEF Sync, Calm, IInv, TypeOK, Overlap, Past
<1>2. /\ jobs' \in [Jobs -> Job]
      /\ "overlap" \notin past' => \A i, j \in UnderWay' : i = j
  BY <1>1, QueueStep DEF Sync, IInv
<1>3. PICK j \in Jobs : /\ jobs'[j].kind = "sync" /\ jobs'[j].st = "queued"
                        /\ \A i \in Jobs \ {j} : jobs'[i] = jobs[i]
  BY QueueStep DEF Sync, IInv
<1>4. TypeOK'
  BY <1>1, <1>2 DEF IInv, TypeOK
<1>5. Named' /\ SlotKept' /\ TxnNames' /\ OwnDatabase'
  BY <1>1 DEF IInv, Named, SlotKept, TxnNames, OwnDatabase, Past
<1>6. AfterClose'
  BY <1>1, <1>3 DEF IInv, AfterClose, Past
<1>7. ClosedIsDurable' /\ KeptClosed'
  BY <1>1 DEF IInv, ClosedIsDurable, KeptClosed, Past
<1>8. OneJob'
  BY <1>1, <1>2, <1>3 DEF IInv, OneJob, Past
<1>9. SyncsOpenEnv'
  BY <1>1 DEF SyncsOpenEnv
<1> QED
  BY <1>4, <1>5, <1>6, <1>7, <1>8, <1>9 DEF IInv

\* env.close() leaves no slot with a name.
LEMMA CloseEnvStep == ASSUME IInv, CloseEnv PROVE IInv'
<1> USE NamesAssumption
<1> DEFINE I == {db[d].dbi : d \in Opened}
<1>1. /\ UNCHANGED <<me, unsynced, proc>> /\ me = "open" /\ kept' = {}
      /\ past' = past \cup Overlap \cup {"closing"}
      /\ \A p \in Past \ {"overlap", "closing"} : p \in past' <=> p \in past
      /\ past' \subseteq Past /\ "closing" \in past'
      /\ "overlap" \in past' <=> "overlap" \in past \cup Overlap
      /\ CloseSlots(I) /\ I \in SUBSET Slots
  BY DEF CloseEnv, Calm, IInv, TypeOK, Overlap, Past, Opened
<1>2. /\ slots' \in [Slots -> Names \cup {NoName}]
      /\ wt' \in [live : BOOLEAN, names : [Slots -> Names \cup {NoName}],
                  changed : SUBSET Slots, dirty : SUBSET Slots]
      /\ wt'.live = wt.live /\ wt'.names = wt.names /\ wt'.dirty = wt.dirty
      /\ \A i \in Slots : slots'[i] = IF i \in I THEN NoName ELSE slots[i]
      /\ TxnNames'
  <2> HIDE DEF I
  <2> QED
    BY <1>1, CloseSlotsStep
<1>3. \A i \in Slots : slots'[i] = NoName
  BY <1>2 DEF IInv, TypeOK, Named, Opened, Slots
<1>4. /\ db' \in [Names -> [dbi : Slots \cup {0}, closed : BOOLEAN]]
      /\ \A e \in Names : db'[e].dbi = db[e].dbi
      /\ \A e \in Names : db'[e].dbi # 0 => db'[e].closed
  <2>1. ASSUME NEW e \in Names
        PROVE  LET h == [db[e] EXCEPT !.closed = @ \/ e \in Opened]
               IN  /\ h \in [dbi : Slots \cup {0}, closed : BOOLEAN]
                   /\ h.dbi = db[e].dbi
                   /\ e \in Opened => h.closed
    <3> DEFINE b == db[e].closed \/ e \in Opened
    <3>1. db[e] \in [dbi : Slots \cup {0}, closed : BOOLEAN] /\ b \in BOOLEAN
      BY DEF IInv, TypeOK
    <3>2. e \in Opened => b
      OBVIOUS
    <3> HIDE DEF b
    <3>3. /\ [db[e] EXCEPT !.closed = b] \in [dbi : Slots \cup {0}, closed : BOOLEAN]
          /\ [db[e] EXCEPT !.closed = b].dbi = db[e].dbi
          /\ [db[e] EXCEPT !.closed = b].closed = b
      BY <3>1, HandleClosed, Zenon
    <3> QED
      BY <3>2, <3>3, Zenon DEF b
  <2>2. \A e \in Names : db'[e] = [db[e] EXCEPT !.closed = @ \/ e \in Opened]
    BY DEF CloseEnv
  <2>3. \A e \in Names : db'[e].dbi = db[e].dbi
    BY <2>1, <2>2, Zenon
  <2>4. \A e \in Names : e \in Opened => db'[e].closed
    BY <2>1, <2>2, Zenon
  <2> QED
    BY <2>1, <2>3, <2>4 DEF CloseEnv, Opened
<1>5. /\ jobs' \in [Jobs -> Job]
      /\ "overlap" \notin past' => \A i, j \in UnderWay' : i = j
  BY <1>1, QueueStep DEF CloseEnv, IInv
<1>6. PICK j \in Jobs : /\ jobs'[j].kind = "close" /\ jobs'[j].st = "queued"
                        /\ \A i \in Jobs \ {j} : jobs'[i] = jobs[i]
  BY QueueStep DEF CloseEnv, IInv
<1>7. TypeOK'
  BY <1>1, <1>2, <1>4, <1>5 DEF IInv, TypeOK
<1>8. Named' /\ SlotKept'
  BY <1>3, <1>4 DEF Named, SlotKept
<1>9. OwnDatabase'
  BY <1>2, <1>4, <1>7 DEF OwnDatabase, TxnNames, TypeOK
<1>10. ClosedIsDurable' /\ KeptClosed'
  BY <1>1 DEF IInv, ClosedIsDurable, KeptClosed, Past
<1>11. OneJob' /\ SyncsOpenEnv'
  BY <1>1, <1>5 DEF OneJob, SyncsOpenEnv
<1>12. AfterClose'
  BY <1>1, <1>3, <1>6 DEF IInv, AfterClose, OneJob, Past
<1> QED
  BY <1>2, <1>7, <1>8, <1>9, <1>10, <1>11, <1>12 DEF IInv

\* A thread enters or leaves mdb_env_sync: job j moves from one state to the next.
LEMMA JobMoves ==
  ASSUME TypeOK, NEW j \in Jobs, NEW st \in JobStates, NEW all \in BOOLEAN,
         Moves(j, st, all)
  PROVE  /\ jobs' \in [Jobs -> Job]
         /\ jobs'[j].st = st /\ jobs'[j].all = all /\ jobs'[j].kind = jobs[j].kind
         /\ \A i \in Jobs \ {j} : jobs'[i] = jobs[i]
<1> DEFINE h == [kind |-> jobs[j].kind, st |-> st, all |-> all]
<1>1. jobs \in [Jobs -> Job] /\ jobs[j] \in Job
  BY DEF TypeOK
<1>2. jobs' = [jobs EXCEPT ![j] = h]
  BY DEF Moves
<1>3. h \in Job /\ h.kind = jobs[j].kind /\ h.st = st /\ h.all = all
  <2>1. jobs[j].kind \in {"sync", "close"}
    BY <1>1, JobFields
  <2> QED
    BY <2>1, JobRecord, Zenon
<1> HIDE DEF h
<1> QED
  BY <1>1, <1>2, <1>3

\* The sync of a close() that starts covers all that was committed.
LEMMA StartStep == ASSUME IInv, NEW j \in Jobs, Start(j) PROVE IInv'
<1>1. UNCHANGED <<me, slots, db, kept, wt, unsynced, past>> /\ jobs[j].st = "queued"
  BY DEF Start
<1>2. Named' /\ SlotKept' /\ TxnNames' /\ OwnDatabase' /\ ClosedIsDurable' /\ KeptClosed'
  BY <1>1 DEF IInv, Named, SlotKept, TxnNames, OwnDatabase, ClosedIsDurable, KeptClosed
<1>3. CASE me = "open"
  <2>1. /\ jobs' \in [Jobs -> Job]
        /\ jobs'[j].st = "running" /\ jobs'[j].all = TRUE /\ jobs'[j].kind = jobs[j].kind
        /\ \A i \in Jobs \ {j} : jobs'[i] = jobs[i]
    BY <1>3, JobMoves DEF Start, IInv, JobStates
  <2>2. TypeOK'
    BY <1>1, <1>3, <2>1 DEF Start, IInv, TypeOK
  <2>3. AfterClose'
    BY <1>1, <2>1 DEF IInv, AfterClose
  <2>4. OneJob' /\ SyncsOpenEnv'
    BY <1>1, <1>3, <2>1 DEF IInv, OneJob, SyncsOpenEnv, UnderWay
  <2> QED
    BY <1>2, <2>2, <2>3, <2>4 DEF IInv
<1>4. CASE me = "freed"
  <2>1. jobs' = jobs /\ proc' = "undefined"
    BY <1>4 DEF Start
  <2>2. TypeOK' /\ AfterClose' /\ OneJob' /\ SyncsOpenEnv'
    BY <1>1, <2>1 DEF IInv, TypeOK, AfterClose, OneJob, SyncsOpenEnv, UnderWay
  <2> QED
    BY <1>2, <2>2 DEF IInv
<1> QED
  BY <1>3, <1>4 DEF IInv, TypeOK

\* fdatasync returns; a failure is remembered.
LEMMA FinishStep == ASSUME IInv, NEW j \in Jobs, Finish(j) PROVE IInv'
<1>1. UNCHANGED <<me, slots, db, kept, wt, proc>> /\ jobs[j].st = "running"
  BY DEF Finish
<1>2. CASE /\ Moves(j, "ok", FALSE)
           /\ unsynced' = (unsynced /\ ~jobs[j].all)
           /\ UNCHANGED past
  <2>1. /\ jobs' \in [Jobs -> Job]
        /\ jobs'[j].st = "ok" /\ jobs'[j].kind = jobs[j].kind
        /\ \A i \in Jobs \ {j} : jobs'[i] = jobs[i]
    BY <1>2, JobMoves DEF IInv, JobStates
  <2>2. unsynced' \in BOOLEAN /\ (unsynced' => unsynced /\ ~jobs[j].all)
    BY <1>2
  <2>3. TypeOK'
    BY <1>1, <1>2, <2>1, <2>2 DEF IInv, TypeOK
  <2>4. Named' /\ SlotKept' /\ TxnNames' /\ OwnDatabase' /\ ClosedIsDurable' /\ KeptClosed'
    BY <1>1, <1>2, <2>2
       DEF IInv, Named, SlotKept, TxnNames, OwnDatabase, ClosedIsDurable, KeptClosed
  <2>5. AfterClose'
    BY <1>1, <1>2, <2>1, <2>2 DEF IInv, AfterClose
  <2>6. OneJob' /\ SyncsOpenEnv'
    BY <1>1, <1>2, <2>1 DEF IInv, OneJob, SyncsOpenEnv, UnderWay
  <2> QED
    BY <2>3, <2>4, <2>5, <2>6 DEF IInv
<1>3. CASE /\ Moves(j, "failed", FALSE)
           /\ past' = past \cup {"failed"}
           /\ UNCHANGED unsynced
  <2>1. /\ jobs' \in [Jobs -> Job]
        /\ jobs'[j].st = "failed" /\ jobs'[j].kind = jobs[j].kind
        /\ \A i \in Jobs \ {j} : jobs'[i] = jobs[i]
    BY <1>3, JobMoves DEF IInv, JobStates
  <2>2. TypeOK'
    BY <1>1, <1>3, <2>1 DEF IInv, TypeOK, Past
  <2>3. Named' /\ SlotKept' /\ TxnNames' /\ OwnDatabase' /\ ClosedIsDurable' /\ KeptClosed'
    BY <1>1, <1>3 DEF IInv, Named, SlotKept, TxnNames, OwnDatabase, ClosedIsDurable, KeptClosed
  <2>4. AfterClose'
    BY <1>1, <1>3, <2>1 DEF IInv, AfterClose
  <2>5. OneJob' /\ SyncsOpenEnv'
    BY <1>1, <1>3, <2>1 DEF IInv, OneJob, SyncsOpenEnv, UnderWay
  <2> QED
    BY <2>2, <2>3, <2>4, <2>5 DEF IInv
<1> QED
  BY <1>2, <1>3 DEF Finish

\* The callback of close() frees an environment whose sync is over.
LEMMA CallbackStep == ASSUME IInv, NEW j \in Jobs, Callback(j) PROVE IInv'
<1>1. /\ UNCHANGED <<slots, db, kept, wt, unsynced, proc>> /\ jobs[j].st \in {"ok", "failed"}
      /\ past \subseteq past' /\ past' \subseteq past \cup {"closed"} /\ past' \subseteq Past
      /\ me' \in {"open", "freed"}
      /\ past' # past => jobs[j].kind = "close"
  BY DEF Callback, IInv, TypeOK, Past
<1>2. /\ jobs' \in [Jobs -> Job]
      /\ jobs'[j].st = "called" /\ jobs'[j].kind = jobs[j].kind
      /\ \A i \in Jobs \ {j} : jobs'[i] = jobs[i]
  BY JobMoves DEF Callback, IInv, JobStates
<1>3. TypeOK'
  BY <1>1, <1>2 DEF IInv, TypeOK
<1>4. Named' /\ SlotKept' /\ TxnNames' /\ OwnDatabase'
  BY <1>1 DEF IInv, Named, SlotKept, TxnNames, OwnDatabase
<1>5. AfterClose'
  BY <1>1, <1>2 DEF IInv, AfterClose
<1>6. ClosedIsDurable' /\ KeptClosed'
  BY <1>1 DEF IInv, ClosedIsDurable, KeptClosed, AfterClose, OneJob
<1>7. OneJob'
  BY <1>1, <1>2 DEF IInv, OneJob, UnderWay
<1>8. SyncsOpenEnv'
  BY <1>1, <1>2 DEF IInv, SyncsOpenEnv, OneJob, UnderWay
<1> QED
  BY <1>3, <1>4, <1>5, <1>6, <1>7, <1>8 DEF IInv

\* Collecting the environment under a running sync counts as overlap.
LEMMA CollectStep == ASSUME IInv, Collect PROVE IInv'
<1>1. /\ UNCHANGED <<slots, db, kept, wt, unsynced, jobs, proc>> /\ me' = "freed"
      /\ past' = past \cup Overlap /\ past' \subseteq Past
      /\ \A p \in Past \ {"overlap"} : p \in past' <=> p \in past
      /\ "overlap" \notin past' => "overlap" \notin past /\ UnderWay = {}
  BY DEF Collect, IInv, TypeOK, Overlap, Past
<1>2. TypeOK'
  BY <1>1 DEF IInv, TypeOK
<1>3. Named' /\ SlotKept' /\ TxnNames' /\ OwnDatabase' /\ AfterClose' /\ ClosedIsDurable' /\ KeptClosed'
  BY <1>1 DEF IInv, Named, SlotKept, TxnNames, OwnDatabase, AfterClose, ClosedIsDurable, KeptClosed, Past
<1>4. OneJob' /\ SyncsOpenEnv'
  BY <1>1 DEF IInv, OneJob, SyncsOpenEnv, UnderWay, Past
<1> QED
  BY <1>2, <1>3, <1>4 DEF IInv

\* Every step keeps the inductive invariant.
LEMMA StepInv == IInv /\ [Next]_vars => IInv'
<1> SUFFICES ASSUME IInv, [Next]_vars PROVE IInv'
  OBVIOUS
<1>1. CASE UNCHANGED vars
  BY <1>1 DEF vars, IInv, TypeOK, Named, SlotKept, TxnNames, OwnDatabase, AfterClose,
              ClosedIsDurable, KeptClosed, OneJob, SyncsOpenEnv, UnderWay
<1>2. CASE UseFreed
  BY <1>2 DEF UseFreed, IInv, TypeOK, Named, SlotKept, TxnNames, OwnDatabase, AfterClose,
              ClosedIsDurable, KeptClosed, OneJob, SyncsOpenEnv, UnderWay
<1> QED
  BY <1>1, <1>2, OpenDbStep, CloseDbStep, PutStep, ExistsStep, BeginTxnStep, TxnPutStep,
     EndTxnStep, SyncStep, CloseEnvStep, StartStep, FinishStep, CallbackStep, CollectStep DEF Next

\* The inductive invariant holds in every reachable state.
THEOREM HandlesInv == Spec => []IInv
BY InitInv, StepInv, PTL DEF Spec

\* No other database gets into the slot of an open Db (mdb_dbi_open and
\* mdb_dbi_close, under any sequence of openDb and close).
THEOREM HandlesSlotKept == Spec => []SlotKept
<1>1. IInv => SlotKept
  BY DEF IInv
<1> QED
  BY <1>1, HandlesInv, PTL

\* A transaction writes to the databases its Dbs were opened for, and commits
\* no root under another name.
THEOREM HandlesOwnDatabase == Spec => []OwnDatabase
<1>1. IInv => OwnDatabase
  BY DEF IInv
<1> QED
  BY <1>1, HandlesInv, PTL

\* When the callback of env.close() has run, every commit is on disk.
THEOREM HandlesDurable == Spec => []ClosedIsDurable
<1>1. IInv => ClosedIsDurable
  BY DEF IInv
<1> QED
  BY <1>1, HandlesInv, PTL

\* No thread syncs a freed environment if calls of sync and close do not overlap.
THEOREM HandlesSyncsOpenEnv == Spec => []SyncsOpenEnv
<1>1. IInv => SyncsOpenEnv
  BY DEF IInv
<1> QED
  BY <1>1, HandlesInv, PTL

\* The cursors exists() keeps do not outlive env.close().
THEOREM HandlesKeptClosed == Spec => []KeptClosed
<1>1. IInv => KeptClosed
  BY DEF IInv
<1> QED
  BY <1>1, HandlesInv, PTL
=============================================================================
