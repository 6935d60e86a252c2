-------------------------- MODULE RocksEnv_proofs ---------------------------
(***************************************************************************)
(* Proofs about RocksEnv, for any set of names.                            *)
(***************************************************************************)
EXTENDS RocksEnv, TLAPS

USE NamesAssumption DEF Families

\* The lists of families of a new process.
LEMMA NewLists == <<Default>> \in Seq(Families) /\ <<>> \in Seq(Families)
OBVIOUS

\* A Db that is not registered.
LEMMA NewDbs ==
  [n \in Names |-> NoDb] \in [Names -> [made : BOOLEAN, idx : Nat, cf : Families \cup {NoCf}]]
BY DEF NoDb

\* A new process has nothing registered.
LEMMA InitInv == Init => IInv
<1> SUFFICES ASSUME Init PROVE IInv
  OBVIOUS
<1>1. TypeOK
  BY NewLists, NewDbs DEF Init, TypeOK
<1>2. Indexed
  BY DEF Init, Indexed, NoDb
<1>3. OwnHandle /\ OwnBatch /\ Isolation /\ ~isOpen
  BY DEF Init, OwnHandle, OwnBatch, Isolation, NoDb
<1> QED BY <1>1, <1>2, <1>3 DEF IInv

\* The end of the process.
LEMMA DieInv == IInv /\ Die => IInv'
BY DEF Die, IInv, TypeOK, Indexed, OwnHandle, OwnBatch, Isolation, Registered

\* A new process: only the disk remains.
LEMMA RestartInv == IInv /\ Restart => IInv'
<1> SUFFICES ASSUME IInv, Restart PROVE IInv'
  OBVIOUS
<1>1. TypeOK'
  BY NewLists, NewDbs DEF Restart, IInv, TypeOK
<1>2. Indexed'
  BY DEF Restart, Indexed, NoDb
<1>3. OwnHandle' /\ OwnBatch' /\ Isolation' /\ ~isOpen'
  BY DEF Restart, IInv, OwnHandle, OwnBatch, Isolation, NoDb
<1> QED BY <1>1, <1>2, <1>3 DEF IInv

\* registerDb appends the name at the index it returns and moves no other.
LEMMA RegisterInv ==
  ASSUME IInv, NEW n \in Names, registerDb(n)
  PROVE  IInv'
<1>1. desc \in Seq(Families) /\ Len(desc) \in Nat /\ desc # <<>>
  BY DEF IInv, TypeOK, Indexed
<1>2. /\ desc' = Append(desc, n)
      /\ dbs' = [dbs EXCEPT ![n] = [made |-> TRUE, idx |-> Len(desc), cf |-> NoCf]]
      /\ UNCHANGED <<handles, isOpen, batch, timer, proc, disk, written, early>>
  BY DEF registerDb, NewDb
<1>3. /\ desc' \in Seq(Families) /\ Len(desc') = Len(desc) + 1
      /\ desc'[Len(desc) + 1] = n
      /\ \A i \in 1..Len(desc) : desc'[i] = desc[i]
  BY <1>1, <1>2
<1>4. TypeOK'
  BY <1>1, <1>2, <1>3 DEF IInv, TypeOK
<1>5. Indexed'
  <2>1. desc' # <<>> /\ desc'[1] = Default
    BY <1>1, <1>3 DEF IInv, Indexed
  <2>2. ASSUME NEW m \in Names, dbs'[m].made
        PROVE  dbs'[m].idx + 1 \in 1..Len(desc') /\ desc'[dbs'[m].idx + 1] = m
    <3>1. CASE m = n
      BY <1>1, <1>2, <1>3, <3>1 DEF IInv, TypeOK
    <3>2. CASE m # n
      <4>1. dbs'[m] = dbs[m]
        BY <1>2, <3>2 DEF IInv, TypeOK
      <4>2. dbs[m].idx + 1 \in 1..Len(desc) /\ desc[dbs[m].idx + 1] = m
        BY <2>2, <4>1 DEF IInv, Indexed
      <4> QED BY <1>1, <1>3, <4>1, <4>2
    <3> QED BY <3>1, <3>2
  <2> QED BY <2>1, <2>2 DEF Indexed
<1>6. OwnHandle' /\ OwnBatch' /\ Isolation' /\ (isOpen' => Default \in disk')
  BY <1>2 DEF IInv, TypeOK, OwnHandle, OwnBatch, Isolation
<1> QED BY <1>4, <1>5, <1>6 DEF IInv

\* env.open gives every registered Db the handle of its own family.
LEMMA OpenOkInv == IInv /\ OpenOk => IInv'
<1> SUFFICES ASSUME IInv, OpenOk PROVE IInv'
  OBVIOUS
<1>1. desc \in Seq(Families) /\ Len(desc) \in Nat /\ desc # <<>>
  BY DEF IInv, TypeOK, Indexed
<1>2. Registered \subseteq Families /\ Default \in Registered
  BY <1>1 DEF IInv, Indexed, Registered
<1>3. ASSUME NEW n \in Names, dbs[n].made
      PROVE  /\ dbs'[n] = [dbs[n] EXCEPT !.cf = n]
             /\ n \in Registered
  <2>1. dbs[n].idx + 1 \in 1..Len(desc) /\ desc[dbs[n].idx + 1] = n
    BY <1>3 DEF IInv, Indexed
  <2>2. HandleAt(desc, dbs[n].idx) = n
    BY <2>1 DEF HandleAt
  <2> QED BY <1>3, <2>1, <2>2 DEF OpenOk, Registered
<1>4. ASSUME NEW n \in Names, ~dbs[n].made
      PROVE  dbs'[n] = dbs[n]
  BY <1>4 DEF OpenOk
<1>5. /\ dbs' \in [Names -> [made : BOOLEAN, idx : Nat, cf : Families \cup {NoCf}]]
      /\ \A n \in Names : dbs'[n].made = dbs[n].made /\ dbs'[n].idx = dbs[n].idx
  <2>1. \A n \in Names : dbs[n] \in [made : BOOLEAN, idx : Nat, cf : Families \cup {NoCf}]
    BY DEF IInv, TypeOK
  <2>2. dbs' = [n \in Names |-> dbs'[n]]
    BY DEF OpenOk
  <2>3. ASSUME NEW n \in Names
        PROVE  /\ dbs'[n] \in [made : BOOLEAN, idx : Nat, cf : Families \cup {NoCf}]
               /\ dbs'[n].made = dbs[n].made /\ dbs'[n].idx = dbs[n].idx
    <3>1. dbs[n] \in [made : BOOLEAN, idx : Nat, cf : Families \cup {NoCf}]
      BY <2>1
    <3>2. CASE dbs[n].made
      <4>1. dbs'[n] = [dbs[n] EXCEPT !.cf = n]
        BY <1>3, <3>2
      <4> QED BY <3>1, <4>1
    <3>3. CASE ~dbs[n].made
      BY <1>4, <3>1, <3>3
    <3> QED BY <3>2, <3>3
  <2> QED BY <2>2, <2>3
<1>6. TypeOK'
  BY <1>1, <1>2, <1>5 DEF OpenOk, IInv, TypeOK
<1>7. Indexed'
  BY <1>5 DEF OpenOk, IInv, Indexed
<1>8. OwnHandle'
  <2> SUFFICES ASSUME NEW n \in Names
               PROVE  dbs'[n].cf \in {NoCf, n} /\ (dbs'[n].cf = n => n \in disk')
    BY DEF OwnHandle
  <2>1. dbs[n] \in [made : BOOLEAN, idx : Nat, cf : Families \cup {NoCf}]
    BY DEF IInv, TypeOK
  <2>2. CASE dbs[n].made
    BY <1>3, <2>1, <2>2 DEF OpenOk
  <2>3. CASE ~dbs[n].made
    BY <1>4, <2>3 DEF OpenOk, IInv, OwnHandle
  <2> QED BY <2>2, <2>3
<1>9. OwnBatch' /\ Isolation' /\ Default \in disk'
  BY <1>2 DEF OpenOk, IInv, OwnBatch, Isolation
<1> QED BY <1>6, <1>7, <1>8, <1>9 DEF IInv

\* A failed open takes no handle away from a Db and removes no family.
LEMMA OpenFailsInv == IInv /\ OpenFails => IInv'
<1> SUFFICES ASSUME IInv, OpenFails PROVE IInv'
  OBVIOUS
<1>1. desc \in Seq(Families) /\ Len(desc) \in Nat
  BY DEF IInv, TypeOK
<1>2. disk \subseteq disk' /\ disk' \subseteq Families
  BY <1>1 DEF OpenFails, IInv, TypeOK
<1>3. TypeOK'
  BY <1>2 DEF OpenFails, IInv, TypeOK
<1>4. Indexed' /\ OwnHandle' /\ OwnBatch' /\ Isolation' /\ (isOpen' => Default \in disk')
  BY <1>2 DEF OpenFails, IInv, Indexed, OwnHandle, OwnBatch, Isolation
<1> QED BY <1>3, <1>4 DEF IInv

\* put and del without a batch.
LEMMA WriteInv ==
  ASSUME IInv, NEW n \in Names, Write(n)
  PROVE  IInv'
<1>1. CASE Die
  BY <1>1, DieInv
<1>2. CASE /\ dbs[n].cf # NoCf
           /\ written' = [written EXCEPT ![dbs[n].cf] = @ \cup {n}]
           /\ UNCHANGED <<desc, handles, isOpen, dbs, batch, timer, proc, disk, early>>
  <2>1. dbs[n].cf = n
    BY <1>2 DEF IInv, OwnHandle
  <2>2. TypeOK' /\ Isolation'
    BY <1>2, <2>1 DEF IInv, TypeOK, Isolation
  <2>3. Indexed' /\ OwnHandle' /\ OwnBatch' /\ (isOpen' => Default \in disk')
    BY <1>2 DEF IInv, Indexed, OwnHandle, OwnBatch
  <2> QED BY <2>2, <2>3 DEF IInv
<1> QED BY <1>1, <1>2 DEF Write

\* What the write of a batch does to the families and to the batches, when its
\* records are for the Db's own family or, batched early, for the default.
LEMMA WriteBatchInv ==
  ASSUME IInv, NEW n \in Names, NEW ops, WriteBatch(n, ops),
         ops \subseteq {n, Default}, n \in ops => n \in disk, disk' = disk,
         Default \in ops => n \in early', early \subseteq early'
  PROVE  /\ batch' \in [Names -> SUBSET Families]
         /\ written' \in [Families -> SUBSET Names]
         /\ OwnBatch' /\ Isolation'
<1>1. /\ batch \in [Names -> SUBSET Families]
      /\ written \in [Families -> SUBSET Names]
  BY DEF IInv, TypeOK
<1>2. batch' = [batch EXCEPT ![n] = {}] \/ batch' = [batch EXCEPT ![n] = ops]
  BY DEF WriteBatch
<1>3. batch' \in [Names -> SUBSET Families] /\ OwnBatch'
  BY <1>1, <1>2 DEF IInv, OwnBatch
<1>4. written' \in [Families -> SUBSET Names] /\ Isolation'
  BY <1>1 DEF WriteBatch, IInv, Isolation
<1> QED BY <1>3, <1>4

\* batchPut and batchDel.
LEMMA BatchOpInv ==
  ASSUME IInv, NEW n \in Names, BatchOp(n)
  PROVE  IInv'
<1> DEFINE ops == batch[n] \cup {BatchFamily(n)}
<1>1. /\ early' = IF dbs[n].cf = NoCf THEN early \cup {n} ELSE early
      /\ UNCHANGED <<desc, handles, isOpen, dbs, disk>>
  BY DEF BatchOp
<1>2. /\ ops \subseteq {n, Default}
      /\ n \in ops => n \in disk
      /\ Default \in ops => n \in early'
      /\ early \subseteq early' /\ early' \subseteq Names
  BY <1>1 DEF IInv, TypeOK, OwnHandle, OwnBatch, BatchFamily
<1>3. /\ batch' \in [Names -> SUBSET Families]
      /\ written' \in [Families -> SUBSET Names]
      /\ OwnBatch' /\ Isolation'
      /\ timer' \in Names \cup {NoCf} /\ proc' \in {"up", "down"}
  <2>1. CASE batch' = [batch EXCEPT ![n] = ops] /\ timer' = n /\ UNCHANGED <<proc, written>>
    <3> HIDE DEF ops
    <3>1. batch' \in [Names -> SUBSET Families] /\ OwnBatch'
      BY <1>1, <1>2, <2>1 DEF IInv, TypeOK, OwnBatch
    <3> QED BY <1>2, <2>1, <3>1 DEF IInv, TypeOK, Isolation
  <2>2. CASE WriteBatch(n, ops) /\ UNCHANGED <<timer, proc>>
    <3> HIDE DEF ops
    <3> QED BY <1>1, <1>2, <2>2, WriteBatchInv DEF IInv, TypeOK
  <2>3. CASE proc' = "down" /\ UNCHANGED <<batch, timer, written>>
    BY <1>1, <1>2, <2>3 DEF IInv, TypeOK, OwnBatch, Isolation
  <2> QED BY <2>1, <2>2, <2>3 DEF BatchOp
<1>4. TypeOK'
  BY <1>1, <1>2, <1>3 DEF IInv, TypeOK
<1>5. Indexed' /\ OwnHandle' /\ (isOpen' => Default \in disk')
  BY <1>1 DEF IInv, Indexed, OwnHandle
<1> QED BY <1>3, <1>4, <1>5 DEF IInv

\* flushBatchOps.
LEMMA FlushInv ==
  ASSUME IInv, NEW n \in Names, Flush(n)
  PROVE  IInv'
<1>1. CASE Die
  BY <1>1, DieInv
<1>2. CASE /\ WriteBatch(n, batch[n])
           /\ UNCHANGED <<desc, handles, isOpen, dbs, timer, proc, disk, early>>
  <2>1. /\ batch' \in [Names -> SUBSET Families]
        /\ written' \in [Families -> SUBSET Names]
        /\ OwnBatch' /\ Isolation'
    BY <1>2, WriteBatchInv DEF IInv, OwnBatch
  <2>2. TypeOK' /\ Indexed' /\ OwnHandle' /\ (isOpen' => Default \in disk')
    BY <1>2, <2>1 DEF IInv, TypeOK, Indexed, OwnHandle
  <2> QED BY <2>1, <2>2 DEF IInv
<1> QED BY <1>1, <1>2 DEF Flush

\* The auto-flush.
LEMMA TimerInv == IInv /\ TimerFire => IInv'
<1> SUFFICES ASSUME IInv, TimerFire PROVE IInv'
  OBVIOUS
<1>1. timer \in Names /\ timer' = NoCf /\ UNCHANGED <<desc, handles, isOpen, dbs, disk, early>>
  BY DEF TimerFire, IInv, TypeOK
<1>2. /\ batch' \in [Names -> SUBSET Families]
      /\ written' \in [Families -> SUBSET Names]
      /\ OwnBatch' /\ Isolation' /\ proc' \in {"up", "down"}
  <2>1. CASE WriteBatch(timer, batch[timer]) /\ UNCHANGED proc
    BY <1>1, <2>1, WriteBatchInv DEF IInv, OwnBatch, TypeOK
  <2>2. CASE proc' = "down" /\ UNCHANGED <<written, batch>>
    BY <1>1, <2>2 DEF IInv, TypeOK, OwnBatch, Isolation
  <2> QED BY <2>1, <2>2 DEF TimerFire, WriteBatch
<1>3. TypeOK' /\ Indexed' /\ OwnHandle' /\ (isOpen' => Default \in disk')
  BY <1>1, <1>2 DEF IInv, TypeOK, Indexed, OwnHandle
<1> QED BY <1>2, <1>3 DEF IInv

\* Every step preserves the invariant.
LEMMA NextInv == IInv /\ [Next]_vars => IInv'
<1> SUFFICES ASSUME IInv, [Next]_vars PROVE IInv'
  OBVIOUS
<1>1. CASE UNCHANGED vars
  BY <1>1 DEF vars, IInv, TypeOK, Indexed, OwnHandle, OwnBatch, Isolation
<1>2. CASE Crash
  BY <1>2, DieInv DEF Crash
<1> QED BY <1>1, <1>2, RegisterInv, WriteInv, BatchOpInv, FlushInv, OpenOkInv, OpenFailsInv,
           TimerInv, RestartInv DEF Next

\* The inductive invariant holds in every reachable state.
THEOREM Invariance == Spec => []IInv
BY InitInv, NextInv, PTL DEF Spec

\* Type correctness; in particular init never reads past the list of handles.
THEOREM TypeCorrect == Spec => []TypeOK
<1>1. IInv => TypeOK
  BY DEF IInv
<1> QED BY <1>1, Invariance, PTL

\* The records of two registered databases never share a column family.
THEOREM DatabasesDoNotMix == Spec => []Isolation
<1>1. IInv => Isolation
  BY DEF IInv
<1> QED BY <1>1, Invariance, PTL

\* While the environment is open, what is batched is for families that exist.
THEOREM FamiliesExist == Spec => []FamilyExists
<1>1. IInv => FamilyExists
  <2> SUFFICES ASSUME IInv, isOpen, NEW n \in Names
               PROVE  batch[n] \cup {BatchFamily(n)} \subseteq disk
    BY DEF FamilyExists
  <2>1. Default \in disk
    BY DEF IInv
  <2>2. batch[n] \subseteq disk
    BY <2>1 DEF IInv, OwnBatch
  <2>3. BatchFamily(n) \in disk
    BY <2>1 DEF IInv, OwnHandle, BatchFamily
  <2> QED BY <2>2, <2>3
<1> QED BY <1>1, Invariance, PTL
\* A step that is no registration, open or restart leaves what OpenIsComplete
\* is about.
LEMMA CompleteFrame ==
  ASSUME Listed, OpenIsComplete, UNCHANGED <<desc, isOpen, dbs, disk>>
  PROVE  Listed' /\ OpenIsComplete'
BY DEF Listed, OpenIsComplete, Registered

\* A registration while the environment is open is of a family that is not on
\* disk; an open makes every family and every handle.
LEMMA CompleteStep ==
  ASSUME IInv, Listed, OpenIsComplete, [Next]_vars
  PROVE  Listed' /\ OpenIsComplete'
<1>1. desc \in Seq(Families) /\ Len(desc) \in Nat /\ desc # <<>>
      /\ dbs \in [Names -> [made : BOOLEAN, idx : Nat, cf : Families \cup {NoCf}]]
  BY DEF IInv, TypeOK, Indexed
<1>2. ASSUME NEW n \in Names, registerDb(n) PROVE Listed' /\ OpenIsComplete'
  <2>1. /\ desc' = Append(desc, n) /\ ~dbs[n].made
        /\ dbs' = [dbs EXCEPT ![n] = [made |-> TRUE, idx |-> Len(desc), cf |-> NoCf]]
        /\ isOpen' = isOpen /\ disk' = disk
    BY <1>2 DEF registerDb, NewDb
  <2>2. Registered' = Registered \cup {n}
    <3>1. /\ Len(desc') = Len(desc) + 1 /\ desc'[Len(desc) + 1] = n
          /\ \A i \in 1..Len(desc) : desc'[i] = desc[i]
      BY <1>1, <2>1
    <3>2. 1..Len(desc') = (1..Len(desc)) \cup {Len(desc) + 1}
      BY <1>1, <3>1
    <3> QED BY <3>1, <3>2 DEF Registered
  <2>3. n \notin Registered
    BY <2>1 DEF Listed
  <2>4. dbs'[n].made /\ \A m \in Names : m # n => dbs'[m] = dbs[m]
    BY <1>1, <2>1
  <2>5. Listed'
    BY <2>2, <2>4 DEF Listed
  <2>6. OpenIsComplete'
    BY <2>1, <2>2, <2>3, <2>4 DEF OpenIsComplete
  <2> QED BY <2>5, <2>6
<1>3. CASE OpenOk
  <2>1. desc' = desc /\ disk' = disk \cup Registered /\ disk \subseteq Registered
        /\ Registered' = Registered
    BY <1>3 DEF OpenOk, CanOpen, Registered
  <2>2. ASSUME NEW n \in Names PROVE dbs'[n].made = dbs[n].made /\ (dbs[n].made => dbs'[n].cf = n)
    <3>1. dbs[n] \in [made : BOOLEAN, idx : Nat, cf : Families \cup {NoCf}]
      BY <1>1
    <3>2. CASE dbs[n].made
      <4>1. dbs[n].idx + 1 \in 1..Len(desc) /\ desc[dbs[n].idx + 1] = n
        BY <3>2 DEF IInv, Indexed
      <4>2. HandleAt(desc, dbs[n].idx) = n
        BY <4>1 DEF HandleAt
      <4>3. dbs'[n] = [dbs[n] EXCEPT !.cf = n]
        BY <1>3, <3>2, <4>2 DEF OpenOk
      <4> QED BY <3>1, <4>3
    <3>3. CASE ~dbs[n].made
      BY <1>3, <3>3 DEF OpenOk
    <3> QED BY <3>2, <3>3
  <2>3. Listed'
    BY <2>1, <2>2 DEF Listed
  <2>4. OpenIsComplete'
    BY <2>1, <2>2 DEF OpenIsComplete
  <2> QED BY <2>3, <2>4
<1>4. CASE OpenFails
  <2>1. desc' = desc /\ dbs' = dbs /\ isOpen' = isOpen
    BY <1>4 DEF OpenFails
  <2>2. isOpen => disk' = disk
    BY <1>4 DEF OpenFails, CanOpen
  <2> QED BY <2>1, <2>2 DEF Listed, OpenIsComplete, Registered
<1>5. CASE Restart
  <2>1. desc' = <<Default>> /\ isOpen' = FALSE
    BY <1>5 DEF Restart
  <2>2. Registered' = {Default}
    BY <2>1 DEF Registered
  <2> QED BY <2>1, <2>2 DEF Listed, OpenIsComplete
<1>6. CASE UNCHANGED <<desc, isOpen, dbs, disk>>
  BY <1>6, CompleteFrame
<1>7. ASSUME NEW n \in Names, Write(n) \/ BatchOp(n) \/ Flush(n)
      PROVE  UNCHANGED <<desc, isOpen, dbs, disk>>
  BY <1>7 DEF Write, BatchOp, Flush, Die
<1>8. TimerFire \/ Crash \/ UNCHANGED vars => UNCHANGED <<desc, isOpen, dbs, disk>>
  BY DEF TimerFire, Crash, Die, vars
<1> QED BY <1>2, <1>3, <1>4, <1>5, <1>6, <1>7, <1>8 DEF Next

\* A successful open leaves no registered Db without its handle and no family
\* without a Db, whatever registrations, failed opens and restarts came before.
THEOREM OpensCompletely == Spec => []OpenIsComplete
<1>1. Init => Listed /\ OpenIsComplete
  <2> SUFFICES ASSUME Init PROVE Listed /\ OpenIsComplete
    OBVIOUS
  <2>1. Registered = {Default} /\ ~isOpen
    BY DEF Init, Registered
  <2> QED BY <2>1 DEF Listed, OpenIsComplete
<1>2. IInv /\ (Listed /\ OpenIsComplete) /\ [Next]_vars => (Listed /\ OpenIsComplete)'
  BY CompleteStep
<1> QED BY <1>1, <1>2, Invariance, PTL DEF Spec
=============================================================================
