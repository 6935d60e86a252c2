----------------------------- MODULE BatchSpec ------------------------------
(***************************************************************************)
(* What a batching LMDB environment promises its application, whatever the *)
(* queue is flushed by: an accepted operation waits in the queue in the    *)
(* order of acceptance; a flush makes the whole queue visible at once and  *)
(* empties it, or does nothing; the application's own transactions are     *)
(* atomic and never overlap a flush; only the death of the process may     *)
(* drop what was accepted, and it drops all of it.                         *)
(***************************************************************************)
EXTENDS BatchOps

CONSTANT Envs

VARIABLES
  store,   \* the committed table of each environment
  queue,   \* accepted operations not committed yet
  view     \* what the application's open write transaction sees: {} when there
           \* is none, {table} when there is one (LMDB allows a single writer)

vars == <<store, queue, view>>

Init ==
  /\ store \in [Envs -> Tables]
  /\ queue = [e \in Envs |-> <<>>]
  /\ view = [e \in Envs |-> {}]

Accept(e, op) ==
  /\ queue' = [queue EXCEPT ![e] = Append(@, op)]
  /\ UNCHANGED <<store, view>>

\* The whole queue takes effect, in order, in one step.
Flush(e) ==
  /\ queue[e] # <<>>
  /\ view[e] = {}
  /\ store' = [store EXCEPT ![e] = Applied(@, queue[e], Len(queue[e]))]
  /\ queue' = [queue EXCEPT ![e] = <<>>]
  /\ UNCHANGED view

\* db.put with no transaction.
Put(e, k, v) ==
  /\ view[e] = {}
  /\ store' = [store EXCEPT ![e] = ApplyOp(@, PutOp(k, v))]
  /\ UNCHANGED <<queue, view>>

Begin(e) ==
  /\ view[e] = {}
  /\ view' = [view EXCEPT ![e] = {store[e]}]
  /\ UNCHANGED <<store, queue>>

TxnPut(e, k, v) ==
  /\ \E table \in view[e] :
       view' = [view EXCEPT ![e] = {ApplyOp(table, PutOp(k, v))}]
  /\ UNCHANGED <<store, queue>>

Commit(e) ==
  /\ \E table \in view[e] : store' = [store EXCEPT ![e] = table]
  /\ view' = [view EXCEPT ![e] = {}]
  /\ UNCHANGED queue

Abort(e) ==
  /\ view[e] # {}
  /\ view' = [view EXCEPT ![e] = {}]
  /\ UNCHANGED <<store, queue>>

Die ==
  /\ queue' = [e \in Envs |-> <<>>]
  /\ view' = [e \in Envs |-> {}]
  /\ UNCHANGED store

Next ==
  \/ \E e \in Envs, op \in Op : Accept(e, op)
  \/ \E e \in Envs : Flush(e) \/ Begin(e) \/ Commit(e) \/ Abort(e)
  \/ \E e \in Envs, k \in Keys, v \in Vals : Put(e, k, v) \/ TxnPut(e, k, v)
  \/ Die

Spec == Init /\ [][Next]_vars
=============================================================================
