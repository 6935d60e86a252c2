------------------------------ MODULE BatchOps ------------------------------
(***************************************************************************)
(* The operations a batch queue holds, and what executing a run of them    *)
(* does to a table.  batchPut and batchDel of lib/lmdb/db.js push records  *)
(* { op, key, val, extra, exec }; exec closes over key and val, so a       *)
(* record's op, key and val determine it.                                  *)
(***************************************************************************)
EXTENDS Integers, Sequences

CONSTANTS
  Keys,    \* sanitized keys
  Vals,    \* sanitized values
  NoVal    \* "no such key" in a table; also the absent val of a 'del' record

ASSUME NoValAssumption == NoVal \notin Vals

Op == [op : {"put", "del"}, key : Keys, val : Vals \cup {NoVal}]

\* The record batchPut pushes.
PutOp(k, v) == [op |-> "put", key |-> k, val |-> v]

\* The record batchDel pushes.
DelOp(k) == [op |-> "del", key |-> k, val |-> NoVal]

\* A named database of an environment: what a committed read returns per key.
Tables == [Keys -> Vals \cup {NoVal}]

-----------------------------------------------------------------------------
(* The effect of the first n operations of a batch, stated without an order *)
(* of execution: a key has the value of the last of them that names it.    *)

IsLastOn(ops, n, k, i) ==
  /\ i \in 1..n
  /\ ops[i].key = k
  /\ \A j \in 1..n : ops[j].key = k => j <= i

Applied(table, ops, n) ==
  [k \in Keys |-> IF \E i \in 1..n : IsLastOn(ops, n, k, i)
                  THEN ops[CHOOSE i \in 1..n : IsLastOn(ops, n, k, i)].val
                  ELSE table[k]]

\* The effect of one operation.
ApplyOp(table, op) == [table EXCEPT ![op.key] = op.val]
=============================================================================
