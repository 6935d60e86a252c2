----------------------------- MODULE CursorSpec -----------------------------
(***************************************************************************)
(* What a LevelDB cursor promises: it walks, in key order and in either    *)
(* direction, the table as it was when the cursor was made, whatever is    *)
(* written meanwhile.                                                      *)
(*                                                                         *)
(* A table gives each key the number of the write that stored its value,   *)
(* 0 for an absent key.                                                    *)
(***************************************************************************)
EXTENDS Integers

CONSTANTS Keys, Values

VARIABLES
  table,   \* the database
  snap,    \* the table the cursor walks
  at       \* the record the cursor is on, <<key, value>>, or <<>>

vars == <<table, snap, at>>

Init ==
  /\ table = [k \in Keys |-> 0]
  /\ snap = table
  /\ at = <<>>

Write(k, v) ==
  /\ table' = [table EXCEPT ![k] = v]
  /\ UNCHANGED <<snap, at>>

Open ==
  /\ snap' = table
  /\ at' = <<>>
  /\ UNCHANGED table

Live == {k \in Keys : snap[k] # 0}

\* The cursor moves to the least key of S, and to the greatest one.
ToLeast(S) ==
  /\ \/ S = {} /\ at' = <<>>
     \/ \E k \in S : (\A j \in S : k <= j) /\ at' = <<k, snap[k]>>
  /\ UNCHANGED <<table, snap>>

ToGreatest(S) ==
  /\ \/ S = {} /\ at' = <<>>
     \/ \E k \in S : (\A j \in S : j <= k) /\ at' = <<k, snap[k]>>
  /\ UNCHANGED <<table, snap>>

First == ToLeast(Live)

Last == ToGreatest(Live)

Gte(key) == ToLeast({k \in Live : k >= key})

NextKey == at # <<>> /\ ToLeast({k \in Live : k > at[1]})

PrevKey == at # <<>> /\ ToGreatest({k \in Live : k < at[1]})

Next ==
  \/ \E k \in Keys, v \in Values : Write(k, v)
  \/ \E k \in Keys : Gte(k)
  \/ Open \/ First \/ Last \/ NextKey \/ PrevKey

Spec == Init /\ [][Next]_vars
=============================================================================
