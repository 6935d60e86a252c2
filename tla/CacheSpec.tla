----------------------------- MODULE CacheSpec ------------------------------
(***************************************************************************)
(* What the cache promises (README.md:128-129): it holds two generations of *)
(* data.  Accepted operations wait in order and a flush adds all of them   *)
(* to the recent generation at once.  When they may not fit, the older     *)
(* generation is dropped, the recent one becomes the older one, and an     *)
(* empty one takes its place; nothing that waits is lost by that.          *)
(***************************************************************************)
EXTENDS BatchOps

CONSTANT MinRoom  \* records an empty generation takes for certain

VARIABLES recent, older, pending

vars == <<recent, older, pending>>

Empty == [k \in Keys |-> NoVal]

Init == recent = Empty /\ older = Empty /\ pending = <<>>

Accept(op) ==
  /\ pending' = Append(pending, op)
  /\ UNCHANGED <<recent, older>>

Flush ==
  /\ pending # <<>>
  /\ recent' = Applied(recent, pending, Len(pending))
  /\ pending' = <<>>
  /\ UNCHANGED older

Rotate ==
  /\ pending # <<>>
  /\ recent # Empty \/ Len(pending) > MinRoom
  /\ older' = recent
  /\ recent' = Empty
  /\ UNCHANGED pending

\* The process ends: what waits is lost, both generations stay.
Die == pending' = <<>> /\ UNCHANGED <<recent, older>>

Next == (\E op \in Op : Accept(op)) \/ Flush \/ Rotate \/ Die

Spec == Init /\ [][Next]_vars
=============================================================================
