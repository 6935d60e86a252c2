----------------------------- MODULE MCKvTypes ------------------------------
(***************************************************************************)
(* KvTypes for TLC.                                                        *)
(***************************************************************************)
EXTENDS KvTypes
=============================================================================
