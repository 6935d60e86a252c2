---------------------------- MODULE MCLmdbHandles ---------------------------
(***************************************************************************)
(* LmdbHandles for TLC.                                                    *)
(***************************************************************************)
EXTENDS LmdbHandles
=============================================================================
