---------------------------- MODULE MCLmdbCursor ----------------------------
(***************************************************************************)
(* LmdbCursor for TLC.                                                     *)
(***************************************************************************)
EXTENDS LmdbCursor, TLC

\* The cursors are alike.
CursorSymmetry == Permutations(Cursors)
=============================================================================
