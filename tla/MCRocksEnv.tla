----------------------------- MODULE MCRocksEnv -----------------------------
(* RocksEnv for TLC.  Names are interchangeable.                           *)
EXTENDS RocksEnv, TLC

Symmetry == Permutations(Names)
=============================================================================
