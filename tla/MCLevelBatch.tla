---------------------------- MODULE MCLevelBatch ----------------------------
(* LevelBatch for TLC.  Keys are interchangeable, and so are databases.    *)
EXTENDS LevelBatch, TLC

Symmetry == Permutations(Keys) \cup Permutations(Dbs)
=============================================================================
