---------------------------- MODULE MCLmdbBatch -----------------------------
(* LmdbBatch for TLC.  Keys and values are interchangeable, so the safety  *)
(* runs may identify states up to their permutations.                      *)
EXTENDS LmdbBatch, TLC

Symmetry == Permutations(Keys \ BadKeys) \cup Permutations(Vals)
=============================================================================
