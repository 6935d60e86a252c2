----------------------------- MODULE MCLmdbTxn ------------------------------
(* LmdbTxn for TLC.                                                        *)
EXTENDS LmdbTxn, TLC

Symmetry == Permutations(Txns) \cup Permutations(Keys) \cup Permutations(Vals)
=============================================================================
