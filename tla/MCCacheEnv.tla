----------------------------- MODULE MCCacheEnv -----------------------------
(* CacheEnv for TLC.  Keys that LMDB accepts are interchangeable.          *)
EXTENDS CacheEnv, TLC

Symmetry == Permutations(Keys \ BadKeys)
=============================================================================
