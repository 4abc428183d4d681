----------------------------- MODULE MCDataCache -----------------------------
EXTENDS DataCache, TLC

Symm == Permutations(Readers) \cup Permutations(Loaders)
=============================================================================
