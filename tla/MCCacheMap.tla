----------------------------- MODULE MCCacheMap -----------------------------
EXTENDS CacheMap, TLC

BothOptions == {<<TRUE, 0>>, <<FALSE, 1>>}
NoBatch == {<<FALSE, 0>>}

\* Keys that are read in the same way may be exchanged.
Symm == Permutations(Readers) \cup Permutations(Loaders) \cup Permutations(Items)
        \cup Permutations(GetKeys \ ManyKeys) \cup Permutations(ManyKeys \ GetKeys)
        \cup Permutations(GetKeys \cap ManyKeys)
=============================================================================
