---- MODULE MCFileStore ----
\* Instance for TLC: tokens, calls and temporary names are interchangeable.
EXTENDS FileStore, TLC
Symmetry == Permutations(Tokens) \cup Permutations(Calls) \cup Permutations(TempNames)
====
