---- MODULE MCProvisioning ----
\* Instance for TLC: operations and requests are interchangeable.
EXTENDS Provisioning, TLC
Symmetry == Permutations(Claims) \cup Permutations(Procs)
====
