---- MODULE MCApprovals ----
\* Instance for TLC: applications, handlers and tokens are interchangeable.
EXTENDS Approvals, TLC
Symmetry == Permutations(Apps) \cup Permutations(Handlers) \cup Permutations(Tokens)
====
