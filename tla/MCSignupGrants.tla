---- MODULE MCSignupGrants ----
\* Instance for TLC: operations and requests are interchangeable.
EXTENDS SignupGrants, TLC
Symmetry == Permutations(Claims) \cup Permutations(Procs)
====
