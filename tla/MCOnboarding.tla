---- MODULE MCOnboarding ----
\* Instance for TLC: what is of one kind is interchangeable.
EXTENDS Onboarding, TLC
Symmetry == Permutations(Grants) \cup Permutations(Claims) \cup Permutations(Procs)
            \cup Permutations(Handlers) \cup Permutations(Tokens)
====
