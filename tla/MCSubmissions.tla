---- MODULE MCSubmissions ----
\* Instance for TLC: handlers and tokens are interchangeable.
EXTENDS Submissions, TLC
Symmetry == Permutations(Handlers) \cup Permutations(Tokens)
====
