---- MODULE MCPageViews ----
\* Instance for TLC.  Without symmetry, which TLC does not allow with liveness.
EXTENDS PageViews
====
