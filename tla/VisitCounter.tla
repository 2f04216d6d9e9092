---- MODULE VisitCounter ----
(***************************************************************************)
(* What the visitor counter promises: visits happen one at a time, each    *)
(* adds one to the page's total and, when its visitor was not known yet,   *)
(* one to the page's visitors, and what it is answered is the result.      *)
(* PageViews implements this specification.                                *)
(***************************************************************************)
EXTENDS Integers

CONSTANTS Pages, Visitors, Anonymous

VARIABLES counts,      \* by page, the totals that the latest visit was answered
          known        \* the visitors of each page

Init ==
  /\ counts = [p \in Pages |-> [total |-> 0, unique |-> 0]]
  /\ known = {}

\* A visitor without an id is nobody's first visit.
FirstVisit(p, v) == v # Anonymous /\ <<p, v>> \notin known

Visit(p, v) ==
  /\ counts' = [counts EXCEPT ![p] =
       [total |-> @.total + 1,
        unique |-> IF FirstVisit(p, v) THEN @.unique + 1 ELSE @.unique]]
  /\ known' = IF FirstVisit(p, v) THEN known \cup {<<p, v>>} ELSE known

Next == \E p \in Pages, v \in Visitors \cup {Anonymous} : Visit(p, v)

Spec == Init /\ [][Next]_<<counts, known>>
====
