---- MODULE PageViews ----
(***************************************************************************)
(* The visitor counter: Service.Record of internal/pageviews, whose        *)
(* transaction Store.RecordVisit runs statement by statement at READ       *)
(* COMMITTED, and Service.Get.                                             *)
(*                                                                         *)
(* A statement sees what has committed before it and what its own          *)
(* transaction wrote.  An INSERT ... ON CONFLICT DO NOTHING waits for an   *)
(* uncommitted row with its key; an INSERT of a visitor holds a KEY SHARE  *)
(* lock on the counter it references until its transaction ends; an UPDATE *)
(* of a counter waits for another transaction's UPDATE of it, not for KEY  *)
(* SHARE locks, because it changes no key.                                 *)
(***************************************************************************)
EXTENDS Sequences, FiniteSets, Integers

CONSTANTS Pages,          \* normalized page paths
          Visitors,       \* trimmed visitor ids
          Anonymous,      \* the empty visitor id
          Handlers,       \* requests served at the same time, on any replica
          MaxVisits,      \* bound of the model: committed visits of a page
          NoCounter,      \* no row of page_view_counters
          Idle            \* a handler that serves no request

VARIABLES counters,       \* page_view_counters, committed
          visitors,       \* page_view_visitors, committed
          handlers,       \* the requests being served and their transactions
          visits          \* history: by page, the visitors of the committed visits

vars == <<counters, visitors, handlers, visits>>

ASSUME PageViewsAssumption == Anonymous \notin Visitors /\ MaxVisits \in Nat

Counter == [total : Nat, unique : Nat]
Steps   == {"counter", "visitor", "update", "commit"}

\* `inserted`: the transaction inserted the page's counter; `isNew`: it inserted
\* the visitor; `seen`: what its SELECT read, which is what it wrote.
Request == [step : Steps, page : Pages, visitor : Visitors \cup {Anonymous},
            inserted : BOOLEAN, isNew : BOOLEAN, seen : Counter]
Zero    == [total |-> 0, unique |-> 0]

ASSUME PageViewsNullsAssumption == NoCounter \notin Counter /\ Idle \notin Request

TypeOK ==
  /\ counters \in [Pages -> Counter \cup {NoCounter}]
  /\ visitors \in SUBSET (Pages \X Visitors)
  /\ handlers \in [Handlers -> Request \cup {Idle}]
  /\ visits \in [Pages -> Seq(Visitors \cup {Anonymous})]

Init ==
  /\ counters = [p \in Pages |-> NoCounter]
  /\ visitors = {}
  /\ handlers = [h \in Handlers |-> Idle]
  /\ visits = [p \in Pages |-> <<>>]

At(h, step) == handlers[h] # Idle /\ handlers[h].step = step

\* The other transactions on page p.
Others(h, p) == {g \in Handlers \ {h} : handlers[g] # Idle /\ handlers[g].page = p}

----
(* Waiting for locks.                                                     *)

\* Fault: the UPDATE changes the key and waits for KEY SHARE locks too.
WaitsForWithKeyUpdate(h) ==
  LET r == handlers[h] IN
  {g \in Others(h, r.page) :
     \/ r.step = "counter" /\ handlers[g].inserted
     \/ r.step = "visitor" /\ handlers[g].isNew /\ handlers[g].visitor = r.visitor
     \/ r.step = "update" /\ (handlers[g].step = "commit" \/ handlers[g].isNew)}

\* The open transactions that the next statement of h waits for: the one that
\* inserted the page's counter, the one that inserted the same visitor, and the
\* one that updated the counter.
WaitsFor(h) ==
  LET r == handlers[h] IN
  {g \in Others(h, r.page) :
     \/ r.step = "counter" /\ handlers[g].inserted
     \/ r.step = "visitor" /\ handlers[g].isNew /\ handlers[g].visitor = r.visitor
     \/ r.step = "update" /\ handlers[g].step = "commit"}

----
(* RecordVisit.                                                           *)

RecordVisit(h, p, v) ==
  /\ handlers[h] = Idle
  /\ Len(visits[p]) < MaxVisits
  /\ handlers' = [handlers EXCEPT ![h] =
       [step |-> "counter", page |-> p, visitor |-> v,
        inserted |-> FALSE, isNew |-> FALSE, seen |-> Zero]]
  /\ UNCHANGED <<counters, visitors, visits>>

\* INSERT INTO page_view_counters ... ON CONFLICT DO NOTHING.
InsertCounter(h) ==
  LET r == handlers[h] IN
  /\ At(h, "counter")
  /\ WaitsFor(h) = {}
  /\ handlers' = [handlers EXCEPT ![h] =
       [r EXCEPT !.step = "visitor", !.inserted = counters[r.page] = NoCounter]]
  /\ UNCHANGED <<counters, visitors, visits>>

\* Fault: the visitor is looked up first, and an uncommitted one is not seen.
InsertVisitorUnserialised(h) ==
  LET r == handlers[h] IN
  /\ At(h, "visitor")
  /\ handlers' = [handlers EXCEPT ![h] =
       [r EXCEPT !.step = "update",
                 !.isNew = r.visitor # Anonymous /\ <<r.page, r.visitor>> \notin visitors]]
  /\ UNCHANGED <<counters, visitors, visits>>

\* INSERT INTO page_view_visitors ... ON CONFLICT DO NOTHING, for a request
\* with a visitor id; RowsAffected tells whether the visitor is new.
InsertVisitor(h) ==
  LET r == handlers[h] IN
  /\ At(h, "visitor")
  /\ WaitsFor(h) = {}
  /\ handlers' = [handlers EXCEPT ![h] =
       [r EXCEPT !.step = "update",
                 !.isNew = r.visitor # Anonymous /\ <<r.page, r.visitor>> \notin visitors]]
  /\ UNCHANGED <<counters, visitors, visits>>

Counted(c, isNew) == [total |-> c.total + 1,
                      unique |-> IF isNew THEN c.unique + 1 ELSE c.unique]

\* Fault: the new values are computed from what the handler read at its start.
UpdateFromStale(h) ==
  LET r == handlers[h] IN
  /\ At(h, "update")
  /\ handlers' = [handlers EXCEPT ![h] =
       [r EXCEPT !.step = "commit",
          !.seen = Counted(IF counters[r.page] = NoCounter THEN Zero ELSE counters[r.page],
                           r.isNew)]]
  /\ UNCHANGED <<counters, visitors, visits>>

\* The UPDATE, which increments the row as last committed, and the SELECT that
\* reads it back.
Update(h) ==
  LET r == handlers[h] IN
  /\ At(h, "update")
  /\ WaitsFor(h) = {}
  /\ handlers' = [handlers EXCEPT ![h] =
       [r EXCEPT !.step = "commit",
          !.seen = Counted(IF r.inserted THEN Zero ELSE counters[r.page], r.isNew)]]
  /\ UNCHANGED <<counters, visitors, visits>>

Commit(h) ==
  LET r == handlers[h] IN
  /\ At(h, "commit")
  /\ counters' = [counters EXCEPT ![r.page] = r.seen]
  /\ visitors' = IF r.isNew THEN visitors \cup {<<r.page, r.visitor>>} ELSE visitors
  /\ visits' = [visits EXCEPT ![r.page] = Append(@, r.visitor)]
  /\ handlers' = [handlers EXCEPT ![h] = Idle]

\* A statement or the COMMIT fails, or the client or the process goes away.
Rollback(h) ==
  /\ handlers[h] # Idle
  /\ handlers' = [handlers EXCEPT ![h] = Idle]
  /\ UNCHANGED <<counters, visitors, visits>>

\* GetCounts: what Service.Get answers for page p.
GetCounts(p) == IF counters[p] = NoCounter THEN Zero ELSE counters[p]

Next ==
  \E h \in Handlers :
    \/ \E p \in Pages, v \in Visitors \cup {Anonymous} : RecordVisit(h, p, v)
    \/ InsertCounter(h) \/ InsertVisitor(h) \/ Update(h) \/ Commit(h) \/ Rollback(h)

Spec == Init /\ [][Next]_vars

\* A transaction whose statement can run runs it (the Go scheduler, and a
\* database that grants a free lock, in its queue's order).
Fairness ==
  \A h \in Handlers : SF_vars(InsertCounter(h) \/ InsertVisitor(h) \/ Update(h) \/ Commit(h))
FairSpec == Spec /\ Fairness

----
(* Properties.                                                            *)

\* No visit is lost or counted twice, and each visitor is counted once, in
\* spite of concurrent first visits and of inserts that are rolled back while
\* another transaction waits for them.
CountersExact ==
  \A p \in Pages :
    LET seen == {visits[p][i] : i \in DOMAIN visits[p]} \ {Anonymous} IN
    /\ GetCounts(p) = [total |-> Len(visits[p]), unique |-> Cardinality(seen)]
    /\ \A v \in Visitors : v \in seen <=> <<p, v>> \in visitors

\* A visit is answered its own place in the order of the commits: no two are
\* told the same total.
AnswersAreOwn ==
  \A h \in Handlers : At(h, "commit") =>
    handlers[h].seen.total = Len(visits[handlers[h].page]) + 1

\* Whatever statements interleave, the visits happen one at a time: each COMMIT
\* is one visit of VisitCounter, which answers what the transaction read, and
\* nothing else that a transaction does or undoes shows.
VisitCounterOf ==
  INSTANCE VisitCounter WITH counts <- [p \in Pages |-> GetCounts(p)], known <- visitors
ImplementsVisitCounter == VisitCounterOf!Spec

\* Transactions take their locks in one order: a statement waits only for
\* transactions that are further on.  So none wait for each other in a circle,
\* and the one that is furthest on waits for nobody.
Rank(h) == CASE At(h, "counter") -> 1 [] At(h, "visitor") -> 2
             [] At(h, "update") -> 3 [] At(h, "commit") -> 4 [] OTHER -> 0
WaitsAhead ==
  \A h \in Handlers : handlers[h] # Idle => \A g \in WaitsFor(h) : Rank(g) > Rank(h)

\* Transactions on one page never wait for each other for ever.
VisitEnds == \A h \in Handlers : handlers[h] # Idle ~> handlers[h] = Idle
====
