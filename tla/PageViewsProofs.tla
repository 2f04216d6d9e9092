---- MODULE PageViewsProofs ----
(***************************************************************************)
(* Proofs about PageViews for every number of pages, visitors and          *)
(* concurrent requests: the counters are exact, the visits look as if one  *)
(* came after the other, and no transactions wait for each other.          *)
(***************************************************************************)
EXTENDS PageViews, FiniteSetTheorems, TLAPS

Past(h) == handlers[h].step # "counter"
Wrote(h) == handlers[h].step \in {"update", "commit"}
Base(h) == IF handlers[h].inserted THEN Zero ELSE counters[handlers[h].page]

\* What a transaction knows of the committed rows: the counter exists or is its
\* own insert; its visitor is its own insert exactly when it is not committed;
\* what it wrote is the committed row incremented.
RequestOK(h) ==
  /\ handlers[h].inserted => Past(h) /\ counters[handlers[h].page] = NoCounter
  /\ Past(h) => handlers[h].inserted \/ counters[handlers[h].page] # NoCounter
  /\ handlers[h].isNew => Wrote(h) /\ handlers[h].visitor # Anonymous
  /\ Wrote(h) /\ handlers[h].visitor # Anonymous =>
       (handlers[h].isNew <=> <<handlers[h].page, handlers[h].visitor>> \notin visitors)
  /\ handlers[h].step = "commit" => handlers[h].seen = Counted(Base(h), handlers[h].isNew)
RequestsOK == \A h \in Handlers : handlers[h] # Idle => RequestOK(h)

\* Of the transactions on a page one may have inserted the counter, one for each
\* visitor may have inserted it, and one may have updated the counter.
Apart(h, k) ==
  /\ ~(handlers[h].inserted /\ handlers[k].inserted)
  /\ ~(handlers[h].isNew /\ handlers[k].isNew /\ handlers[h].visitor = handlers[k].visitor)
  /\ ~(handlers[h].step = "commit" /\ handlers[k].step = "commit")
RequestsApart ==
  \A h, k \in Handlers : /\ h # k /\ handlers[h] # Idle /\ handlers[k] # Idle
                         /\ handlers[h].page = handlers[k].page
                         => Apart(h, k)

Seen(p)    == {visits[p][i] : i \in DOMAIN visits[p]} \ {Anonymous}
SeenFinite == \A p \in Pages : IsFiniteSet(Seen(p))

IInv == TypeOK /\ RequestsOK /\ RequestsApart /\ SeenFinite /\ CountersExact

----
(* Steps of one handler that commit nothing.                              *)

LEMMA Fields ==
  ASSUME TypeOK, NEW h \in Handlers, handlers[h] # Idle
  PROVE  /\ handlers[h] \in Request /\ handlers[h].page \in Pages
         /\ handlers[h].visitor \in Visitors \cup {Anonymous}
         /\ handlers[h].inserted \in BOOLEAN /\ handlers[h].isNew \in BOOLEAN
         /\ handlers[h].seen \in Counter
BY DEF TypeOK, Request

\* What is left to show of a step that changes the record of handler h only.
LEMMA MoveFrame ==
  ASSUME IInv, NEW h \in Handlers, NEW x \in Request \cup {Idle},
         handlers' = [handlers EXCEPT ![h] = x], UNCHANGED <<counters, visitors, visits>>,
         x # Idle => RequestOK(h)',
         x # Idle => \A k \in Handlers \ {h} : handlers[k] # Idle /\ handlers[k].page = x.page
                       => Apart(h, k)' /\ Apart(k, h)'
  PROVE  IInv'
<1>1. /\ handlers' \in [Handlers -> Request \cup {Idle}]
      /\ handlers'[h] = x
      /\ \A k \in Handlers \ {h} : handlers'[k] = handlers[k]
      BY DEF IInv, TypeOK
<1>2. TypeOK'
      BY <1>1 DEF IInv, TypeOK
<1>3. RequestsOK'
  <2> SUFFICES ASSUME NEW k \in Handlers, handlers'[k] # Idle
               PROVE  RequestOK(k)'
      BY DEF RequestsOK
  <2>1. CASE k = h
        BY <1>1, <2>1
  <2>2. CASE k # h
    <3>1. handlers'[k] = handlers[k] /\ RequestOK(k)
          BY <1>1, <2>2 DEF IInv, RequestsOK
    <3> QED BY <3>1 DEF RequestOK, Past, Wrote, Base
  <2> QED BY <2>1, <2>2
<1>4. RequestsApart'
  <2> SUFFICES ASSUME NEW k \in Handlers, NEW l \in Handlers, k # l,
                      handlers'[k] # Idle, handlers'[l] # Idle,
                      handlers'[k].page = handlers'[l].page
               PROVE  Apart(k, l)'
      BY DEF RequestsApart
  <2>1. CASE k = h
        BY <1>1, <2>1
  <2>2. CASE l = h
        BY <1>1, <2>2
  <2>3. CASE k # h /\ l # h
        BY <1>1, <2>3 DEF IInv, RequestsApart, Apart
  <2> QED BY <2>1, <2>2, <2>3
<1>5. SeenFinite'
      BY DEF IInv, SeenFinite, Seen
<1>6. CountersExact'
      BY DEF IInv, CountersExact, GetCounts
<1> QED BY <1>2, <1>3, <1>4, <1>5, <1>6 DEF IInv

LEMMA RecordVisitStep ==
  ASSUME IInv, NEW h \in Handlers, NEW p \in Pages, NEW v \in Visitors \cup {Anonymous},
         RecordVisit(h, p, v)
  PROVE  IInv'
<1> DEFINE x == [step |-> "counter", page |-> p, visitor |-> v,
                 inserted |-> FALSE, isNew |-> FALSE, seen |-> Zero]
<1>1. /\ x \in Request /\ x.step = "counter" /\ x.inserted = FALSE /\ x.isNew = FALSE
      BY DEF Request, Steps, Counter, Zero
<1>2. handlers' = [handlers EXCEPT ![h] = x] /\ UNCHANGED <<counters, visitors, visits>>
      BY DEF RecordVisit
<1> HIDE DEF x
<1>3. handlers'[h] = x
      BY <1>2 DEF IInv, TypeOK
<1>4. RequestOK(h)'
      BY <1>1, <1>3 DEF RequestOK, Past, Wrote
<1>5. \A k \in Handlers \ {h} : Apart(h, k)' /\ Apart(k, h)'
      BY <1>1, <1>3 DEF Apart
<1> QED BY <1>1, <1>2, <1>4, <1>5, MoveFrame

LEMMA RollbackStep ==
  ASSUME IInv, NEW h \in Handlers, Rollback(h)
  PROVE  IInv'
BY MoveFrame DEF Rollback

LEMMA InsertCounterStep ==
  ASSUME IInv, NEW h \in Handlers, InsertCounter(h)
  PROVE  IInv'
<1> DEFINE r == handlers[h]
           x == [handlers[h] EXCEPT !.step = "visitor",
                                    !.inserted = counters[handlers[h].page] = NoCounter]
<1>1. r # Idle /\ r \in Request /\ r.step = "counter" /\ RequestOK(h)
      BY Fields DEF IInv, InsertCounter, At, RequestsOK
<1>2. /\ x \in Request /\ x.step = "visitor" /\ x.page = r.page /\ x.visitor = r.visitor
      /\ x.inserted <=> counters[r.page] = NoCounter
      /\ x.isNew = r.isNew
      BY <1>1 DEF Request, Steps
<1>3. handlers' = [handlers EXCEPT ![h] = x] /\ UNCHANGED <<counters, visitors, visits>>
      BY DEF InsertCounter
<1> HIDE DEF x
<1>4. handlers'[h] = x /\ \A k \in Handlers \ {h} : handlers'[k] = handlers[k]
      BY <1>3 DEF IInv, TypeOK
<1>5. ~x.isNew
      BY <1>1, <1>2 DEF RequestOK, Wrote
<1>6. RequestOK(h)'
      BY <1>2, <1>3, <1>4, <1>5 DEF RequestOK, Past, Wrote
<1>7. \A k \in Handlers \ {h} : handlers[k] # Idle /\ handlers[k].page = x.page
        => Apart(h, k)' /\ Apart(k, h)'
      BY <1>1, <1>2, <1>4, <1>5 DEF Apart, InsertCounter, WaitsFor, Others
<1> QED BY <1>2, <1>3, <1>6, <1>7, MoveFrame

LEMMA InsertVisitorStep ==
  ASSUME IInv, NEW h \in Handlers, InsertVisitor(h)
  PROVE  IInv'
<1> DEFINE r == handlers[h]
           x == [handlers[h] EXCEPT !.step = "update",
                   !.isNew = /\ handlers[h].visitor # Anonymous
                             /\ <<handlers[h].page, handlers[h].visitor>> \notin visitors]
<1>1. r # Idle /\ r \in Request /\ r.step = "visitor" /\ RequestOK(h)
      BY Fields DEF IInv, InsertVisitor, At, RequestsOK
<1>2. /\ x \in Request /\ x.step = "update" /\ x.page = r.page /\ x.visitor = r.visitor
      /\ x.inserted = r.inserted
      /\ x.isNew <=> r.visitor # Anonymous /\ <<r.page, r.visitor>> \notin visitors
      BY <1>1 DEF Request, Steps
<1>3. handlers' = [handlers EXCEPT ![h] = x] /\ UNCHANGED <<counters, visitors, visits>>
      BY DEF InsertVisitor
<1> HIDE DEF x
<1>4. handlers'[h] = x /\ \A k \in Handlers \ {h} : handlers'[k] = handlers[k]
      BY <1>3 DEF IInv, TypeOK
<1>5. RequestOK(h)'
      BY <1>1, <1>2, <1>3, <1>4 DEF RequestOK, Past, Wrote
<1>6. ASSUME NEW k \in Handlers \ {h}, handlers[k] # Idle, handlers[k].page = x.page
      PROVE  Apart(h, k)' /\ Apart(k, h)'
  <2>1. Apart(h, k) /\ Apart(k, h)
        BY <1>1, <1>2, <1>6 DEF IInv, RequestsApart
  <2>2. ~(handlers[k].isNew /\ handlers[k].visitor = r.visitor)
        BY <1>1, <1>2, <1>6 DEF InsertVisitor, WaitsFor, Others
  <2> QED BY <1>2, <1>4, <1>6, <2>1, <2>2 DEF Apart
<1> QED BY <1>2, <1>3, <1>5, <1>6, MoveFrame

LEMMA UpdateStep ==
  ASSUME IInv, NEW h \in Handlers, Update(h)
  PROVE  IInv'
<1> DEFINE r == handlers[h]
           seen == Counted(Base(h), handlers[h].isNew)
           x == [handlers[h] EXCEPT !.step = "commit", !.seen = seen]
<1>1. r # Idle /\ r \in Request /\ r.step = "update" /\ RequestOK(h) /\ r.page \in Pages
      BY Fields DEF IInv, Update, At, RequestsOK
<1>2. Base(h) \in Counter
      BY <1>1 DEF IInv, TypeOK, Base, RequestOK, Past, Counter, Zero
<1>3. seen \in Counter
      BY <1>2 DEF Counted, Counter
<1>4. handlers' = [handlers EXCEPT ![h] = x] /\ UNCHANGED <<counters, visitors, visits>>
      BY DEF Update, Base
<1> HIDE DEF seen
<1>5. /\ x \in Request /\ x.step = "commit" /\ x.page = r.page /\ x.visitor = r.visitor
      /\ x.inserted = r.inserted /\ x.isNew = r.isNew /\ x.seen = seen
      BY <1>1, <1>3 DEF Request, Steps
<1> HIDE DEF x
<1>6. handlers'[h] = x /\ \A k \in Handlers \ {h} : handlers'[k] = handlers[k]
      BY <1>4 DEF IInv, TypeOK
<1>7. x.seen = Counted(Base(h)', x.isNew)
      BY <1>4, <1>5, <1>6 DEF seen, Base
<1>8. RequestOK(h)'
      BY <1>1, <1>4, <1>5, <1>6, <1>7 DEF RequestOK, Past, Wrote
<1>9. ASSUME NEW k \in Handlers \ {h}, handlers[k] # Idle, handlers[k].page = x.page
      PROVE  Apart(h, k)' /\ Apart(k, h)'
  <2>1. Apart(h, k) /\ Apart(k, h)
        BY <1>1, <1>5, <1>9 DEF IInv, RequestsApart
  <2>2. handlers[k].step # "commit"
        BY <1>1, <1>5, <1>9 DEF Update, WaitsFor, Others
  <2> QED BY <1>5, <1>6, <1>9, <2>1, <2>2 DEF Apart
<1> QED BY <1>4, <1>5, <1>8, <1>9, MoveFrame

----
(* The COMMIT.                                                            *)

\* What a committed visit adds to the visitors seen on its page.
LEMMA SeenAppend ==
  ASSUME TypeOK, NEW p \in Pages, NEW v \in Visitors \cup {Anonymous},
         visits' = [visits EXCEPT ![p] = Append(visits[p], v)]
  PROVE  /\ Len(visits[p]) \in Nat /\ Len(visits'[p]) = Len(visits[p]) + 1
         /\ Seen(p)' = IF v = Anonymous THEN Seen(p) ELSE Seen(p) \cup {v}
<1>1. visits[p] \in Seq(Visitors \cup {Anonymous}) /\ visits'[p] = Append(visits[p], v)
      BY DEF TypeOK
<1> DEFINE n == Len(visits[p]) + 1
<1>2. /\ Len(visits[p]) \in Nat /\ Len(visits'[p]) = n
      /\ DOMAIN visits[p] = 1..(n - 1) /\ DOMAIN visits'[p] = 1..n
      /\ \A i \in 1..(n - 1) : visits'[p][i] = visits[p][i]
      /\ visits'[p][n] = v
      BY <1>1
<1>3. {visits'[p][i] : i \in DOMAIN visits'[p]} = {visits[p][i] : i \in DOMAIN visits[p]} \cup {v}
  <2> HIDE DEF n
  <2>1. n \in Nat /\ n >= 1
        BY <1>2 DEF n
  <2> QED BY <1>2, <2>1
<1> QED BY <1>2, <1>3 DEF Seen

LEMMA CommitStep ==
  ASSUME IInv, NEW h \in Handlers, Commit(h)
  PROVE  IInv'
<1> PICK r \in Request : r = handlers[h]
    BY Fields DEF IInv, Commit, At
<1> PICK p \in Pages : p = handlers[h].page
    BY Fields DEF IInv, Commit, At
<1> PICK v \in Visitors \cup {Anonymous} : v = handlers[h].visitor
    BY Fields DEF IInv, Commit, At
<1>1. /\ r # Idle /\ r.step = "commit" /\ RequestOK(h)
      /\ r.isNew \in BOOLEAN /\ r.inserted \in BOOLEAN /\ r.seen \in Counter
      BY Fields DEF IInv, Commit, At, RequestsOK
<1>2. /\ counters' = [counters EXCEPT ![p] = r.seen]
      /\ visits' = [visits EXCEPT ![p] = Append(visits[p], v)]
      /\ visitors' = IF r.isNew THEN visitors \cup {<<p, v>>} ELSE visitors
      /\ handlers' = [handlers EXCEPT ![h] = Idle]
      BY DEF Commit
<1>3. r.isNew => v # Anonymous /\ <<p, v>> \notin visitors
      BY <1>1 DEF RequestOK, Wrote
<1>4. ~r.isNew /\ v # Anonymous => <<p, v>> \in visitors
      BY <1>1 DEF RequestOK, Wrote
<1>5. r.seen = Counted(GetCounts(p), r.isNew)
      BY <1>1 DEF RequestOK, Base, GetCounts, Past
<1>6. /\ counters'[p] = r.seen /\ \A q \in Pages \ {p} : counters'[q] = counters[q]
      /\ \A q \in Pages \ {p} : visits'[q] = visits[q]
      BY <1>1, <1>2 DEF IInv, TypeOK
<1>7. r.seen # NoCounter
      BY <1>1, PageViewsNullsAssumption
<1>8. /\ handlers'[h] = Idle
      /\ \A k \in Handlers \ {h} : handlers'[k] = handlers[k]
      BY <1>2 DEF IInv, TypeOK
<1>9. TypeOK'
  <2>1. counters' \in [Pages -> Counter \cup {NoCounter}]
        BY <1>1, <1>2 DEF IInv, TypeOK
  <2>2. visitors' \in SUBSET (Pages \X Visitors)
        BY <1>1, <1>2, <1>3 DEF IInv, TypeOK
  <2>3. Append(visits[p], v) \in Seq(Visitors \cup {Anonymous})
        BY <1>1 DEF IInv, TypeOK
  <2>4. visits' \in [Pages -> Seq(Visitors \cup {Anonymous})]
        BY <1>2, <2>3 DEF IInv, TypeOK
  <2>5. handlers' \in [Handlers -> Request \cup {Idle}]
        BY <1>2 DEF IInv, TypeOK
  <2> QED BY <2>1, <2>2, <2>4, <2>5 DEF TypeOK
<1>10. RequestsOK'
  <2> SUFFICES ASSUME NEW k \in Handlers, handlers'[k] # Idle
               PROVE  RequestOK(k)'
      BY DEF RequestsOK
  <2>1. k # h /\ handlers'[k] = handlers[k] /\ handlers[k] # Idle /\ RequestOK(k)
        BY <1>8 DEF IInv, RequestsOK
  <2>2. handlers[k].page \in Pages
        BY <2>1, Fields DEF IInv
  <2>3. CASE handlers[k].page # p
    <3>1. /\ counters'[handlers[k].page] = counters[handlers[k].page]
          /\ <<handlers[k].page, handlers[k].visitor>> \in visitors'
               <=> <<handlers[k].page, handlers[k].visitor>> \in visitors
          BY <1>2, <1>6, <2>2, <2>3
    <3> QED BY <2>1, <3>1 DEF RequestOK, Past, Wrote, Base
  <2>4. CASE handlers[k].page = p
    <3>1. Apart(h, k)
          BY <1>1, <2>1, <2>4 DEF IInv, RequestsApart
    <3>2. handlers[k].step # "commit"
          BY <1>1, <3>1 DEF Apart
    <3>3. ~handlers[k].inserted
          BY <1>1, <2>1, <2>4, <3>1 DEF Apart, RequestOK, Past
    <3>4. Wrote(k) /\ handlers[k].visitor # Anonymous =>
            (handlers[k].isNew <=> <<handlers[k].page, handlers[k].visitor>> \notin visitors')
          BY <1>2, <1>3, <2>1, <2>4, <3>1 DEF Apart, RequestOK
    <3> QED BY <1>6, <1>7, <2>1, <2>4, <3>2, <3>3, <3>4 DEF RequestOK, Past, Wrote
  <2> QED BY <2>3, <2>4
<1>11. RequestsApart'
      BY <1>8 DEF IInv, RequestsApart, Apart
<1>12. /\ Len(visits[p]) \in Nat /\ Len(visits'[p]) = Len(visits[p]) + 1
       /\ Seen(p)' = IF v = Anonymous THEN Seen(p) ELSE Seen(p) \cup {v}
      BY <1>1, <1>2, SeenAppend DEF IInv
<1>13. /\ IsFiniteSet(Seen(p))
       /\ GetCounts(p) = [total |-> Len(visits[p]), unique |-> Cardinality(Seen(p))]
       /\ \A u \in Visitors : u \in Seen(p) <=> <<p, u>> \in visitors
      BY <1>1 DEF IInv, SeenFinite, CountersExact, Seen
<1>14. /\ IsFiniteSet(Seen(p)')
       /\ Cardinality(Seen(p)') = IF r.isNew THEN Cardinality(Seen(p)) + 1 ELSE Cardinality(Seen(p))
  <2>1. CASE r.isNew
    <3>1. v \notin Seen(p) /\ Seen(p)' = Seen(p) \cup {v}
          BY <1>3, <1>12, <1>13, <2>1
    <3>2. IsFiniteSet(Seen(p))
          BY <1>13
    <3>3. /\ IsFiniteSet(Seen(p) \cup {v})
          /\ Cardinality(Seen(p) \cup {v}) = Cardinality(Seen(p)) + 1
          BY <3>1, <3>2, FS_AddElement
    <3> QED BY <2>1, <3>1, <3>3
  <2>2. CASE ~r.isNew
    <3>1. Seen(p)' = Seen(p)
          BY <1>4, <1>12, <1>13, <2>2
    <3> QED BY <1>13, <2>2, <3>1
  <2> QED BY <1>1, <2>1, <2>2
<1>15. \A u \in Visitors : u \in Seen(p)' <=> <<p, u>> \in visitors'
  <2>1. v # Anonymous => (r.isNew \/ <<p, v>> \in visitors)
        BY <1>4
  <2>2. \A u \in Visitors : <<p, u>> \in visitors' <=> <<p, u>> \in visitors \/ (r.isNew /\ u = v)
        BY <1>2
  <2>3. \A u \in Visitors : u \in Seen(p)' <=> u \in Seen(p) \/ (u = v /\ v # Anonymous)
        BY <1>12
  <2> QED BY <1>3, <1>13, <2>1, <2>2, <2>3
<1>16. GetCounts(p)' = [total |-> Len(visits'[p]), unique |-> Cardinality(Seen(p)')]
  <2>1. GetCounts(p)' = Counted(GetCounts(p), r.isNew)
        BY <1>5, <1>6, <1>7 DEF GetCounts
  <2> QED BY <1>12, <1>13, <1>14, <2>1 DEF Counted
<1>17. \A q \in Pages \ {p} :
         /\ Seen(q)' = Seen(q) /\ Len(visits'[q]) = Len(visits[q])
         /\ GetCounts(q)' = GetCounts(q)
         /\ \A u \in Visitors : <<q, u>> \in visitors' <=> <<q, u>> \in visitors
      BY <1>2, <1>6 DEF Seen, GetCounts
<1>18. SeenFinite'
      BY <1>14, <1>17 DEF IInv, SeenFinite
<1>19. CountersExact'
  <2> SUFFICES ASSUME NEW q \in Pages
               PROVE  /\ GetCounts(q)' = [total |-> Len(visits'[q]), unique |-> Cardinality(Seen(q)')]
                      /\ \A u \in Visitors : u \in Seen(q)' <=> <<q, u>> \in visitors'
      BY DEF CountersExact, Seen
  <2>1. CASE q = p
        BY <1>15, <1>16, <2>1
  <2>2. CASE q # p
    <3>1. /\ GetCounts(q) = [total |-> Len(visits[q]), unique |-> Cardinality(Seen(q))]
          /\ \A u \in Visitors : u \in Seen(q) <=> <<q, u>> \in visitors
          BY DEF IInv, CountersExact, Seen
    <3> QED BY <1>17, <2>2, <3>1
  <2> QED BY <2>1, <2>2
<1> QED BY <1>9, <1>10, <1>11, <1>18, <1>19 DEF IInv

----
(* The theorems.                                                          *)

LEMMA InitOK == Init => IInv
<1> SUFFICES ASSUME Init
             PROVE  IInv
    OBVIOUS
<1>1. TypeOK
  <2>1. <<>> \in Seq(Visitors \cup {Anonymous})
        OBVIOUS
  <2> QED BY <2>1 DEF Init, TypeOK
<1>2. RequestsOK /\ RequestsApart
      BY DEF Init, RequestsOK, RequestsApart
<1>3. \A p \in Pages : Seen(p) = {} /\ Len(visits[p]) = 0 /\ GetCounts(p) = Zero
      BY DEF Init, Seen, GetCounts
<1>4. SeenFinite
      BY <1>3, FS_EmptySet DEF SeenFinite
<1>5. CountersExact
  <2> SUFFICES ASSUME NEW p \in Pages
               PROVE  /\ GetCounts(p) = [total |-> Len(visits[p]), unique |-> Cardinality(Seen(p))]
                      /\ \A u \in Visitors : u \in Seen(p) <=> <<p, u>> \in visitors
      BY DEF CountersExact, Seen
  <2>1. Cardinality(Seen(p)) = 0
        BY <1>3, FS_EmptySet
  <2>2. visitors = {}
        BY DEF Init
  <2> QED BY <1>3, <2>1, <2>2 DEF Zero
<1> QED BY <1>1, <1>2, <1>4, <1>5 DEF IInv

LEMMA StepOK == IInv /\ [Next]_vars => IInv'
<1> SUFFICES ASSUME IInv, [Next]_vars
             PROVE  IInv'
    OBVIOUS
<1>1. CASE UNCHANGED vars
  <2>1. TypeOK' /\ RequestsApart' /\ SeenFinite'
        BY <1>1 DEF IInv, TypeOK, RequestsApart, Apart, SeenFinite, Seen, vars
  <2>2. RequestsOK' /\ CountersExact'
        BY <1>1 DEF IInv, RequestsOK, RequestOK, Past, Wrote, Base, CountersExact, GetCounts, vars
  <2> QED BY <2>1, <2>2 DEF IInv
<1>2. ASSUME NEW h \in Handlers, NEW p \in Pages, NEW v \in Visitors \cup {Anonymous},
             RecordVisit(h, p, v)
      PROVE  IInv'
      BY <1>2, RecordVisitStep
<1>3. ASSUME NEW h \in Handlers, \/ InsertCounter(h) \/ InsertVisitor(h) \/ Update(h)
                                 \/ Commit(h) \/ Rollback(h)
      PROVE  IInv'
      BY <1>3, InsertCounterStep, InsertVisitorStep, UpdateStep, CommitStep, RollbackStep
<1> QED BY <1>1, <1>2, <1>3 DEF Next

\* The inductive invariant: every reachable state satisfies IInv.
THEOREM Invariance == Spec => []IInv
BY InitOK, StepOK, PTL DEF Spec

\* Every variable keeps its type.
THEOREM TypeCorrect == Spec => []TypeOK
<1>1. IInv => TypeOK
      BY DEF IInv
<1> QED BY Invariance, <1>1, PTL

\* Store.RecordVisit loses no visit and counts no visitor twice, whatever
\* transactions run beside it and whichever are rolled back.
THEOREM ExactCounters == Spec => []CountersExact
<1>1. IInv => CountersExact
      BY DEF IInv
<1> QED BY Invariance, <1>1, PTL

\* The total a visit is answered is its own place in the order of the commits.
THEOREM OwnAnswers == Spec => []AnswersAreOwn
<1>1. IInv => AnswersAreOwn
  <2> SUFFICES ASSUME IInv, NEW h \in Handlers, At(h, "commit")
               PROVE  handlers[h].seen.total = Len(visits[handlers[h].page]) + 1
      BY DEF AnswersAreOwn
  <2>1. handlers[h] # Idle /\ RequestOK(h) /\ handlers[h].page \in Pages
        BY Fields DEF IInv, At, RequestsOK
  <2>2. handlers[h].seen = Counted(GetCounts(handlers[h].page), handlers[h].isNew)
        BY <2>1 DEF RequestOK, Base, GetCounts, Past, At
  <2>3. \A p \in Pages : GetCounts(p) = [total |-> Len(visits[p]), unique |-> Cardinality(Seen(p))]
        BY DEF IInv, CountersExact, Seen
  <2>4. GetCounts(handlers[h].page).total = Len(visits[handlers[h].page])
        BY <2>1, <2>3
  <2> QED BY <2>2, <2>4 DEF Counted
<1> QED BY Invariance, <1>1, PTL

\* Locks are taken in one order, so no number of visits of a page can wait for
\* each other in a circle.
THEOREM LocksOrdered == Spec => []WaitsAhead
<1>1. IInv => WaitsAhead
  <2> SUFFICES ASSUME IInv, NEW h \in Handlers, handlers[h] # Idle, NEW g \in WaitsFor(h)
               PROVE  Rank(g) > Rank(h)
      BY DEF WaitsAhead
  <2>1. g \in Handlers /\ handlers[g] # Idle /\ handlers[g].page = handlers[h].page
        BY DEF WaitsFor, Others
  <2>2. handlers[g].step \in Steps /\ handlers[h].step \in Steps /\ RequestOK(g)
        BY <2>1 DEF IInv, TypeOK, Request, RequestsOK
  <2>3. CASE handlers[h].step = "counter" /\ handlers[g].inserted
    <3>1. handlers[g].step # "counter"
          BY <2>2, <2>3 DEF RequestOK, Past
    <3> QED BY <2>1, <2>2, <2>3, <3>1 DEF Rank, At, Steps
  <2>4. CASE handlers[h].step = "visitor" /\ handlers[g].isNew
    <3>1. handlers[g].step \in {"update", "commit"}
          BY <2>2, <2>4 DEF RequestOK, Wrote
    <3> QED BY <2>1, <2>2, <2>4, <3>1 DEF Rank, At
  <2>5. CASE handlers[h].step = "update" /\ handlers[g].step = "commit"
        BY <2>1, <2>5 DEF Rank, At
  <2> QED BY <2>3, <2>4, <2>5 DEF WaitsFor
<1> QED BY Invariance, <1>1, PTL

\* A visit can always go on: of the open transactions on a page, one waits for
\* nobody.
OneRuns ==
  \A p \in Pages :
    LET open == {h \in Handlers : handlers[h] # Idle /\ handlers[h].page = p} IN
    open # {} => \E h \in open : WaitsFor(h) = {}

\* However many visits of a page are recorded at once, the database never has to
\* end one of them as a deadlock's victim: one of them runs.
THEOREM NoDeadlock == Spec => []OneRuns
<1>1. TypeOK /\ WaitsAhead => OneRuns
  <2> SUFFICES ASSUME TypeOK, WaitsAhead, NEW p \in Pages,
                      NEW open, open = {h \in Handlers : handlers[h] # Idle /\ handlers[h].page = p},
                      NEW h \in open, \A g \in open : WaitsFor(g) # {}
               PROVE  FALSE
      BY DEF OneRuns
  <2>1. ASSUME NEW g \in open
        PROVE  Rank(g) \in 1..3 /\ \E k \in open : Rank(k) > Rank(g)
    <3>1. g \in Handlers /\ handlers[g] # Idle /\ handlers[g].page = p /\ handlers[g].step \in Steps
          BY DEF TypeOK, Request
    <3>2. handlers[g].step # "commit"
          BY <3>1 DEF WaitsFor
    <3>3. Rank(g) \in 1..3
          BY <3>1, <3>2 DEF Rank, At, Steps
    <3>4. PICK k \in WaitsFor(g) : TRUE
          OBVIOUS
    <3>5. k \in open /\ Rank(k) > Rank(g)
          BY <3>1, <3>4 DEF WaitsFor, Others, WaitsAhead
    <3> QED BY <3>3, <3>5
  <2>2. PICK k \in open : Rank(k) > Rank(h)
        BY <2>1
  <2>3. PICK l \in open : Rank(l) > Rank(k)
        BY <2>1
  <2>4. PICK m \in open : Rank(m) > Rank(l)
        BY <2>1
  <2>5. Rank(h) \in 1..3 /\ Rank(k) \in 1..3 /\ Rank(l) \in 1..3 /\ Rank(m) \in 1..3
        BY <2>1
  <2> HIDE DEF Rank
  <2> QED BY <2>2, <2>3, <2>4, <2>5
<1> QED BY TypeCorrect, LocksOrdered, <1>1, PTL

----
(* The visits implement VisitCounter.                                     *)

Counts == [p \in Pages |-> GetCounts(p)]

\* Before the COMMIT nothing shows.
LEMMA NothingShows ==
  ASSUME UNCHANGED <<counters, visitors>>
  PROVE  UNCHANGED <<Counts, visitors>>
BY DEF Counts, GetCounts

\* The COMMIT is one visit of VisitCounter.
LEMMA CommitShows ==
  ASSUME IInv, NEW h \in Handlers, Commit(h)
  PROVE  \E p \in Pages, v \in Visitors \cup {Anonymous} : VisitCounterOf!Visit(p, v)
<1> DEFINE p == handlers[h].page
           v == handlers[h].visitor
           isNew == handlers[h].isNew
<1>1. /\ handlers[h] # Idle /\ handlers[h].step = "commit" /\ RequestOK(h)
      /\ p \in Pages /\ v \in Visitors \cup {Anonymous} /\ isNew \in BOOLEAN
      /\ handlers[h].seen \in Counter
      BY Fields DEF IInv, Commit, At, RequestsOK
<1>2. isNew <=> VisitCounterOf!FirstVisit(p, v)
      BY <1>1 DEF RequestOK, Wrote, VisitCounterOf!FirstVisit
<1>3. handlers[h].seen = Counted(GetCounts(p), isNew)
      BY <1>1 DEF RequestOK, Base, GetCounts, Past
<1>4. /\ counters' = [counters EXCEPT ![p] = handlers[h].seen]
      /\ visitors' = IF isNew THEN visitors \cup {<<p, v>>} ELSE visitors
      BY DEF Commit
<1>5. handlers[h].seen # NoCounter
      BY <1>1, PageViewsNullsAssumption
<1> HIDE DEF p, v, isNew
<1>6. Counts' = [Counts EXCEPT ![p] = Counted(GetCounts(p), isNew)]
  <2>1. \A q \in Pages : counters'[q] = IF q = p THEN handlers[h].seen ELSE counters[q]
        BY <1>4 DEF IInv, TypeOK
  <2>2. \A q \in Pages : GetCounts(q)' = IF q = p THEN handlers[h].seen ELSE GetCounts(q)
        BY <1>5, <2>1 DEF GetCounts
  <2> QED BY <1>3, <2>2 DEF Counts
<1>7. Counts[p] = GetCounts(p)
      BY <1>1 DEF Counts, p
<1>8. VisitCounterOf!Visit(p, v)
  <2>1. Counts' = [Counts EXCEPT ![p] =
          [total |-> Counts[p].total + 1,
           unique |-> IF VisitCounterOf!FirstVisit(p, v) THEN Counts[p].unique + 1
                      ELSE Counts[p].unique]]
        BY <1>2, <1>6, <1>7 DEF Counted
  <2>2. visitors' = IF VisitCounterOf!FirstVisit(p, v) THEN visitors \cup {<<p, v>>} ELSE visitors
        BY <1>2, <1>4
  <2> QED BY <2>1, <2>2 DEF VisitCounterOf!Visit, Counts
<1> QED BY <1>1, <1>8 DEF p, v

\* Store.RecordVisit at READ COMMITTED, with its waits and rollbacks, looks to
\* everybody like visits that happen one at a time.
THEOREM Refinement == Spec => ImplementsVisitCounter
<1>1. Init => VisitCounterOf!Init
      BY DEF Init, VisitCounterOf!Init, GetCounts, Zero
<1>2. IInv /\ [Next]_vars => [VisitCounterOf!Next]_<<Counts, visitors>>
  <2> SUFFICES ASSUME IInv, [Next]_vars
               PROVE  VisitCounterOf!Next \/ UNCHANGED <<Counts, visitors>>
      OBVIOUS
  <2>1. CASE UNCHANGED vars
        BY <2>1, NothingShows DEF vars
  <2>2. ASSUME NEW h \in Handlers, Commit(h)
        PROVE  VisitCounterOf!Next
        BY <2>2, CommitShows DEF VisitCounterOf!Next
  <2>3. ASSUME NEW h \in Handlers,
               \/ \E p \in Pages, v \in Visitors \cup {Anonymous} : RecordVisit(h, p, v)
               \/ InsertCounter(h) \/ InsertVisitor(h) \/ Update(h) \/ Rollback(h)
        PROVE  UNCHANGED <<Counts, visitors>>
    <3>1. UNCHANGED <<counters, visitors>>
          BY <2>3 DEF RecordVisit, InsertCounter, InsertVisitor, Update, Rollback
    <3> QED BY <3>1, NothingShows
  <2> QED BY <2>1, <2>2, <2>3 DEF Next
<1> QED BY <1>1, <1>2, Invariance, PTL DEF Spec, ImplementsVisitCounter, VisitCounterOf!Spec, Counts
====
