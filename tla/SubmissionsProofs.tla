---- MODULE SubmissionsProofs ----
(***************************************************************************)
(* Proofs about Submissions for every number of requests, every window and *)
(* skew, and whether or not a COMMIT can be ambiguous: duplicates are kept *)
(* apart, what is notified or accepted is stored, and the requests         *)
(* implement Intake.                                                       *)
(***************************************************************************)
EXTENDS Submissions, TLAPS

\* What a request being served knows: its window does not start later than its
\* transaction allows, at "insert" the table still has no row in its window, and
\* at "drop" and "notify" the row it relies on is there.
RequestOK(h) ==
  /\ handlers[h].token # NoToken <=> handlers[h].payload \in EarlyAccess
  /\ handlers[h].step \in {"lock", "look", "insert", "notify"} =>
       handlers[h].since <= handlers[h].at + Skew - Window
  /\ handlers[h].step = "insert" => \A i \in DOMAIN table :
       table[i].payload = handlers[h].payload => table[i].createdAt < handlers[h].since
  /\ handlers[h].step = "drop" => \E i \in DOMAIN table :
       table[i].payload = handlers[h].payload /\ table[i].createdAt >= handlers[h].since
  /\ handlers[h].step = "notify" =>
       /\ handlers[h].token # NoToken
       /\ \E i \in DOMAIN table : /\ table[i].payload = handlers[h].payload
                                  /\ table[i].token = handlers[h].token
                                  /\ table[i].createdAt = handlers[h].at
RequestsOK == \A h \in Handlers : handlers[h] # Idle => RequestOK(h)

\* The advisory lock: one transaction of a payload at a time.
Holds(h) == handlers[h] # Idle /\ handlers[h].step \in {"look", "insert"}
LockExclusive ==
  \A h, k \in Handlers : Holds(h) /\ Holds(k) /\ h # k => handlers[h].payload # handlers[k].payload

Accounted == Skew <= Window => AcceptedIsStored

IInv ==
  /\ TypeOK
  /\ RequestsOK
  /\ LockExclusive
  /\ DuplicatesApart
  /\ NotifiedIsStored
  /\ Accounted

----
(* Steps of one handler.                                                  *)

LEMMA Fields ==
  ASSUME TypeOK, NEW h \in Handlers, handlers[h] # Idle
  PROVE  /\ handlers[h] \in Request
         /\ handlers[h].payload \in Payloads
         /\ handlers[h].token \in Tokens \cup {NoToken}
         /\ handlers[h].at \in Nat /\ handlers[h].since \in Int
BY DEF TypeOK, Request

LEMMA Rows ==
  ASSUME TypeOK
  PROVE  \A i \in DOMAIN table : table[i] \in Row /\ table[i].createdAt \in Nat
<1>1. table \in Seq(Row)
      BY DEF TypeOK
<1>2. \A i \in DOMAIN table : table[i] \in Row
      BY <1>1
<1> QED BY <1>2 DEF Row

LEMMA RequestsHandled ==
  ASSUME TypeOK, NEW h \in Handlers, NEW x \in Request \cup {Idle},
         handlers' = [handlers EXCEPT ![h] = x]
  PROVE  /\ handlers' \in [Handlers -> Request \cup {Idle}]
         /\ handlers'[h] = x
         /\ \A k \in Handlers \ {h} : handlers'[k] = handlers[k]
BY DEF TypeOK

LEMMA GoToRequest ==
  ASSUME TypeOK, NEW h \in Handlers, handlers[h] # Idle, NEW step \in Steps, GoTo(h, step)
  PROVE  /\ handlers' \in [Handlers -> Request \cup {Idle}]
         /\ \A k \in Handlers \ {h} : handlers'[k] = handlers[k]
         /\ handlers'[h] # Idle /\ handlers'[h].step = step
         /\ handlers'[h].payload = handlers[h].payload /\ handlers'[h].token = handlers[h].token
         /\ handlers'[h].at = handlers[h].at /\ handlers'[h].since = handlers[h].since
<1> DEFINE next == [handlers[h] EXCEPT !.step = step]
<1>1. /\ next \in Request /\ next.step = step /\ next.payload = handlers[h].payload
      /\ next.token = handlers[h].token /\ next.at = handlers[h].at
      /\ next.since = handlers[h].since
      BY Fields DEF Request
<1>2. handlers' = [handlers EXCEPT ![h] = next] /\ next # Idle
      BY <1>1, SubmissionNullsAssumption DEF GoTo
<1> HIDE DEF next
<1> QED BY <1>1, <1>2, RequestsHandled

LEMMA DiscardEffect ==
  ASSUME TypeOK, NEW t \in Tokens \cup {NoToken}, Discard(t)
  PROVE  files' \in SUBSET Tokens /\ strays' \in SUBSET Tokens /\ faults' \in 0..MaxFaults
BY SubmissionsAssumption DEF TypeOK, Discard, Delete, Abandon, Fault, NoFault

\* A step of handler h that leaves the table alone leaves the others' records as
\* good as they were.
LEMMA RequestsFrame ==
  ASSUME RequestsOK, NEW h \in Handlers, table' = table,
         \A k \in Handlers \ {h} : handlers'[k] = handlers[k],
         handlers'[h] # Idle => RequestOK(h)'
  PROVE  RequestsOK'
<1> SUFFICES ASSUME NEW k \in Handlers, handlers'[k] # Idle
             PROVE  RequestOK(k)'
    BY DEF RequestsOK
<1>1. CASE k = h
      BY <1>1
<1>2. CASE k # h
  <2>1. handlers'[k] = handlers[k] /\ RequestOK(k)
        BY <1>2 DEF RequestsOK
  <2> QED BY <2>1 DEF RequestOK
<1> QED BY <1>1, <1>2

\* A step of handler h that takes no lock keeps the locks exclusive.
LEMMA LockFrame ==
  ASSUME LockExclusive, NEW h \in Handlers,
         \A k \in Handlers \ {h} : handlers'[k] = handlers[k],
         Holds(h)' => Holds(h) /\ handlers'[h].payload = handlers[h].payload
  PROVE  LockExclusive'
<1> SUFFICES ASSUME NEW k \in Handlers, NEW l \in Handlers, Holds(k)', Holds(l)', k # l
             PROVE  handlers'[k].payload # handlers'[l].payload
    BY DEF LockExclusive
<1>1. ASSUME NEW m \in Handlers, Holds(m)'
      PROVE  Holds(m) /\ handlers'[m].payload = handlers[m].payload
  <2>1. CASE m = h
        BY <1>1, <2>1
  <2>2. CASE m # h
        BY <1>1, <2>2 DEF Holds
  <2> QED BY <2>1, <2>2
<1> QED BY <1>1 DEF LockExclusive

\* Steps that leave the table and the answers alone: what is left to show.
LEMMA QuietFrame ==
  ASSUME IInv, UNCHANGED <<table, accepted, notified>>, TypeOK', RequestsOK', LockExclusive'
  PROVE  IInv'
BY DEF IInv, DuplicatesApart, NotifiedIsStored, Accounted, AcceptedIsStored

\* The answer "success" of a request whose row is there.
LEMMA AcceptFrame ==
  ASSUME IInv, NEW h \in Handlers, handlers[h] # Idle, Accept(h), table' = table,
         Skew <= Window => \E i \in DOMAIN table :
           table[i].payload = handlers[h].payload /\ table[i].createdAt >= handlers[h].since
  PROVE  accepted' \in [Payloads -> Int] /\ Accounted'
<1>1. handlers[h].payload \in Payloads /\ handlers[h].since \in Int
      BY Fields DEF IInv
<1>2. accepted' \in [Payloads -> Int]
      BY <1>1 DEF IInv, TypeOK, Accept
<1>3. \A p \in Payloads : \/ accepted'[p] = accepted[p]
                          \/ p = handlers[h].payload /\ accepted'[p] = handlers[h].since
      BY <1>1 DEF IInv, TypeOK, Accept
<1>4. Accounted'
      BY <1>3 DEF IInv, Accounted, AcceptedIsStored
<1> QED BY <1>2, <1>4

----
(* Steps before the INSERT.                                               *)

LEMMA SubmitStep ==
  ASSUME IInv, NEW h \in Handlers, NEW p \in Payloads, Submit(h, p)
  PROVE  IInv'
<1>1. PICK t \in Tokens \cup {NoToken} :
        /\ t # NoToken <=> p \in EarlyAccess
        /\ t = NoToken => files' = files
        /\ t # NoToken => files' = files \cup {t}
        /\ handlers' = [handlers EXCEPT ![h] =
             [step |-> "begin", payload |-> p, token |-> t, at |-> clock,
              since |-> Never, timely |-> FALSE]]
      BY DEF Submit, Put
<1> DEFINE next == [step |-> "begin", payload |-> p, token |-> t, at |-> clock,
                    since |-> Never, timely |-> FALSE]
<1>2. next \in Request /\ next.step = "begin" /\ next.payload = p /\ next.token = t
      BY SubmissionsAssumption DEF IInv, TypeOK, Request, Steps, Never
<1> HIDE DEF next
<1>3. /\ handlers' \in [Handlers -> Request \cup {Idle}]
      /\ handlers'[h] = next
      /\ \A k \in Handlers \ {h} : handlers'[k] = handlers[k]
      BY <1>1, <1>2, RequestsHandled DEF IInv, next
<1>4. TypeOK'
  <2>1. files' \in SUBSET Tokens
        BY <1>1 DEF IInv, TypeOK
  <2> QED BY <1>3, <2>1 DEF IInv, TypeOK, Submit
<1>5. RequestsOK'
  <2>1. RequestOK(h)'
        BY <1>1, <1>2, <1>3 DEF RequestOK
  <2> QED BY <1>3, <2>1, RequestsFrame DEF IInv, Submit
<1>6. LockExclusive'
      BY <1>2, <1>3, LockFrame DEF IInv, Holds
<1> QED BY <1>4, <1>5, <1>6, QuietFrame DEF Submit

LEMMA BeginStep ==
  ASSUME IInv, NEW h \in Handlers, Begin(h)
  PROVE  IInv'
<1>1. handlers[h] # Idle /\ handlers[h] \in Request /\ handlers[h].at \in Nat
      BY Fields DEF IInv, Begin, At
<1>2. clock \in Nat /\ Skew \in Nat /\ Window \in Nat /\ ReviewLifetime \in Nat
      BY SubmissionsAssumption DEF IInv, TypeOK
<1>3. PICK issued \in LocalNow(handlers[h]), now \in LocalNow(handlers[h]) :
        handlers' = [handlers EXCEPT ![h] =
          [handlers[h] EXCEPT !.step = "lock", !.at = clock, !.since = now - Window,
             !.timely = handlers[h].token # NoToken /\ issued + ReviewLifetime > clock]]
      BY DEF Begin
<1>4. now \in Int /\ now <= clock + Skew
      BY <1>1, <1>2 DEF LocalNow
<1> DEFINE timely == handlers[h].token # NoToken /\ issued + ReviewLifetime > clock
           next == [handlers[h] EXCEPT !.step = "lock", !.at = clock, !.since = now - Window,
                                       !.timely = timely]
<1>5. timely \in BOOLEAN
      OBVIOUS
<1>6. handlers' = [handlers EXCEPT ![h] = next]
      BY <1>3
<1> HIDE DEF timely
<1>7. /\ next \in Request /\ next.step = "lock" /\ next.payload = handlers[h].payload
      /\ next.token = handlers[h].token /\ next.at = clock /\ next.since = now - Window
  <2>1. now - Window \in Int /\ clock \in Nat
        BY <1>2, <1>4
  <2> QED BY <1>1, <1>5, <2>1 DEF Request, Steps
<1> HIDE DEF next
<1>8. /\ handlers' \in [Handlers -> Request \cup {Idle}]
      /\ handlers'[h] = next
      /\ \A k \in Handlers \ {h} : handlers'[k] = handlers[k]
      BY <1>6, <1>7, RequestsHandled DEF IInv
<1>9. TypeOK'
      BY <1>8 DEF IInv, TypeOK, Begin
<1>10. RequestsOK'
  <2>1. next.since <= next.at + Skew - Window
        BY <1>2, <1>4, <1>7
  <2>2. RequestOK(h)'
        BY <1>1, <1>7, <1>8, <2>1 DEF IInv, RequestsOK, RequestOK
  <2> QED BY <1>8, <2>2, RequestsFrame DEF IInv, Begin
<1>11. LockExclusive'
      BY <1>7, <1>8, LockFrame DEF IInv, Holds
<1> QED BY <1>9, <1>10, <1>11, QuietFrame DEF Begin

LEMMA LockStep ==
  ASSUME IInv, NEW h \in Handlers, Lock(h)
  PROVE  IInv'
<1>1. handlers[h] # Idle /\ handlers[h].step = "lock"
      BY DEF Lock, At
<1>2. /\ handlers' \in [Handlers -> Request \cup {Idle}]
      /\ \A k \in Handlers \ {h} : handlers'[k] = handlers[k]
      /\ handlers'[h] # Idle /\ handlers'[h].step = "look"
      /\ handlers'[h].payload = handlers[h].payload /\ handlers'[h].token = handlers[h].token
      /\ handlers'[h].at = handlers[h].at /\ handlers'[h].since = handlers[h].since
      BY <1>1, GoToRequest DEF IInv, Lock, Steps
<1>3. TypeOK'
      BY <1>2 DEF IInv, TypeOK, Lock
<1>4. RequestsOK'
  <2>1. RequestOK(h)'
        BY <1>1, <1>2 DEF IInv, RequestsOK, RequestOK
  <2> QED BY <1>2, <2>1, RequestsFrame DEF IInv, Lock
<1>5. LockExclusive'
  <2>1. \A k \in Handlers \ {h} : Holds(k) => handlers[k].payload # handlers[h].payload
        BY DEF Lock, LockFree, Holds
  <2> QED BY <1>2, <2>1 DEF IInv, LockExclusive, Holds
<1> QED BY <1>3, <1>4, <1>5, QuietFrame DEF Lock

LEMMA LookStep ==
  ASSUME IInv, NEW h \in Handlers, Look(h)
  PROVE  IInv'
<1>1. handlers[h] # Idle /\ handlers[h].step = "look"
      BY DEF Look, At
<1>2. PICK step \in {"drop", "insert"} :
        /\ GoTo(h, step)
        /\ step = "drop" <=> Duplicate(handlers[h].payload, handlers[h].since)
      BY DEF Look
<1>3. /\ handlers' \in [Handlers -> Request \cup {Idle}]
      /\ \A k \in Handlers \ {h} : handlers'[k] = handlers[k]
      /\ handlers'[h] # Idle /\ handlers'[h].step = step
      /\ handlers'[h].payload = handlers[h].payload /\ handlers'[h].token = handlers[h].token
      /\ handlers'[h].at = handlers[h].at /\ handlers'[h].since = handlers[h].since
      BY <1>1, <1>2, GoToRequest DEF IInv, Steps
<1>4. TypeOK'
      BY <1>3 DEF IInv, TypeOK, Look
<1>5. RequestsOK'
  <2>1. RequestOK(h) /\ handlers[h].since \in Int /\ table' = table
        BY <1>1, Fields DEF IInv, RequestsOK, Look
  <2>2. step = "drop" => \E i \in DOMAIN table :
          table[i].payload = handlers[h].payload /\ table[i].createdAt >= handlers[h].since
        BY <1>2 DEF Duplicate
  <2>3. step = "insert" => \A i \in DOMAIN table :
          table[i].payload = handlers[h].payload => table[i].createdAt < handlers[h].since
        BY <1>2, <2>1, Rows DEF IInv, Duplicate
  <2>4. RequestOK(h)'
        BY <1>1, <1>3, <2>1, <2>2, <2>3 DEF RequestOK
  <2> QED BY <1>3, <2>4, RequestsFrame DEF IInv, Look
<1>6. LockExclusive'
      BY <1>1, <1>3, LockFrame DEF IInv, Holds
<1> QED BY <1>4, <1>5, <1>6, QuietFrame DEF Look

----
(* The INSERT and its COMMIT.                                             *)

\* One row is appended, by a handler that holds its payload's lock and found no
\* row in its window.
LEMMA AppendRow ==
  ASSUME TypeOK, NEW row \in Row, table' = Append(table, row)
  PROVE  /\ table' \in Seq(Row) /\ Len(table) + 1 \in DOMAIN table'
         /\ table'[Len(table) + 1] = row
         /\ \A i \in DOMAIN table : /\ i \in DOMAIN table' /\ table'[i] = table[i]
                                    /\ i \in Nat /\ i < Len(table) + 1
         /\ \A i \in DOMAIN table' : i \in DOMAIN table \/ i = Len(table) + 1
BY DEF TypeOK

LEMMA InsertRowStep ==
  ASSUME IInv, NEW h \in Handlers, handlers[h] # Idle, handlers[h].step = "insert",
         InsertRow(handlers[h])
  PROVE  /\ table' \in Seq(Row)
         /\ \A i \in DOMAIN table' :
              table'[i].token # NoToken <=> table'[i].payload \in EarlyAccess
         /\ DuplicatesApart'
         /\ \E i \in DOMAIN table' : /\ table'[i].payload = handlers[h].payload
                                     /\ table'[i].token = handlers[h].token
                                     /\ table'[i].createdAt = handlers[h].at
         /\ notified' = notified => NotifiedIsStored'
         /\ accepted' = accepted => Accounted'
         /\ \A k \in Handlers \ {h} : handlers[k] # Idle /\ handlers'[k] = handlers[k]
                                        => RequestOK(k)'
<1> DEFINE r == handlers[h]
           row == [payload |-> handlers[h].payload, createdAt |-> handlers[h].at,
                   token |-> handlers[h].token]
           n == Len(table) + 1
<1>1. /\ row \in Row /\ row.payload = r.payload /\ row.createdAt = r.at /\ row.token = r.token
      /\ r.at \in Nat /\ r.since \in Int
      BY Fields DEF IInv, Row
<1>2. table' = Append(table, row)
      BY DEF InsertRow
<1> HIDE DEF row
<1>3. /\ table' \in Seq(Row) /\ n \in DOMAIN table' /\ table'[n] = row
      /\ \A i \in DOMAIN table : /\ i \in DOMAIN table' /\ table'[i] = table[i]
                                 /\ i \in Nat /\ i < n
      /\ \A i \in DOMAIN table' : i \in DOMAIN table \/ i = n
      BY <1>1, <1>2, AppendRow DEF IInv
<1> HIDE DEF n
<1>4. /\ r.token # NoToken <=> r.payload \in EarlyAccess
      /\ r.since <= r.at + Skew - Window
      /\ \A i \in DOMAIN table : table[i].payload = r.payload => table[i].createdAt < r.since
      BY DEF IInv, RequestsOK, RequestOK
<1>5. \A i \in DOMAIN table' :
        table'[i].token # NoToken <=> table'[i].payload \in EarlyAccess
      BY <1>1, <1>3, <1>4 DEF IInv, TypeOK
<1>6. DuplicatesApart'
  <2> SUFFICES ASSUME NEW i \in DOMAIN table', NEW j \in DOMAIN table', i < j,
                      table'[i].payload = table'[j].payload
               PROVE  table'[j].createdAt - table'[i].createdAt > Window - Skew
      BY DEF DuplicatesApart
  <2>1. CASE j \in DOMAIN table
    <3>1. i # n
          BY <1>3, <2>1
    <3>2. i \in DOMAIN table /\ table'[i] = table[i] /\ table'[j] = table[j]
          BY <1>3, <2>1, <3>1
    <3> QED BY <2>1, <3>2 DEF IInv, DuplicatesApart
  <2>2. CASE j = n
    <3>1. i \in DOMAIN table /\ table'[i] = table[i]
          BY <1>3, <2>2
    <3>2. table[i].createdAt < r.since /\ table[i].createdAt \in Nat
          BY <1>1, <1>3, <1>4, <2>2, <3>1, Rows DEF IInv
    <3>3. table'[j].createdAt = r.at
          BY <1>1, <1>3, <2>2
    <3> QED BY <1>1, <1>4, <3>1, <3>2, <3>3, SubmissionsAssumption
  <2> QED BY <1>3, <2>1, <2>2
<1>7. \E i \in DOMAIN table' : /\ table'[i].payload = r.payload /\ table'[i].token = r.token
                               /\ table'[i].createdAt = r.at
      BY <1>1, <1>3
<1>8. notified' = notified => NotifiedIsStored'
      BY <1>3 DEF IInv, NotifiedIsStored
<1>9. accepted' = accepted => Accounted'
      BY <1>3 DEF IInv, Accounted, AcceptedIsStored
<1>10. ASSUME NEW k \in Handlers \ {h}, handlers[k] # Idle, handlers'[k] = handlers[k]
       PROVE  RequestOK(k)'
  <2>1. RequestOK(k)
        BY <1>10 DEF IInv, RequestsOK
  <2>2. handlers[k].step = "insert" => handlers[k].payload # r.payload
        BY <1>10 DEF IInv, LockExclusive, Holds
  <2>3. handlers[k].step = "insert" => \A i \in DOMAIN table' :
          table'[i].payload = handlers[k].payload => table'[i].createdAt < handlers[k].since
        BY <1>1, <1>3, <2>1, <2>2 DEF RequestOK
  <2>4. handlers[k].step = "drop" => \E i \in DOMAIN table' :
          table'[i].payload = handlers[k].payload /\ table'[i].createdAt >= handlers[k].since
        BY <1>3, <2>1 DEF RequestOK
  <2>5. handlers[k].step = "notify" =>
          /\ handlers[k].token # NoToken
          /\ \E i \in DOMAIN table' : /\ table'[i].payload = handlers[k].payload
                                      /\ table'[i].token = handlers[k].token
                                      /\ table'[i].createdAt = handlers[k].at
        BY <1>3, <2>1 DEF RequestOK
  <2> QED BY <1>10, <2>1, <2>3, <2>4, <2>5 DEF RequestOK
<1> QED BY <1>3, <1>5, <1>6, <1>7, <1>8, <1>9, <1>10

LEMMA InsertStep ==
  ASSUME IInv, NEW h \in Handlers, Insert(h)
  PROVE  IInv'
<1> DEFINE r == handlers[h]
<1>1. handlers[h] # Idle /\ handlers[h].step = "insert" /\ InsertRow(handlers[h])
      BY DEF Insert, At
<1>2. /\ table' \in Seq(Row)
      /\ \A i \in DOMAIN table' : table'[i].token # NoToken <=> table'[i].payload \in EarlyAccess
      /\ DuplicatesApart'
      /\ \E i \in DOMAIN table' : /\ table'[i].payload = r.payload /\ table'[i].token = r.token
                                  /\ table'[i].createdAt = r.at
      /\ NotifiedIsStored'
      /\ accepted' = accepted => Accounted'
      /\ \A k \in Handlers \ {h} : handlers[k] # Idle /\ handlers'[k] = handlers[k] => RequestOK(k)'
      BY <1>1, InsertRowStep DEF Insert
<1>3. /\ r.payload \in Payloads /\ r.token \in Tokens \cup {NoToken}
      /\ r.at \in Nat /\ r.since \in Int
      BY <1>1, Fields DEF IInv
<1>4. /\ r.token # NoToken <=> r.payload \in EarlyAccess
      /\ r.since <= r.at + Skew - Window
      BY <1>1 DEF IInv, RequestsOK, RequestOK
<1>5. CASE r.token # NoToken
  <2>1. GoTo(h, "notify") /\ accepted' = accepted
        BY <1>5 DEF Insert
  <2>2. /\ handlers' \in [Handlers -> Request \cup {Idle}]
        /\ \A k \in Handlers \ {h} : handlers'[k] = handlers[k]
        /\ handlers'[h] # Idle /\ handlers'[h].step = "notify"
        /\ handlers'[h].payload = r.payload /\ handlers'[h].token = r.token
        /\ handlers'[h].at = r.at /\ handlers'[h].since = r.since
        BY <1>1, <2>1, GoToRequest DEF IInv, Steps
  <2>3. TypeOK'
        BY <1>2, <2>1, <2>2 DEF IInv, TypeOK, Insert
  <2>4. RequestOK(h)'
        BY <1>2, <1>4, <1>5, <2>2 DEF RequestOK
  <2>5. RequestsOK'
        BY <1>2, <2>2, <2>4 DEF RequestsOK
  <2>6. LockExclusive'
        BY <2>2, LockFrame DEF IInv, Holds
  <2> QED BY <1>2, <2>1, <2>3, <2>5, <2>6 DEF IInv
<1>6. CASE r.token = NoToken
  <2>1. Return(h) /\ Accept(h)
        BY <1>6 DEF Insert
  <2>2. /\ handlers' \in [Handlers -> Request \cup {Idle}]
        /\ handlers'[h] = Idle
        /\ \A k \in Handlers \ {h} : handlers'[k] = handlers[k]
        BY <2>1, RequestsHandled DEF IInv, Return
  <2>3. \A p \in Payloads : \/ accepted'[p] = accepted[p]
                            \/ p = r.payload /\ accepted'[p] = r.since
        BY <1>3, <2>1 DEF IInv, TypeOK, Accept
  <2>4. accepted' \in [Payloads -> Int]
        BY <1>3, <2>1 DEF IInv, TypeOK, Accept
  <2>5. TypeOK'
        BY <1>2, <2>2, <2>4 DEF IInv, TypeOK, Insert
  <2>6. RequestsOK'
        BY <1>2, <2>2 DEF RequestsOK
  <2>7. LockExclusive'
        BY <2>2, LockFrame DEF IInv, Holds
  <2>8. Accounted'
    <3> SUFFICES ASSUME Skew <= Window, NEW p \in Payloads, accepted'[p] # Never
                 PROVE  \E i \in DOMAIN table' :
                          table'[i].payload = p /\ table'[i].createdAt >= accepted'[p]
        BY DEF Accounted, AcceptedIsStored, Never
    <3>1. r.at >= r.since
          BY <1>3, <1>4, SubmissionsAssumption
    <3>2. CASE p = r.payload /\ accepted'[p] = r.since
          BY <1>2, <3>1, <3>2
    <3>3. CASE accepted'[p] = accepted[p]
      <4>1. PICK i \in DOMAIN table : table[i].payload = p /\ table[i].createdAt >= accepted[p]
            BY <3>3 DEF IInv, Accounted, AcceptedIsStored
      <4>2. i \in DOMAIN table' /\ table'[i] = table[i]
        <5>1. /\ [payload |-> r.payload, createdAt |-> r.at, token |-> r.token] \in Row
              BY <1>3 DEF Row
        <5> QED BY <1>1, <5>1, AppendRow DEF IInv, InsertRow
      <4> QED BY <3>3, <4>1, <4>2
    <3> QED BY <2>3, <3>2, <3>3
  <2> QED BY <1>2, <2>5, <2>6, <2>7, <2>8 DEF IInv
<1> QED BY <1>5, <1>6

LEMMA CreateFailsStep ==
  ASSUME IInv, NEW h \in Handlers, CreateFails(h)
  PROVE  IInv'
<1> DEFINE r == handlers[h]
<1>1. handlers[h] # Idle /\ GoTo(h, "undo")
      BY DEF CreateFails
<1>2. faults' \in 0..MaxFaults
      BY SubmissionsAssumption DEF IInv, TypeOK, CreateFails, Fault, NoFault
<1>3. /\ handlers' \in [Handlers -> Request \cup {Idle}]
      /\ \A k \in Handlers \ {h} : handlers'[k] = handlers[k]
      /\ handlers'[h] # Idle /\ handlers'[h].step = "undo"
      /\ handlers'[h].payload = r.payload /\ handlers'[h].token = r.token
      BY <1>1, GoToRequest DEF IInv, Steps
<1>4. RequestOK(h)'
      BY <1>1, <1>3 DEF IInv, RequestsOK, RequestOK
<1>5. LockExclusive'
      BY <1>3, LockFrame DEF IInv, Holds
<1>6. CASE table' = table
  <2>1. TypeOK'
        BY <1>2, <1>3, <1>6 DEF IInv, TypeOK, CreateFails
  <2>2. RequestsOK'
        BY <1>3, <1>4, <1>6, RequestsFrame DEF IInv
  <2> QED BY <1>5, <1>6, <2>1, <2>2, QuietFrame DEF CreateFails
<1>7. CASE handlers[h].step = "insert" /\ InsertRow(handlers[h])
  <2>1. /\ table' \in Seq(Row)
        /\ \A i \in DOMAIN table' : table'[i].token # NoToken <=> table'[i].payload \in EarlyAccess
        /\ DuplicatesApart' /\ NotifiedIsStored' /\ Accounted'
        /\ \A k \in Handlers \ {h} : handlers[k] # Idle /\ handlers'[k] = handlers[k]
                                       => RequestOK(k)'
        BY <1>1, <1>7, InsertRowStep DEF CreateFails
  <2>2. TypeOK'
        BY <1>2, <1>3, <2>1 DEF IInv, TypeOK, CreateFails
  <2>3. RequestsOK'
        BY <1>3, <1>4, <2>1 DEF RequestsOK
  <2> QED BY <1>5, <2>1, <2>2, <2>3 DEF IInv
<1> QED BY <1>6, <1>7 DEF CreateFails

----
(* The steps that end a request.                                          *)

LEMMA ReturnFrame ==
  ASSUME IInv, NEW h \in Handlers, Return(h), table' = table
  PROVE  /\ handlers' \in [Handlers -> Request \cup {Idle}]
         /\ RequestsOK' /\ LockExclusive'
<1>1. /\ handlers' \in [Handlers -> Request \cup {Idle}]
      /\ handlers'[h] = Idle
      /\ \A k \in Handlers \ {h} : handlers'[k] = handlers[k]
      BY RequestsHandled DEF IInv, Return
<1>2. RequestsOK'
      BY <1>1, RequestsFrame DEF IInv
<1>3. LockExclusive'
      BY <1>1, LockFrame DEF IInv, Holds
<1> QED BY <1>1, <1>2, <1>3

LEMMA UndoStep ==
  ASSUME IInv, NEW h \in Handlers, Undo(h)
  PROVE  IInv'
<1>1. files' \in SUBSET Tokens /\ strays' \in SUBSET Tokens /\ faults' \in 0..MaxFaults
      BY Fields, DiscardEffect DEF IInv, Undo, At
<1>2. handlers' \in [Handlers -> Request \cup {Idle}] /\ RequestsOK' /\ LockExclusive'
      BY ReturnFrame DEF Undo
<1>3. TypeOK'
      BY <1>1, <1>2 DEF IInv, TypeOK, Undo
<1> QED BY <1>2, <1>3, QuietFrame DEF Undo

LEMMA StopStep ==
  ASSUME IInv, NEW h \in Handlers, Stop(h)
  PROVE  IInv'
<1>1. strays' \in SUBSET Tokens /\ faults' \in 0..MaxFaults
      BY SubmissionsAssumption DEF IInv, TypeOK, Stop, Fault, Abandon
<1>2. handlers' \in [Handlers -> Request \cup {Idle}] /\ RequestsOK' /\ LockExclusive'
      BY ReturnFrame DEF Stop
<1>3. TypeOK'
      BY <1>1, <1>2 DEF IInv, TypeOK, Stop
<1> QED BY <1>2, <1>3, QuietFrame DEF Stop

LEMMA DropStep ==
  ASSUME IInv, NEW h \in Handlers, Drop(h)
  PROVE  IInv'
<1>1. files' \in SUBSET Tokens /\ strays' \in SUBSET Tokens /\ faults' \in 0..MaxFaults
      BY Fields, DiscardEffect DEF IInv, Drop, At
<1>2. handlers' \in [Handlers -> Request \cup {Idle}] /\ RequestsOK' /\ LockExclusive'
      BY ReturnFrame DEF Drop
<1>3. \E i \in DOMAIN table :
        table[i].payload = handlers[h].payload /\ table[i].createdAt >= handlers[h].since
      BY DEF IInv, RequestsOK, RequestOK, Drop, At
<1>4. accepted' \in [Payloads -> Int] /\ Accounted'
      BY <1>3, AcceptFrame DEF Drop, At
<1>5. TypeOK'
      BY <1>1, <1>2, <1>4 DEF IInv, TypeOK, Drop
<1>6. DuplicatesApart' /\ NotifiedIsStored'
      BY DEF IInv, DuplicatesApart, NotifiedIsStored, Drop
<1> QED BY <1>2, <1>4, <1>5, <1>6 DEF IInv

LEMMA NotifyStep ==
  ASSUME IInv, NEW h \in Handlers, Notify(h)
  PROVE  IInv'
<1>1. handlers[h] # Idle /\ handlers[h].step = "notify"
      BY DEF Notify, At
<1>2. /\ handlers[h].token \in Tokens \cup {NoToken}
      /\ handlers[h].at \in Nat /\ handlers[h].since \in Int
      BY <1>1, Fields DEF IInv
<1>3. handlers' \in [Handlers -> Request \cup {Idle}] /\ RequestsOK' /\ LockExclusive'
      BY ReturnFrame DEF Notify
<1>4. PICK i \in DOMAIN table : /\ table[i].payload = handlers[h].payload
                                /\ table[i].token = handlers[h].token
                                /\ table[i].createdAt = handlers[h].at
      BY <1>1 DEF IInv, RequestsOK, RequestOK
<1>5. /\ handlers[h].token # NoToken
      /\ handlers[h].since <= handlers[h].at + Skew - Window
      BY <1>1 DEF IInv, RequestsOK, RequestOK
<1>6. Skew <= Window => handlers[h].at >= handlers[h].since
      BY <1>2, <1>5, SubmissionsAssumption
<1>7. accepted' \in [Payloads -> Int] /\ Accounted'
      BY <1>1, <1>4, <1>6, AcceptFrame DEF Notify
<1>8. TypeOK'
      BY <1>2, <1>3, <1>5, <1>7 DEF IInv, TypeOK, Notify
<1>9. DuplicatesApart'
      BY DEF IInv, DuplicatesApart, Notify
<1>10. NotifiedIsStored'
      BY <1>4 DEF IInv, NotifiedIsStored, Notify
<1> QED BY <1>3, <1>7, <1>8, <1>9, <1>10 DEF IInv

----
(* The theorems.                                                          *)

LEMMA InitOK == Init => IInv
<1> SUFFICES ASSUME Init
             PROVE  IInv
    OBVIOUS
<1>1. DOMAIN table = {} /\ table \in Seq(Row)
      BY DEF Init
<1>2. Never \in Int
      BY SubmissionsAssumption DEF Never
<1>3. TypeOK
      BY <1>1, <1>2, SubmissionsAssumption DEF Init, TypeOK
<1>4. RequestsOK /\ LockExclusive
      BY DEF Init, RequestsOK, LockExclusive, Holds
<1>5. DuplicatesApart /\ NotifiedIsStored
      BY <1>1 DEF Init, DuplicatesApart, NotifiedIsStored
<1>6. Accounted
      BY DEF Init, Accounted, AcceptedIsStored
<1> QED BY <1>3, <1>4, <1>5, <1>6 DEF IInv

LEMMA StepOK == IInv /\ [Next]_vars => IInv'
<1> SUFFICES ASSUME IInv, [Next]_vars
             PROVE  IInv'
    OBVIOUS
<1>1. ASSUME Tick \/ UNCHANGED vars
      PROVE  IInv'
  <2>1. UNCHANGED <<table, handlers, accepted, notified>> /\ TypeOK'
        BY <1>1 DEF IInv, TypeOK, Tick, vars
  <2>2. RequestsOK' /\ LockExclusive'
        BY <2>1 DEF IInv, RequestsOK, RequestOK, LockExclusive, Holds
  <2> QED BY <2>1, <2>2, QuietFrame
<1>2. ASSUME NEW h \in Handlers, NEW p \in Payloads, Submit(h, p)
      PROVE  IInv'
      BY <1>2, SubmitStep
<1>3. ASSUME NEW h \in Handlers, Begin(h) \/ Lock(h) \/ Look(h) \/ Insert(h) \/ CreateFails(h)
      PROVE  IInv'
      BY <1>3, BeginStep, LockStep, LookStep, InsertStep, CreateFailsStep
<1>4. ASSUME NEW h \in Handlers, Undo(h) \/ Drop(h) \/ Notify(h) \/ Stop(h)
      PROVE  IInv'
      BY <1>4, UndoStep, DropStep, NotifyStep, StopStep
<1> QED BY <1>1, <1>2, <1>3, <1>4 DEF Next

\* The inductive invariant: every reachable state satisfies IInv.
THEOREM Invariance == Spec => []IInv
BY InitOK, StepOK, PTL DEF Spec

\* Every variable keeps its type, and a row has a review capability exactly when
\* it is of type early_access.
THEOREM TypeCorrect == Spec => []TypeOK
<1>1. IInv => TypeOK
      BY DEF IInv
<1> QED BY Invariance, <1>1, PTL

\* Store.CreateSubmission never stores two rows of one payload within the
\* duplicate window, but for the skew of the clocks.
THEOREM DuplicatesKeptApart == Spec => []DuplicatesApart
<1>1. IInv => DuplicatesApart
      BY DEF IInv
<1> QED BY Invariance, <1>1, PTL

\* Service.Submit notifies the reviewer of stored applications only, even when a
\* COMMIT is ambiguous.
THEOREM NotifiedAreStored == Spec => []NotifiedIsStored
<1>1. IInv => NotifiedIsStored
      BY DEF IInv
<1> QED BY Invariance, <1>1, PTL

\* With clocks that agree to within the duplicate window, a request that is
\* answered success has a row inside its window.
THEOREM AcceptedAreStored == Skew <= Window => (Spec => []AcceptedIsStored)
<1> SUFFICES ASSUME Skew <= Window
             PROVE  Spec => []AcceptedIsStored
    OBVIOUS
<1>1. IInv => AcceptedIsStored
      BY DEF IInv, Accounted
<1> QED BY Invariance, <1>1, PTL

----
(* Files and rows, when the error of a COMMIT means that it had no effect. *)

Stored     == {table[i].token : i \in DOMAIN table} \ {NoToken}
Carries(h) == handlers[h] # Idle /\ handlers[h].token # NoToken

\* Beside FilesMatchRows: the token of a request is that of no other request, and
\* as long as the request has not inserted its row, nobody's row has it.
FilesInv ==
  /\ Stored \subseteq files
  /\ \A t \in files \ (Stored \cup strays) : \E h \in Handlers : Carries(h) /\ handlers[h].token = t
  /\ \A h \in Handlers : Carries(h) =>
       /\ handlers[h].token \in files
       /\ handlers[h].token \in Stored <=> handlers[h].step = "notify"
  /\ \A h, k \in Handlers : Carries(h) /\ Carries(k) /\ handlers[h].token = handlers[k].token => h = k

\* A request goes on, and rows and files stay as they are.
LEMMA FilesOnMove ==
  ASSUME FilesInv, NEW h \in Handlers, handlers[h] # Idle, handlers'[h] # Idle,
         handlers'[h].token = handlers[h].token,
         handlers[h].step # "notify", handlers'[h].step # "notify",
         \A k \in Handlers \ {h} : handlers'[k] = handlers[k],
         UNCHANGED <<table, files, strays>>
  PROVE  FilesInv'
<1>1. Stored' = Stored
      BY DEF Stored
<1>2. \A k \in Handlers : /\ Carries(k)' <=> Carries(k)
                          /\ Carries(k) => /\ handlers'[k].token = handlers[k].token
                                           /\ handlers'[k].step = "notify" <=> handlers[k].step = "notify"
      BY DEF Carries
<1> QED BY <1>1, <1>2 DEF FilesInv

\* A request returns: its file is deleted, is a stray, or is a row's.
LEMMA FilesOnReturn ==
  ASSUME TypeOK, FilesInv, NEW h \in Handlers, handlers[h] # Idle, handlers'[h] = Idle,
         \A k \in Handlers \ {h} : handlers'[k] = handlers[k], table' = table,
         \/ /\ Carries(h) /\ handlers[h].token \notin Stored
            /\ files' = files \ {handlers[h].token} /\ strays' = strays
         \/ files' = files /\ strays' = strays \cup ({handlers[h].token} \cap files)
         \/ files' = files /\ strays' = strays /\ (Carries(h) => handlers[h].token \in Stored)
  PROVE  FilesInv'
<1> DEFINE t == handlers[h].token
<1>1. Stored' = Stored
      BY DEF Stored
<1>2. ~Carries(h)'
      BY DEF Carries
<1>3. \A k \in Handlers \ {h} : /\ Carries(k)' <=> Carries(k)
                                /\ handlers'[k] = handlers[k]
      BY DEF Carries
<1>4. files' \subseteq files /\ strays \subseteq strays'
      OBVIOUS
<1>5. Stored' \subseteq files'
      BY <1>1 DEF FilesInv
<1>6. ASSUME NEW k \in Handlers, Carries(k)'
      PROVE  /\ handlers'[k].token \in files'
             /\ handlers'[k].token \in Stored' <=> handlers'[k].step = "notify"
  <2>1. k # h /\ Carries(k) /\ handlers'[k] = handlers[k]
        BY <1>2, <1>3, <1>6
  <2>2. Carries(h) => handlers[k].token # t
        BY <2>1 DEF FilesInv
  <2>3. /\ handlers[k].token \in files
        /\ handlers[k].token \in Stored <=> handlers[k].step = "notify"
        BY <2>1 DEF FilesInv
  <2> QED BY <1>1, <2>1, <2>2, <2>3
<1>7. ASSUME NEW u \in files' \ (Stored' \cup strays')
      PROVE  \E k \in Handlers : Carries(k)' /\ handlers'[k].token = u
  <2>1. u \in files \ (Stored \cup strays)
        BY <1>1, <1>4
  <2>2. PICK k \in Handlers : Carries(k) /\ handlers[k].token = u
        BY <2>1 DEF FilesInv
  <2>3. k # h
        BY <1>1, <2>1, <2>2
  <2> QED BY <1>3, <2>2, <2>3
<1>8. ASSUME NEW k \in Handlers, NEW l \in Handlers, Carries(k)', Carries(l)',
             handlers'[k].token = handlers'[l].token
      PROVE  k = l
  <2>1. Carries(k) /\ Carries(l) /\ handlers'[k] = handlers[k] /\ handlers'[l] = handlers[l]
        BY <1>2, <1>3, <1>8
  <2> QED BY <1>8, <2>1 DEF FilesInv
<1> QED BY <1>5, <1>6, <1>7, <1>8 DEF FilesInv

LEMMA FilesOnSubmit ==
  ASSUME TypeOK, FilesInv, NEW h \in Handlers, NEW p \in Payloads, Submit(h, p)
  PROVE  FilesInv'
<1>1. PICK t \in Tokens \cup {NoToken} :
        /\ IF t = NoToken THEN UNCHANGED files ELSE Fresh(t) /\ Put(t)
        /\ handlers' = [handlers EXCEPT ![h] =
             [step |-> "begin", payload |-> p, token |-> t, at |-> clock,
              since |-> Never, timely |-> FALSE]]
      BY DEF Submit
<1>2. handlers[h] = Idle /\ UNCHANGED <<table, strays>>
      BY DEF Submit
<1>3. [step |-> "begin", payload |-> p, token |-> t, at |-> clock,
       since |-> Never, timely |-> FALSE] \in Request
      BY SubmissionsAssumption DEF Request, Steps, Never, TypeOK
<1>4. /\ handlers'[h] # Idle /\ handlers'[h].token = t /\ handlers'[h].step = "begin"
      /\ \A k \in Handlers \ {h} : handlers'[k] = handlers[k]
      BY <1>1, <1>3, SubmissionNullsAssumption, RequestsHandled
<1>5. Stored' = Stored
      BY <1>2 DEF Stored
<1>6. \A k \in Handlers \ {h} : Carries(k)' <=> Carries(k)
      BY <1>4 DEF Carries
<1>7. ~Carries(h) /\ (Carries(h)' <=> t # NoToken)
      BY <1>2, <1>4 DEF Carries
<1>8. CASE t = NoToken
  <2>1. files' = files /\ ~Carries(h)'
        BY <1>1, <1>7, <1>8
  <2>2. \A k \in Handlers : /\ Carries(k)' <=> Carries(k)
                            /\ Carries(k) => handlers'[k] = handlers[k]
        BY <1>4, <1>6, <1>7, <2>1
  <2> QED BY <1>2, <1>5, <2>1, <2>2 DEF FilesInv
<1>9. CASE t # NoToken
  <2>1. /\ files' = files \cup {t} /\ Carries(h)' /\ t \notin Stored
        /\ \A k \in Handlers : Carries(k) => handlers[k].token # t
        BY <1>1, <1>7, <1>9 DEF Fresh, Put, Stored, Carries
  <2>2. Stored' \subseteq files'
        BY <1>5, <2>1 DEF FilesInv
  <2>3. \A u \in files' \ (Stored' \cup strays') : \E k \in Handlers : Carries(k)' /\ handlers'[k].token = u
        BY <1>2, <1>4, <1>5, <1>6, <1>7, <2>1 DEF FilesInv
  <2>4. \A k \in Handlers : Carries(k)' =>
          /\ handlers'[k].token \in files'
          /\ handlers'[k].token \in Stored' <=> handlers'[k].step = "notify"
        BY <1>4, <1>5, <1>6, <2>1 DEF FilesInv
  <2>5. \A k, l \in Handlers :
          Carries(k)' /\ Carries(l)' /\ handlers'[k].token = handlers'[l].token => k = l
        BY <1>4, <1>6, <2>1 DEF FilesInv
  <2> QED BY <2>2, <2>3, <2>4, <2>5 DEF FilesInv
<1> QED BY <1>8, <1>9

LEMMA FilesOnInsert ==
  ASSUME IInv, FilesInv, NEW h \in Handlers, Insert(h)
  PROVE  FilesInv'
<1> DEFINE t == handlers[h].token
           row == [payload |-> handlers[h].payload, createdAt |-> handlers[h].at,
                   token |-> handlers[h].token]
<1>1. handlers[h] # Idle /\ handlers[h].step = "insert" /\ UNCHANGED <<files, strays>>
      BY DEF Insert, At
<1>2. row \in Row /\ row.token = t
      BY <1>1, Fields DEF IInv, Row
<1>3. table' = Append(table, row)
      BY DEF Insert, InsertRow
<1> HIDE DEF row
<1>4. Stored' = Stored \cup ({t} \ {NoToken})
  <2>1. /\ Len(table) + 1 \in DOMAIN table' /\ table'[Len(table) + 1] = row
        /\ \A i \in DOMAIN table : i \in DOMAIN table' /\ table'[i] = table[i]
        /\ \A i \in DOMAIN table' : i \in DOMAIN table \/ i = Len(table) + 1
        BY <1>2, <1>3, AppendRow DEF IInv
  <2> QED BY <1>2, <2>1 DEF Stored
<1>5. CASE t = NoToken
  <2>1. Return(h)
        BY <1>5 DEF Insert
  <2>2. handlers'[h] = Idle /\ \A k \in Handlers \ {h} : handlers'[k] = handlers[k]
        BY <2>1, RequestsHandled DEF IInv, Return
  <2>3. \A k \in Handlers : /\ Carries(k)' <=> Carries(k)
                            /\ Carries(k) => handlers'[k] = handlers[k]
        BY <1>5, <2>2 DEF Carries
  <2> QED BY <1>1, <1>4, <1>5, <2>3 DEF FilesInv
<1>6. CASE t # NoToken
  <2>1. GoTo(h, "notify") /\ Carries(h) /\ Stored' = Stored \cup {t}
        BY <1>1, <1>4, <1>6 DEF Insert, Carries
  <2>2. /\ \A k \in Handlers \ {h} : handlers'[k] = handlers[k]
        /\ handlers'[h] # Idle /\ handlers'[h].step = "notify" /\ handlers'[h].token = t
        BY <1>1, <2>1, GoToRequest DEF IInv, Steps
  <2>3. \A k \in Handlers : /\ Carries(k)' <=> Carries(k)
                            /\ Carries(k) => handlers'[k].token = handlers[k].token
        BY <1>6, <2>1, <2>2 DEF Carries
  <2>4. Stored' \subseteq files'
        BY <1>1, <2>1 DEF FilesInv
  <2>5. \A u \in files' \ (Stored' \cup strays') : \E k \in Handlers : Carries(k)' /\ handlers'[k].token = u
        BY <1>1, <2>1, <2>3 DEF FilesInv
  <2>6. ASSUME NEW k \in Handlers, Carries(k)'
        PROVE  /\ handlers'[k].token \in files'
               /\ handlers'[k].token \in Stored' <=> handlers'[k].step = "notify"
    <3>1. CASE k = h
          BY <1>1, <2>1, <2>2, <3>1 DEF FilesInv
    <3>2. CASE k # h
      <4>1. Carries(k) /\ handlers'[k] = handlers[k] /\ handlers[k].token # t
            BY <2>1, <2>2, <2>3, <2>6, <3>2 DEF FilesInv
      <4> QED BY <1>1, <2>1, <4>1 DEF FilesInv
    <3> QED BY <3>1, <3>2
  <2>7. \A k, l \in Handlers :
          Carries(k)' /\ Carries(l)' /\ handlers'[k].token = handlers'[l].token => k = l
        BY <2>3 DEF FilesInv
  <2> QED BY <2>4, <2>5, <2>6, <2>7 DEF FilesInv
<1> QED BY <1>5, <1>6

\* The steps that only change what a request knows.
LEMMA FilesOnPrepare ==
  ASSUME IInv, FilesInv, NEW h \in Handlers, Begin(h) \/ Lock(h) \/ Look(h)
  PROVE  FilesInv'
<1>1. CASE Begin(h)
  <2>1. PICK now \in Int, timely \in BOOLEAN :
          handlers' = [handlers EXCEPT ![h] =
            [handlers[h] EXCEPT !.step = "lock", !.at = clock, !.since = now - Window, !.timely = timely]]
    <3>1. handlers[h].at \in Nat /\ clock \in Nat /\ Skew \in Nat
          BY <1>1, Fields, SubmissionsAssumption DEF IInv, Begin, At, TypeOK
    <3>2. LocalNow(handlers[h]) \subseteq Int
          BY <3>1 DEF LocalNow
    <3> QED BY <1>1, <3>2 DEF Begin
  <2> DEFINE next == [handlers[h] EXCEPT !.step = "lock", !.at = clock, !.since = now - Window,
                                         !.timely = timely]
  <2>2. handlers[h] # Idle /\ handlers[h].step = "begin" /\ UNCHANGED <<table, files, strays>>
        BY <1>1 DEF Begin, At
  <2>3. next \in Request /\ next.token = handlers[h].token /\ next.step = "lock"
    <3>1. handlers[h] \in Request /\ clock \in Nat /\ now - Window \in Int
          BY <2>2, Fields, SubmissionsAssumption DEF IInv, TypeOK
    <3> QED BY <3>1 DEF Request, Steps
  <2>4. handlers' = [handlers EXCEPT ![h] = next]
        BY <2>1
  <2> HIDE DEF next
  <2>5. handlers'[h] = next /\ next # Idle /\ \A k \in Handlers \ {h} : handlers'[k] = handlers[k]
        BY <2>3, <2>4, RequestsHandled, SubmissionNullsAssumption DEF IInv
  <2> QED BY <2>2, <2>3, <2>5, FilesOnMove
<1>2. CASE Lock(h) \/ Look(h)
  <2>1. PICK step \in {"look", "drop", "insert"} : GoTo(h, step)
        BY <1>2 DEF Lock, Look
  <2>2. handlers[h] # Idle /\ handlers[h].step # "notify" /\ UNCHANGED <<table, files, strays>>
        BY <1>2 DEF Lock, Look, At
  <2>3. /\ \A k \in Handlers \ {h} : handlers'[k] = handlers[k]
        /\ handlers'[h] # Idle /\ handlers'[h].step = step
        /\ handlers'[h].token = handlers[h].token
        BY <2>1, <2>2, GoToRequest DEF IInv, Steps
  <2> QED BY <2>2, <2>3, FilesOnMove
<1> QED BY <1>1, <1>2

LEMMA FilesOnCreateFails ==
  ASSUME ~AmbiguousCommit, IInv, FilesInv, NEW h \in Handlers, CreateFails(h)
  PROVE  FilesInv'
<1>1. /\ handlers[h] # Idle /\ handlers[h].step # "notify" /\ GoTo(h, "undo")
      /\ UNCHANGED <<table, files, strays>>
      BY DEF CreateFails
<1>2. /\ \A k \in Handlers \ {h} : handlers'[k] = handlers[k]
      /\ handlers'[h] # Idle /\ handlers'[h].step = "undo"
      /\ handlers'[h].token = handlers[h].token
      BY <1>1, GoToRequest DEF IInv, Steps
<1> QED BY <1>1, <1>2, FilesOnMove

\* The candidate of a request without a row is deleted, or its file is a stray.
LEMMA FilesOnDiscard ==
  ASSUME IInv, FilesInv, NEW h \in Handlers, Undo(h) \/ Drop(h)
  PROVE  FilesInv'
<1> DEFINE t == handlers[h].token
<1>1. /\ handlers[h] # Idle /\ handlers[h].step # "notify"
      /\ Discard(t) /\ Return(h) /\ table' = table
      BY DEF Undo, Drop, At
<1>2. handlers'[h] = Idle /\ \A k \in Handlers \ {h} : handlers'[k] = handlers[k]
      BY <1>1, RequestsHandled DEF IInv, Return
<1>3. Carries(h) => t \notin Stored
      BY <1>1 DEF FilesInv
<1>4. \/ t = NoToken /\ UNCHANGED <<files, strays>>
      \/ t # NoToken /\ files' = files \ {t} /\ strays' = strays
      \/ t # NoToken /\ files' = files /\ strays' = strays \cup ({t} \cap files)
      BY <1>1 DEF Discard, Delete, Abandon
<1>5. Carries(h) <=> t # NoToken
      BY <1>1 DEF Carries
<1> QED BY <1>1, <1>2, <1>3, <1>4, <1>5, FilesOnReturn DEF IInv

LEMMA FilesOnEnd ==
  ASSUME IInv, FilesInv, NEW h \in Handlers, Notify(h) \/ Stop(h)
  PROVE  FilesInv'
<1> DEFINE t == handlers[h].token
<1>1. handlers[h] # Idle /\ Return(h) /\ table' = table /\ files' = files
      BY DEF Notify, Stop, At
<1>2. handlers'[h] = Idle /\ \A k \in Handlers \ {h} : handlers'[k] = handlers[k]
      BY <1>1, RequestsHandled DEF IInv, Return
<1>3. \/ strays' = strays \cup ({t} \cap files)
      \/ handlers[h].step = "notify" /\ strays' = strays
      BY DEF Notify, Stop, At, Abandon
<1>4. handlers[h].step = "notify" /\ Carries(h) => t \in Stored
      BY DEF FilesInv
<1> QED BY <1>1, <1>2, <1>3, <1>4, FilesOnReturn DEF IInv

LEMMA FilesStep ==
  ASSUME ~AmbiguousCommit, IInv, FilesInv, [Next]_vars
  PROVE  FilesInv'
<1>1. CASE UNCHANGED vars \/ Tick
      BY <1>1 DEF vars, Tick, FilesInv, Stored, Carries
<1>2. ASSUME NEW h \in Handlers, NEW p \in Payloads, Submit(h, p)
      PROVE  FilesInv'
      BY <1>2, FilesOnSubmit DEF IInv
<1>3. ASSUME NEW h \in Handlers,
             \/ Begin(h) \/ Lock(h) \/ Look(h) \/ Insert(h) \/ CreateFails(h)
             \/ Undo(h) \/ Drop(h) \/ Notify(h) \/ Stop(h)
      PROVE  FilesInv'
      BY <1>3, FilesOnPrepare, FilesOnInsert, FilesOnCreateFails, FilesOnDiscard, FilesOnEnd
<1> QED BY <1>1, <1>2, <1>3 DEF Next

\* Unless the error of a COMMIT hides that it took effect, a stored capability
\* has its file, whatever failed or stopped before and whoever else deletes a
\* candidate; and Submit leaves no file that is neither a row's nor accounted for.
THEOREM FilesAndRowsAgree == ~AmbiguousCommit => (Spec => []FilesMatchRows)
<1> SUFFICES ASSUME ~AmbiguousCommit
             PROVE  Spec => []FilesMatchRows
    OBVIOUS
<1>1. Init => FilesInv
      BY DEF Init, FilesInv, Stored, Carries
<1>2. IInv /\ FilesInv /\ [Next]_vars => FilesInv'
      BY FilesStep
<1>3. FilesInv => FilesMatchRows
      BY DEF FilesInv, FilesMatchRows, Stored, Carries
<1> QED BY Invariance, <1>1, <1>2, <1>3, PTL DEF Spec

----
(* Submissions implements Intake.                                         *)

\* No transaction began in the future.
BegunBefore == \A h \in Handlers : handlers[h] # Idle => handlers[h].at <= clock

LEMMA BegunStep ==
  ASSUME IInv, BegunBefore, [Next]_vars
  PROVE  BegunBefore'
<1>1. ASSUME NEW h \in Handlers, clock' = clock, handlers'[h] # Idle => handlers'[h].at <= clock,
             \A k \in Handlers \ {h} : handlers'[k] = handlers[k]
      PROVE  BegunBefore'
      BY <1>1 DEF BegunBefore
<1>2. CASE UNCHANGED vars \/ Tick
  <2>1. handlers' = handlers /\ clock' >= clock /\ clock \in Nat /\ clock' \in Nat
        BY <1>2 DEF vars, Tick, IInv, TypeOK
  <2>2. \A h \in Handlers : handlers[h] # Idle => handlers[h].at \in Nat
        BY Fields DEF IInv
  <2> QED BY <2>1, <2>2 DEF BegunBefore
<1>3. ASSUME NEW h \in Handlers, NEW p \in Payloads, Submit(h, p)
      PROVE  BegunBefore'
  <2>1. PICK t \in Tokens \cup {NoToken} : handlers' = [handlers EXCEPT ![h] =
          [step |-> "begin", payload |-> p, token |-> t, at |-> clock,
           since |-> Never, timely |-> FALSE]]
        BY <1>3 DEF Submit
  <2> DEFINE next == [step |-> "begin", payload |-> p, token |-> t, at |-> clock,
                      since |-> Never, timely |-> FALSE]
  <2>2. next \in Request /\ next.at = clock /\ clock' = clock /\ clock \in Nat
        BY <1>3, SubmissionsAssumption DEF Request, Steps, Never, IInv, TypeOK, Submit
  <2>3. handlers' = [handlers EXCEPT ![h] = next]
        BY <2>1
  <2> HIDE DEF next
  <2>4. handlers'[h] = next /\ \A k \in Handlers \ {h} : handlers'[k] = handlers[k]
        BY <2>2, <2>3, RequestsHandled DEF IInv
  <2> QED BY <1>1, <2>2, <2>4
<1>4. ASSUME NEW h \in Handlers, Begin(h)
      PROVE  BegunBefore'
  <2>1. handlers[h] # Idle /\ clock' = clock /\ clock \in Nat /\ Skew \in Nat
        BY <1>4, SubmissionsAssumption DEF Begin, At, IInv, TypeOK
  <2>2. LocalNow(handlers[h]) \subseteq Int
        BY <2>1, Fields DEF LocalNow, IInv
  <2>3. PICK now \in Int, timely \in BOOLEAN :
          handlers' = [handlers EXCEPT ![h] =
            [handlers[h] EXCEPT !.step = "lock", !.at = clock, !.since = now - Window, !.timely = timely]]
        BY <1>4, <2>2 DEF Begin
  <2>4. now - Window \in Int
        BY SubmissionsAssumption
  <2> DEFINE next == [handlers[h] EXCEPT !.step = "lock", !.at = clock, !.since = now - Window,
                                         !.timely = timely]
  <2>5. next \in Request /\ next.at = clock
        BY <2>1, <2>4, Fields DEF Request, Steps, IInv
  <2>6. handlers' = [handlers EXCEPT ![h] = next]
        BY <2>3
  <2> HIDE DEF next
  <2>7. handlers'[h] = next /\ \A k \in Handlers \ {h} : handlers'[k] = handlers[k]
        BY <2>5, <2>6, RequestsHandled DEF IInv
  <2> QED BY <1>1, <2>1, <2>5, <2>7
<1>5. ASSUME NEW h \in Handlers, handlers[h] # Idle, clock' = clock,
             Return(h) \/ \E step \in Steps : GoTo(h, step)
      PROVE  BegunBefore'
  <2>1. CASE Return(h)
        BY <1>1, <1>5, <2>1, RequestsHandled DEF IInv, Return
  <2>2. CASE \E step \in Steps : GoTo(h, step)
        BY <1>1, <1>5, <2>2, GoToRequest DEF IInv, BegunBefore
  <2> QED BY <1>5, <2>1, <2>2
<1>6. ASSUME NEW h \in Handlers,
             \/ Lock(h) \/ Look(h) \/ Insert(h) \/ CreateFails(h)
             \/ Undo(h) \/ Drop(h) \/ Notify(h) \/ Stop(h)
      PROVE  BegunBefore'
  <2>1. handlers[h] # Idle /\ clock' = clock
        BY <1>6 DEF Lock, Look, Insert, CreateFails, Undo, Drop, Notify, Stop, At
  <2>2. Return(h) \/ \E step \in Steps : GoTo(h, step)
        BY <1>6 DEF Lock, Look, Insert, CreateFails, Undo, Drop, Notify, Stop, Steps
  <2> QED BY <1>5, <2>1, <2>2
<1> QED BY <1>2, <1>3, <1>4, <1>6 DEF Next

ReadableLinks == {table[i].token : i \in DOMAIN table} \cap files

\* Every stored link can be read, and nothing else that is stored is a link.
LEMMA ReadableIsStored ==
  /\ TypeOK /\ FilesInv => ReadableLinks = Stored
  /\ TypeOK' /\ FilesInv' => ReadableLinks' = Stored'
BY SubmissionsAssumption DEF TypeOK, FilesInv, ReadableLinks, Stored

\* What a request knows when its answer counts.
LEMMA AnswerShows ==
  ASSUME IInv, NEW h \in Handlers, handlers[h] # Idle, Accept(h),
         \E i \in DOMAIN table' : /\ table'[i].payload = handlers[h].payload
                                  /\ handlers[h].since <= table'[i].createdAt
  PROVE  IntakeOf!Answer(handlers[h].payload)
<1>1. handlers[h].payload \in Payloads /\ handlers[h].since \in Int
      BY Fields DEF IInv
<1> SUFFICES ASSUME NEW p \in Payloads, p = handlers[h].payload,
                    NEW since \in Int, since = handlers[h].since
             PROVE  IntakeOf!Answer(p)
    BY <1>1
<1>2. accepted \in [Payloads -> Int] /\ accepted[p] \in Int
      BY DEF IInv, TypeOK
<1>3. CASE accepted[p] < since
  <2>1. accepted' = [accepted EXCEPT ![p] = since] /\ accepted'[p] = since
        BY <1>2, <1>3 DEF Accept
  <2> QED BY <1>3, <2>1 DEF IntakeOf!Answer, IntakeOf!Thank
<1>4. CASE ~(accepted[p] < since)
  <2>1. accepted' = accepted
        BY <1>2, <1>4 DEF Accept
  <2> QED BY <2>1 DEF IntakeOf!Answer
<1> QED BY <1>3, <1>4

LEMMA InsertShows ==
  ASSUME IInv, IInv', FilesInv, FilesInv', BegunBefore, Skew <= Window,
         NEW h \in Handlers, Insert(h)
  PROVE  \E p \in Payloads : IntakeOf!Store(p)
<1>1. handlers[h] # Idle /\ handlers[h].step = "insert"
      /\ UNCHANGED <<clock, files, notified>>
      BY DEF Insert, At
<1>2. /\ handlers[h].payload \in Payloads /\ handlers[h].token \in Tokens \cup {NoToken}
      /\ handlers[h].at \in Nat /\ handlers[h].since \in Int /\ handlers[h].at <= clock /\ clock \in Nat
      BY <1>1, Fields DEF IInv, BegunBefore, TypeOK
<1>3. /\ handlers[h].token # NoToken <=> handlers[h].payload \in EarlyAccess
      /\ handlers[h].since <= handlers[h].at + Skew - Window
      BY <1>1 DEF IInv, RequestsOK, RequestOK
<1> SUFFICES ASSUME NEW p \in Payloads, NEW t \in Tokens \cup {NoToken}, NEW at \in 0..clock,
                    p = handlers[h].payload, t = handlers[h].token, at = handlers[h].at
             PROVE  IntakeOf!Store(p)
    BY <1>2
<1> DEFINE row == [payload |-> p, createdAt |-> at, token |-> t]
<1>4. row \in Row /\ row.payload = p /\ row.createdAt = at /\ row.token = t
      BY <1>2 DEF Row
<1>5. table' = Append(table, row)
      BY DEF Insert, InsertRow
<1> HIDE DEF row
<1>6. /\ Len(table') = Len(table) + 1 /\ Len(table) + 1 \in DOMAIN table'
      /\ table'[Len(table) + 1] = row
      /\ \A i \in DOMAIN table : i \in DOMAIN table' /\ table'[i] = table[i] /\ i \in Nat /\ i < Len(table) + 1
      /\ \A i \in DOMAIN table' : i \in DOMAIN table \/ i = Len(table) + 1
  <2>1. Len(table') = Len(table) + 1
        BY <1>4, <1>5 DEF IInv, TypeOK
  <2> QED BY <1>4, <1>5, <2>1, AppendRow DEF IInv
<1>7. ASSUME NEW i \in DOMAIN table
      PROVE  /\ t # NoToken => table[i].token # t
             /\ table[i].payload = p => at - table[i].createdAt > Window - Skew
  <2>1. t # NoToken => t \notin Stored
        BY <1>1 DEF FilesInv, Carries
  <2>2. table[i].payload = p => at - table[i].createdAt > Window - Skew
        BY <1>4, <1>6 DEF IInv, DuplicatesApart
  <2> QED BY <2>1, <2>2 DEF Stored
<1>8. ReadableLinks' = ReadableLinks \cup ({t} \ {NoToken})
  <2>1. Stored' = Stored \cup ({t} \ {NoToken})
        BY <1>4, <1>6 DEF Stored
  <2>2. ReadableLinks = Stored /\ ReadableLinks' = Stored'
        BY ReadableIsStored DEF IInv
  <2> QED BY <2>1, <2>2
<1>9. IntakeOf!Answer(p)
  <2>1. CASE t # NoToken
    <3>1. accepted' = accepted
          BY <2>1 DEF Insert
    <3> QED BY <3>1 DEF IntakeOf!Answer
  <2>2. CASE t = NoToken
    <3>1. Accept(h)
          BY <2>2 DEF Insert
    <3>2. handlers[h].since <= at
          BY <1>2, <1>3, SubmissionsAssumption
    <3> QED BY <1>1, <1>4, <1>6, <3>1, <3>2, AnswerShows
  <2> QED BY <2>1, <2>2
<1>10. \E link \in Tokens \cup {NoToken}, from \in 0..clock :
         /\ link # NoToken <=> p \in EarlyAccess
         /\ \A i \in DOMAIN table : /\ link # NoToken => table[i].token # link
                                    /\ table[i].payload = p => from - table[i].createdAt > Window - Skew
         /\ table' = Append(table, [payload |-> p, createdAt |-> from, token |-> link])
         /\ ReadableLinks' = ReadableLinks \cup ({link} \ {NoToken})
       BY <1>3, <1>5, <1>7, <1>8 DEF row
<1> QED BY <1>1, <1>6, <1>9, <1>10 DEF IntakeOf!Store, ReadableLinks

LEMMA NotifyShows ==
  ASSUME IInv, Skew <= Window, NEW h \in Handlers, Notify(h)
  PROVE  \E i \in DOMAIN table : IntakeOf!Notify(i)
<1>1. handlers[h] # Idle /\ handlers[h].step = "notify" /\ Accept(h)
      /\ UNCHANGED <<clock, table, files>> /\ notified' = notified \cup {handlers[h].token}
      BY DEF Notify, At
<1>2. /\ handlers[h].token # NoToken
      /\ handlers[h].since <= handlers[h].at + Skew - Window
      BY <1>1 DEF IInv, RequestsOK, RequestOK
<1>3. PICK i \in DOMAIN table :
        /\ table[i].payload = handlers[h].payload
        /\ table[i].token = handlers[h].token
        /\ table[i].createdAt = handlers[h].at
      BY <1>1 DEF IInv, RequestsOK, RequestOK
<1>4. handlers[h].since <= handlers[h].at
      BY <1>1, <1>2, Fields, SubmissionsAssumption DEF IInv
<1>5. IntakeOf!Answer(table[i].payload)
      BY <1>1, <1>3, <1>4, AnswerShows
<1> QED BY <1>1, <1>2, <1>3, <1>5 DEF IntakeOf!Notify

LEMMA DropShows ==
  ASSUME IInv, FilesInv, FilesInv', TypeOK', NEW h \in Handlers, Drop(h)
  PROVE  \/ \E p \in Payloads : IntakeOf!Repeat(p)
         \/ UNCHANGED <<clock, table, ReadableLinks, notified, accepted>>
<1>1. handlers[h] # Idle /\ handlers[h].step = "drop" /\ Accept(h)
      /\ UNCHANGED <<clock, table, notified>>
      BY DEF Drop, At
<1>2. ReadableLinks' = ReadableLinks
      BY <1>1, ReadableIsStored DEF IInv, Stored
<1>3. PICK i \in DOMAIN table :
        table[i].payload = handlers[h].payload /\ table[i].createdAt >= handlers[h].since
      BY <1>1 DEF IInv, RequestsOK, RequestOK
<1>4. IntakeOf!Answer(handlers[h].payload)
  <2>1. handlers[h].since <= table[i].createdAt
        BY <1>1, <1>3, Fields, Rows DEF IInv
  <2> QED BY <1>1, <1>3, <2>1, AnswerShows
<1>5. handlers[h].payload \in Payloads
      BY <1>1, Fields DEF IInv
<1> QED BY <1>1, <1>2, <1>4, <1>5 DEF IntakeOf!Repeat, IntakeOf!Answer, ReadableLinks

\* Submit and CreateSubmission, whatever copies of a request they serve at once and
\* whatever fails or stops, add applications one at a time, spaced and with their
\* link, tell the reviewer of stored links, and thank for rows that are there.
THEOREM Refinement == ~AmbiguousCommit /\ Skew <= Window => (Spec => ImplementsIntake)
<1> SUFFICES ASSUME ~AmbiguousCommit, Skew <= Window
             PROVE  Spec => ImplementsIntake
    OBVIOUS
<1>1. Init => FilesInv /\ BegunBefore /\ IntakeOf!Init
  <2>1. Init => FilesInv /\ BegunBefore
        BY DEF Init, FilesInv, Stored, Carries, BegunBefore
  <2>2. Init => IntakeOf!Init
        BY DEF Init, IntakeOf!Init
  <2> QED BY <2>1, <2>2
<1>2. IInv /\ FilesInv /\ BegunBefore /\ [Next]_vars
        => FilesInv' /\ BegunBefore' /\ [IntakeOf!Next]_<<clock, table, ReadableLinks, notified, accepted>>
  <2> SUFFICES ASSUME IInv, FilesInv, BegunBefore, [Next]_vars
               PROVE  /\ FilesInv' /\ BegunBefore'
                      /\ [IntakeOf!Next]_<<clock, table, ReadableLinks, notified, accepted>>
      OBVIOUS
  <2>1. FilesInv' /\ BegunBefore' /\ IInv'
        BY FilesStep, BegunStep, StepOK
  <2>2. TypeOK /\ TypeOK'
        BY <2>1 DEF IInv
  <2>3. table' = table => ReadableLinks' = ReadableLinks
        BY <2>1, <2>2, ReadableIsStored DEF Stored
  <2>4. CASE UNCHANGED vars
        BY <2>1, <2>3, <2>4 DEF vars
  <2>5. CASE Tick
    <3>1. IntakeOf!Tick
          BY <2>3, <2>5 DEF Tick, IntakeOf!Tick, ReadableLinks
    <3> QED BY <2>1, <3>1 DEF IntakeOf!Next
  <2>6. ASSUME NEW h \in Handlers,
               \/ \E p \in Payloads : Submit(h, p)
               \/ Begin(h) \/ Lock(h) \/ Look(h) \/ CreateFails(h) \/ Undo(h) \/ Stop(h)
        PROVE  UNCHANGED <<clock, table, ReadableLinks, notified, accepted>>
    <3>1. UNCHANGED <<clock, table, notified, accepted>>
          BY <2>6 DEF Submit, Begin, Lock, Look, CreateFails, Undo, Stop
    <3> QED BY <2>3, <3>1
  <2>7. ASSUME NEW h \in Handlers, Insert(h)
        PROVE  IntakeOf!Next
        BY <2>1, <2>7, InsertShows DEF IntakeOf!Next
  <2>8. ASSUME NEW h \in Handlers, Drop(h)
        PROVE  [IntakeOf!Next]_<<clock, table, ReadableLinks, notified, accepted>>
        BY <2>1, <2>2, <2>8, DropShows DEF IntakeOf!Next
  <2>9. ASSUME NEW h \in Handlers, Notify(h)
        PROVE  IntakeOf!Next
        BY <2>9, NotifyShows DEF IntakeOf!Next
  <2> QED BY <2>1, <2>4, <2>5, <2>6, <2>7, <2>8, <2>9 DEF Next
<1> QED BY Invariance, <1>1, <1>2, PTL DEF Spec, ImplementsIntake, IntakeOf!Spec, ReadableLinks
====
