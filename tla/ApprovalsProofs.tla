---- MODULE ApprovalsProofs ----
(***************************************************************************)
(* Proofs about Approvals for every number of applications, handlers,      *)
(* tokens, faults and clock skews: the invariants, the action property and *)
(* the refinement of ApplicationLife, by one inductive invariant.          *)
(***************************************************************************)
EXTENDS Approvals, TLAPS

\* What a handler's record says of the rows and files, step by step.  A
\* candidate is stored, referred to, and nobody's grant; once the decision is
\* known the handler's reference, or the token it is to sweep, is that of the
\* stored grant, whatever token it has read.  An undone candidate is nobody's
\* grant unless a COMMIT can be ambiguous.
HandlerOK(h) ==
  /\ handlers[h].step = "decide" =>
       handlers[h].token \in files /\ handlers[h].ref = handlers[h].token
  /\ \/ handlers[h].step \in {"decide", "swap"}
     \/ handlers[h].step = "undo" /\ ~AmbiguousCommit
     => \A a \in Apps : grants[a] # NoGrant => grants[a].token # handlers[h].token
  /\ handlers[h].step \in {"swap", "read", "mail"} =>
       /\ grants[handlers[h].app] # NoGrant
       /\ handlers[h].ref = grants[handlers[h].app].token
  /\ handlers[h].step = "sweep" =>
       /\ grants[handlers[h].app] # NoGrant
       /\ handlers[h].token = grants[handlers[h].app].token
       /\ grants[handlers[h].app].spent
HandlersOK == \A h \in Handlers : handlers[h] # Idle => HandlerOK(h)

\* Handlers hold different candidates, and applications have different tokens.
Candidate(h) == handlers[h] # Idle /\ handlers[h].step \in {"decide", "undo", "swap"}
CandidatesApart ==
  \A h, k \in Handlers : Candidate(h) /\ Candidate(k) /\ h # k =>
    handlers[h].token # handlers[k].token
GrantsApart ==
  \A a, b \in Apps : grants[a] # NoGrant /\ grants[b] # NoGrant /\ a # b =>
    grants[a].token # grants[b].token

Kept == AmbiguousCommit \/ TokenKept

IInv ==
  /\ TypeOK
  /\ RowsAgree
  /\ HandlersOK
  /\ CandidatesApart
  /\ GrantsApart
  /\ MailedItsGrant
  /\ Kept
  /\ NoStrayFiles

----
(* Records, and steps of one handler.                                     *)

\* A row that is there, and a request that is being served, have their fields.
LEMMA Fields ==
  ASSUME TypeOK
  PROVE  /\ \A a \in Apps : grants[a] # NoGrant => grants[a] \in GrantRow
         /\ \A h \in Handlers : handlers[h] # Idle => handlers[h] \in Request
BY DEF TypeOK

\* A step of handler h leaves the others' records, the grants and the files of
\* undecided candidates alone.
LEMMA HandlersFrame ==
  ASSUME HandlersOK, NEW h \in Handlers, grants' = grants,
         \A k \in Handlers \ {h} : handlers'[k] = handlers[k],
         \A k \in Handlers \ {h} : handlers[k] # Idle /\ handlers[k].step = "decide"
                                     => handlers[k].token \in files',
         handlers'[h] # Idle => HandlerOK(h)'
  PROVE  HandlersOK'
<1> SUFFICES ASSUME NEW k \in Handlers, handlers'[k] # Idle
             PROVE  HandlerOK(k)'
    BY DEF HandlersOK
<1>1. CASE k = h
      BY <1>1
<1>2. CASE k # h
  <2>1. handlers'[k] = handlers[k] /\ HandlerOK(k)
        BY <1>2 DEF HandlersOK
  <2> QED BY <1>2, <2>1 DEF HandlerOK
<1> QED BY <1>1, <1>2

\* A step of handler h that takes up no candidate keeps the candidates apart.
LEMMA CandidatesFrame ==
  ASSUME CandidatesApart, NEW h \in Handlers,
         \A k \in Handlers \ {h} : handlers'[k] = handlers[k],
         Candidate(h)' => Candidate(h) /\ handlers'[h].token = handlers[h].token
  PROVE  CandidatesApart'
<1> SUFFICES ASSUME NEW k \in Handlers, NEW l \in Handlers,
                    Candidate(k)', Candidate(l)', k # l
             PROVE  handlers'[k].token # handlers'[l].token
    BY DEF CandidatesApart
<1>1. ASSUME NEW m \in Handlers, Candidate(m)'
      PROVE  Candidate(m) /\ handlers'[m].token = handlers[m].token
  <2>1. CASE m = h
        BY <1>1, <2>1
  <2>2. CASE m # h
        BY <1>1, <2>2 DEF Candidate
  <2> QED BY <2>1, <2>2
<1> QED BY <1>1 DEF CandidatesApart

\* When handler h lets go of the only token it may delete, and the token is
\* deleted, abandoned, the token of an unspent grant or was never in its hands,
\* no file becomes a stray nobody accounts for.
InHand(h, t) == /\ handlers[h] # Idle
                /\ handlers[h].token = t
                /\ handlers[h].step \in {"decide", "undo", "swap", "sweep"}
LEMMA StraysFrame ==
  ASSUME NoStrayFiles, NEW h \in Handlers, grants' = grants, strays \subseteq strays',
         files' \subseteq files,
         \A k \in Handlers \ {h} : handlers'[k] = handlers[k],
         \A t \in files' : InHand(h, t) => t \in strays' \/ InHand(h, t)'
  PROVE  NoStrayFiles'
<1> SUFFICES ASSUME NEW t \in files', t \notin strays',
                    ~ \E a \in Apps : grants[a] # NoGrant /\ grants[a].token = t /\ ~grants[a].spent
             PROVE  \E k \in Handlers : InHand(k, t)'
    BY DEF NoStrayFiles, InHand
<1>1. PICK k \in Handlers : InHand(k, t)
      BY DEF NoStrayFiles, InHand
<1>2. CASE k = h
      BY <1>1, <1>2
<1>3. CASE k # h
      BY <1>1, <1>3 DEF InHand
<1> QED BY <1>2, <1>3

\* Steps that leave grants, files, handlers, strays and mail alone.
LEMMA QuietFrame ==
  ASSUME IInv, UNCHANGED <<grants, files, handlers, mailed, strays>>, TypeOK', RowsAgree'
  PROVE  IInv'
<1>1. HandlersOK'
      BY DEF IInv, HandlersOK, HandlerOK
<1>2. CandidatesApart' /\ GrantsApart' /\ MailedItsGrant'
      BY DEF IInv, CandidatesApart, Candidate, GrantsApart, MailedItsGrant
<1>3. Kept' /\ NoStrayFiles'
      BY DEF IInv, Kept, TokenKept, NoStrayFiles
<1> QED BY <1>1, <1>2, <1>3 DEF IInv

\* Steps of one handler that leave the rows alone: what is left to show.
LEMMA MoveFrame ==
  ASSUME IInv, NEW h \in Handlers, UNCHANGED <<apps, grants>>, TypeOK',
         HandlersOK', CandidatesApart', NoStrayFiles', MailedItsGrant',
         AmbiguousCommit \/ \A a \in Apps : grants[a] # NoGrant /\ ~grants[a].spent =>
                              (grants[a].token \in files => grants[a].token \in files')
  PROVE  IInv'
<1>1. RowsAgree' /\ GrantsApart'
      BY DEF IInv, RowsAgree, GrantsApart
<1>2. Kept'
      BY DEF IInv, Kept, TokenKept
<1> QED BY <1>1, <1>2 DEF IInv

----
(* The steps that take up no candidate and write no grant.                *)

LEMMA RequestsHandled ==
  ASSUME TypeOK, NEW h \in Handlers, NEW x \in Request \cup {Idle},
         handlers' = [handlers EXCEPT ![h] = x]
  PROVE  /\ handlers' \in [Handlers -> Request \cup {Idle}]
         /\ handlers'[h] = x
         /\ \A k \in Handlers \ {h} : handlers'[k] = handlers[k]
BY DEF TypeOK

LEMMA GoToRequest ==
  ASSUME TypeOK, NEW h \in Handlers, handlers[h] # Idle, NEW step \in Steps, GoTo(h, step)
  PROVE  /\ [handlers[h] EXCEPT !.step = step] \in Request
         /\ handlers' = [handlers EXCEPT ![h] = [handlers[h] EXCEPT !.step = step]]
<1>1. handlers[h] \in Request
      BY Fields
<1> QED BY <1>1 DEF GoTo, Request

\* Delete of one token: what becomes of the files, the strays and the types.
LEMMA DeleteEffect ==
  ASSUME TypeOK, NEW t \in Tokens, Delete(t)
  PROVE  /\ files' \in SUBSET Tokens /\ strays' \in SUBSET Tokens /\ faults' \in 0..MaxFaults
         /\ files' \subseteq files /\ files \ {t} \subseteq files'
         /\ strays \subseteq strays'
         /\ t \in files' => t \in strays'
BY ApprovalsAssumption DEF TypeOK, Delete, Abandon, Fault, NoFault

LEMMA StopStep ==
  ASSUME IInv, NEW h \in Handlers, Stop(h)
  PROVE  IInv'
<1>1. /\ handlers' \in [Handlers -> Request \cup {Idle}]
      /\ handlers'[h] = Idle
      /\ \A k \in Handlers \ {h} : handlers'[k] = handlers[k]
      BY RequestsHandled DEF IInv, Stop, Return
<1>2. handlers[h] \in Request
      BY Fields DEF IInv, Stop
<1>3. TypeOK'
      BY <1>1, <1>2, ApprovalsAssumption DEF IInv, TypeOK, Stop, Fault, Abandon
<1>4. HandlersOK'
      BY <1>1, HandlersFrame DEF IInv, Stop, HandlersOK, HandlerOK
<1>5. CandidatesApart'
      BY <1>1, CandidatesFrame DEF IInv, Candidate
<1>6. NoStrayFiles'
  <2>1. strays \subseteq strays'
        BY DEF Stop, Abandon
  <2>2. \A t \in files' : InHand(h, t) => t \in strays'
        BY DEF Stop, Abandon, InHand
  <2> QED BY <1>1, <2>1, <2>2, StraysFrame DEF IInv, Stop
<1>7. MailedItsGrant'
      BY DEF IInv, Stop, MailedItsGrant
<1> QED BY <1>3, <1>4, <1>5, <1>6, <1>7, MoveFrame DEF Stop

LEMMA UndoStep ==
  ASSUME IInv, NEW h \in Handlers, Undo(h)
  PROVE  IInv'
<1>1. /\ handlers' \in [Handlers -> Request \cup {Idle}]
      /\ handlers'[h] = Idle
      /\ \A k \in Handlers \ {h} : handlers'[k] = handlers[k]
      BY RequestsHandled DEF IInv, Undo, Return
<1>2. handlers[h] \in Request /\ handlers[h].step = "undo" /\ handlers[h].token \in Tokens
      BY Fields DEF IInv, Undo, At, Request
<1>3. /\ files' \in SUBSET Tokens /\ strays' \in SUBSET Tokens /\ faults' \in 0..MaxFaults
      /\ files' \subseteq files /\ files \ {handlers[h].token} \subseteq files'
      /\ strays \subseteq strays'
      /\ handlers[h].token \in files' => handlers[h].token \in strays'
      BY <1>2, DeleteEffect DEF IInv, Undo
<1>4. TypeOK'
      BY <1>1, <1>3 DEF IInv, TypeOK, Undo
<1>5. HandlersOK'
  <2>1. \A k \in Handlers \ {h} : handlers[k] # Idle /\ handlers[k].step = "decide"
                                    => handlers[k].token \in files'
        BY <1>2, <1>3 DEF IInv, HandlersOK, HandlerOK, CandidatesApart, Candidate, Undo, At
  <2> QED BY <1>1, <2>1, HandlersFrame DEF IInv, Undo
<1>6. CandidatesApart'
      BY <1>1, CandidatesFrame DEF IInv, Candidate
<1>7. NoStrayFiles'
      BY <1>1, <1>3, StraysFrame DEF IInv, Undo, InHand
<1>8. MailedItsGrant'
      BY DEF IInv, Undo, MailedItsGrant
<1>9. AmbiguousCommit \/ \A a \in Apps : grants[a] # NoGrant => grants[a].token # handlers[h].token
      BY <1>2 DEF IInv, HandlersOK, HandlerOK, Undo, At
<1> QED BY <1>3, <1>4, <1>5, <1>6, <1>7, <1>8, <1>9, MoveFrame DEF Undo

LEMMA SwapStep ==
  ASSUME IInv, NEW h \in Handlers, Swap(h)
  PROVE  IInv'
<1>1. handlers[h] \in Request /\ handlers[h].step = "swap" /\ handlers[h].token \in Tokens
      BY Fields DEF IInv, Swap, At, Request
<1> DEFINE next == [handlers[h] EXCEPT !.step = "read"]
<1>2. next \in Request /\ handlers' = [handlers EXCEPT ![h] = next]
      BY <1>1, GoToRequest DEF IInv, Swap, At, Steps
<1>3. /\ handlers' \in [Handlers -> Request \cup {Idle}]
      /\ handlers'[h] = next
      /\ \A k \in Handlers \ {h} : handlers'[k] = handlers[k]
      BY <1>2, RequestsHandled DEF IInv
<1>4. next.step = "read" /\ next.app = handlers[h].app /\ next.ref = handlers[h].ref
      BY <1>1 DEF Request
<1> HIDE DEF next
<1>5. /\ files' \in SUBSET Tokens /\ strays' \in SUBSET Tokens /\ faults' \in 0..MaxFaults
      /\ files' \subseteq files /\ files \ {handlers[h].token} \subseteq files'
      /\ strays \subseteq strays'
      /\ handlers[h].token \in files' => handlers[h].token \in strays'
      BY <1>1, DeleteEffect DEF IInv, Swap
<1>6. TypeOK'
      BY <1>3, <1>5 DEF IInv, TypeOK, Swap
<1>7. HandlersOK'
  <2>1. \A k \in Handlers \ {h} : handlers[k] # Idle /\ handlers[k].step = "decide"
                                    => handlers[k].token \in files'
        BY <1>1, <1>5 DEF IInv, HandlersOK, HandlerOK, CandidatesApart, Candidate, Swap, At
  <2>2. grants[handlers[h].app] # NoGrant /\ handlers[h].ref = grants[handlers[h].app].token
        BY <1>1 DEF IInv, HandlersOK, HandlerOK, Swap, At
  <2>3. HandlerOK(h)'
        BY <1>3, <1>4, <2>2 DEF HandlerOK, Swap
  <2> QED BY <1>3, <2>1, <2>3, HandlersFrame DEF IInv, Swap
<1>8. CandidatesApart'
      BY <1>3, <1>4, CandidatesFrame DEF IInv, Candidate
<1>9. NoStrayFiles'
      BY <1>3, <1>5, StraysFrame DEF IInv, Swap, InHand
<1>10. MailedItsGrant'
      BY DEF IInv, Swap, MailedItsGrant
<1>11. \A a \in Apps : grants[a] # NoGrant => grants[a].token # handlers[h].token
      BY <1>1 DEF IInv, HandlersOK, HandlerOK, Swap, At
<1> QED BY <1>5, <1>6, <1>7, <1>8, <1>9, <1>10, <1>11, MoveFrame DEF Swap

LEMMA ReadStep ==
  ASSUME IInv, NEW h \in Handlers, Read(h)
  PROVE  IInv'
<1>1. handlers[h] # Idle /\ handlers[h] \in Request /\ handlers[h].step = "read"
      BY Fields DEF IInv, Read, Readable, At
<1> DEFINE next(t) == [handlers[h] EXCEPT !.step = "mail", !.token = t]
<1>2. \A t \in Tokens : /\ next(t) \in Request /\ next(t).step = "mail"
                        /\ next(t).app = handlers[h].app /\ next(t).ref = handlers[h].ref
      BY <1>1 DEF Request, Steps
<1>3. PICK x \in {next(t) : t \in Tokens} \cup {Idle} : handlers' = [handlers EXCEPT ![h] = x]
  <2>1. handlers[h].ref \in Tokens
        BY <1>1 DEF Request
  <2> QED BY <2>1 DEF Read, Return
<1> HIDE DEF next
<1>4. /\ handlers' \in [Handlers -> Request \cup {Idle}]
      /\ handlers'[h] = x
      /\ \A k \in Handlers \ {h} : handlers'[k] = handlers[k]
      BY <1>2, <1>3, RequestsHandled DEF IInv
<1>5. TypeOK'
  <2>1. Fault \/ NoFault
        BY DEF Read
  <2>2. UNCHANGED <<clock, apps, grants, files, mailed, strays>>
        BY DEF Read
  <2>3. faults' \in 0..MaxFaults
        BY <2>1, ApprovalsAssumption DEF IInv, TypeOK, Fault, NoFault
  <2> QED BY <1>4, <2>2, <2>3 DEF IInv, TypeOK
<1>6. HandlersOK'
  <2>1. grants[handlers[h].app] # NoGrant /\ handlers[h].ref = grants[handlers[h].app].token
        BY <1>1 DEF IInv, HandlersOK, HandlerOK
  <2>2. handlers'[h] # Idle => HandlerOK(h)'
        BY <1>2, <1>4, <2>1 DEF HandlerOK, Read, Readable
  <2>3. \A k \in Handlers : handlers[k] # Idle /\ handlers[k].step = "decide"
                              => handlers[k].token \in files'
        BY DEF IInv, HandlersOK, HandlerOK, Read, Readable
  <2> QED BY <1>4, <2>2, <2>3, HandlersFrame DEF IInv, Read, Readable
<1>7. CandidatesApart'
      BY <1>2, <1>4, CandidatesFrame DEF IInv, Candidate
<1>8. NoStrayFiles'
      BY <1>1, <1>4, StraysFrame DEF IInv, Read, Readable, InHand
<1>9. MailedItsGrant'
      BY DEF IInv, Read, Readable, MailedItsGrant
<1> QED BY <1>5, <1>6, <1>7, <1>8, <1>9, MoveFrame DEF Read, Readable

LEMMA MailStep ==
  ASSUME IInv, NEW h \in Handlers, Mail(h)
  PROVE  IInv'
<1>1. /\ handlers' \in [Handlers -> Request \cup {Idle}]
      /\ handlers'[h] = Idle
      /\ \A k \in Handlers \ {h} : handlers'[k] = handlers[k]
      BY RequestsHandled DEF IInv, Mail, sendApproval, Send, Return
<1>2. handlers[h] # Idle /\ handlers[h] \in Request /\ handlers[h].step = "mail"
      BY Fields DEF IInv, Mail, sendApproval, Send, At
<1>3. \/ mailed' = mailed
      \/ /\ mailed' = mailed \cup {<<handlers[h].app, handlers[h].token>>}
         /\ handlers[h].token = handlers[h].ref
      BY DEF Mail, Intact, sendApproval, Send
<1>4. TypeOK'
      BY <1>1, <1>2, <1>3, ApprovalsAssumption DEF IInv, TypeOK, Mail, sendApproval, Send, Fault, NoFault, Request
<1>5. HandlersOK'
  <2>1. \A k \in Handlers : handlers[k] # Idle /\ handlers[k].step = "decide"
                              => handlers[k].token \in files'
        BY DEF IInv, HandlersOK, HandlerOK, Mail, sendApproval, Send
  <2> QED BY <1>1, <2>1, HandlersFrame DEF IInv, Mail, sendApproval, Send
<1>6. CandidatesApart'
      BY <1>1, CandidatesFrame DEF IInv, Candidate
<1>7. NoStrayFiles'
      BY <1>1, <1>2, StraysFrame DEF IInv, Mail, sendApproval, Send, InHand
<1>8. MailedItsGrant'
  <2>1. grants[handlers[h].app] # NoGrant /\ handlers[h].ref = grants[handlers[h].app].token
        BY <1>2 DEF IInv, HandlersOK, HandlerOK
  <2> QED BY <1>3, <2>1 DEF IInv, MailedItsGrant, Mail, sendApproval, Send
<1> QED BY <1>4, <1>5, <1>6, <1>7, <1>8, MoveFrame DEF Mail, sendApproval, Send

LEMMA SweepStep ==
  ASSUME IInv, NEW h \in Handlers, Sweep(h)
  PROVE  IInv'
<1>1. /\ handlers' \in [Handlers -> Request \cup {Idle}]
      /\ handlers'[h] = Idle
      /\ \A k \in Handlers \ {h} : handlers'[k] = handlers[k]
      BY RequestsHandled DEF IInv, Sweep, Return
<1>2. /\ handlers[h] # Idle /\ handlers[h].step = "sweep"
      /\ handlers[h].token \in Tokens /\ handlers[h].app \in Apps
      BY Fields DEF IInv, Sweep, At, Request
<1>3. /\ files' \in SUBSET Tokens /\ strays' \in SUBSET Tokens /\ faults' \in 0..MaxFaults
      /\ files' \subseteq files /\ files \ {handlers[h].token} \subseteq files'
      /\ strays \subseteq strays'
      /\ handlers[h].token \in files' => handlers[h].token \in strays'
      BY <1>2, DeleteEffect DEF IInv, Sweep
<1>4. TypeOK'
      BY <1>1, <1>3 DEF IInv, TypeOK, Sweep
<1>5. /\ grants[handlers[h].app] # NoGrant /\ grants[handlers[h].app].spent
      /\ handlers[h].token = grants[handlers[h].app].token
      BY <1>2 DEF IInv, HandlersOK, HandlerOK
<1>6. HandlersOK'
  <2>1. \A k \in Handlers : handlers[k] # Idle /\ handlers[k].step = "decide"
                              => handlers[k].token \in files'
        BY <1>2, <1>3, <1>5 DEF IInv, HandlersOK, HandlerOK
  <2> QED BY <1>1, <2>1, HandlersFrame DEF IInv, Sweep
<1>7. CandidatesApart'
      BY <1>1, CandidatesFrame DEF IInv, Candidate
<1>8. NoStrayFiles'
      BY <1>1, <1>3, StraysFrame DEF IInv, Sweep, InHand
<1>9. MailedItsGrant'
      BY DEF IInv, Sweep, MailedItsGrant
<1>10. \A a \in Apps : grants[a] # NoGrant /\ ~grants[a].spent
                         => grants[a].token # handlers[h].token
      BY <1>2, <1>5 DEF IInv, GrantsApart
<1> QED BY <1>3, <1>4, <1>6, <1>7, <1>8, <1>9, <1>10, MoveFrame DEF Sweep

----
(* Approve takes up a fresh candidate.                                    *)

LEMMA ApproveStep ==
  ASSUME IInv, NEW h \in Handlers, NEW a \in Apps, Approve(h, a)
  PROVE  IInv'
<1>1. PICK t \in Tokens :
        /\ Fresh(t) /\ t \notin files /\ files' = files \cup {t}
        /\ handlers' = [handlers EXCEPT ![h] =
             [step |-> "decide", app |-> a, token |-> t, ref |-> t, from |-> clock]]
      BY DEF Approve, Put
<1> DEFINE next == [step |-> "decide", app |-> a, token |-> t, ref |-> t, from |-> clock]
<1>2. next \in Request /\ next.step = "decide" /\ next.token = t /\ next.ref = t
      BY DEF IInv, TypeOK, Request, Steps
<1>3. next # Idle
      BY <1>2, ApprovalNullsAssumption
<1> HIDE DEF next
<1>4. /\ handlers' \in [Handlers -> Request \cup {Idle}]
      /\ handlers'[h] = next
      /\ \A k \in Handlers \ {h} : handlers'[k] = handlers[k]
      BY <1>1, <1>2, RequestsHandled DEF IInv, next
<1>5. /\ \A b \in Apps : grants[b] # NoGrant => grants[b].token # t
      /\ \A k \in Handlers : handlers[k] # Idle => handlers[k].token # t
      BY <1>1 DEF Fresh
<1>6. TypeOK'
      BY <1>1, <1>4 DEF IInv, TypeOK, Approve
<1>7. HandlersOK'
  <2>1. \A k \in Handlers : handlers[k] # Idle /\ handlers[k].step = "decide"
                              => handlers[k].token \in files'
        BY <1>1 DEF IInv, HandlersOK, HandlerOK
  <2>2. HandlerOK(h)'
        BY <1>1, <1>2, <1>4, <1>5 DEF HandlerOK, Approve
  <2> QED BY <1>4, <2>1, <2>2, HandlersFrame DEF IInv, Approve
<1>8. CandidatesApart'
  <2> SUFFICES ASSUME NEW k \in Handlers, NEW l \in Handlers,
                      Candidate(k)', Candidate(l)', k # l
               PROVE  handlers'[k].token # handlers'[l].token
      BY DEF CandidatesApart
  <2>1. CASE k = h
        BY <1>2, <1>4, <1>5, <2>1 DEF Candidate
  <2>2. CASE l = h
        BY <1>2, <1>4, <1>5, <2>2 DEF Candidate
  <2>3. CASE k # h /\ l # h
        BY <1>4, <2>3 DEF IInv, CandidatesApart, Candidate
  <2> QED BY <2>1, <2>2, <2>3
<1>9. NoStrayFiles'
  <2> SUFFICES ASSUME NEW u \in files', u \notin strays',
                      ~ \E b \in Apps : grants[b] # NoGrant /\ grants[b].token = u /\ ~grants[b].spent
               PROVE  \E k \in Handlers : InHand(k, u)'
      BY DEF NoStrayFiles, InHand, Approve
  <2>1. CASE u = t
        BY <1>2, <1>3, <1>4, <2>1 DEF InHand
  <2>2. CASE u # t
    <3>1. PICK k \in Handlers : InHand(k, u)
          BY <1>1, <2>2 DEF IInv, NoStrayFiles, InHand, Approve
    <3>2. k # h
          BY <3>1 DEF InHand, Approve
    <3> QED BY <1>4, <3>1, <3>2 DEF InHand
  <2> QED BY <2>1, <2>2
<1>10. MailedItsGrant'
      BY DEF IInv, Approve, MailedItsGrant
<1> QED BY <1>1, <1>6, <1>7, <1>8, <1>9, <1>10, MoveFrame DEF Approve

----
(* The transaction of an approval.                                        *)

\* The three rows are written by handler h, which goes on to mail the token or,
\* when the answer of the COMMIT was lost, to undo.
LEMMA WriteStep ==
  ASSUME IInv, NEW h \in Handlers, handlers[h] # Idle, handlers[h].step = "decide",
         NEW issued \in Nat, NEW now \in Nat,
         ApproveVerdict(apps[handlers[h].app], issued + GrantLifetime, now) = "approved",
         WriteApproval(handlers[h], issued),
         NEW step \in {"mail", "undo"}, step = "undo" => AmbiguousCommit,
         GoTo(h, step), UNCHANGED <<clock, files, mailed, strays>>, faults' \in 0..MaxFaults
  PROVE  IInv'
<1> DEFINE r == handlers[h]
           a == handlers[h].app
           t == handlers[h].token
           next == [handlers[h] EXCEPT !.step = step]
           row == [token |-> t, expiresAt |-> issued + GrantLifetime, spent |-> FALSE]
<1>1. r \in Request /\ a \in Apps /\ t \in Tokens
      BY Fields DEF IInv, Request
<1>2. next \in Request /\ handlers' = [handlers EXCEPT ![h] = next]
      BY GoToRequest DEF IInv, Steps
<1>3. next.step = step /\ next.app = a /\ next.token = t /\ next.ref = t
  <2>1. r.ref = t
        BY DEF IInv, HandlersOK, HandlerOK
  <2> QED BY <1>1, <2>1 DEF Request
<1>4. row \in GrantRow /\ row.token = t /\ row.spent = FALSE
      BY <1>1, ApprovalsAssumption DEF GrantRow
<1>5. row # NoGrant /\ next # Idle
      BY <1>2, <1>4, ApprovalNullsAssumption
<1>6. apps[a].status = "pending" /\ apps[a].review = "active"
      BY DEF ApproveVerdict, Undecided
<1>7. /\ apps' = [apps EXCEPT ![a] = DecidedRow(apps[a], "approved")]
      /\ grants' = [grants EXCEPT ![a] = row]
      BY DEF WriteApproval
<1> HIDE DEF next, row
<1>8. /\ handlers' \in [Handlers -> Request \cup {Idle}]
      /\ handlers'[h] = next
      /\ \A k \in Handlers \ {h} : handlers'[k] = handlers[k]
      BY <1>2, RequestsHandled DEF IInv
<1>9. /\ DecidedRow(apps[a], "approved") \in Application
      /\ DecidedRow(apps[a], "approved").status = "approved"
      /\ DecidedRow(apps[a], "approved").review = "decided"
  <2>1. apps[a] \in Application
        BY <1>1 DEF IInv, TypeOK
  <2> QED BY <2>1 DEF DecidedRow, Application, DecisionStatus, ReviewStatus
<1>10. grants[a] = NoGrant
      BY <1>1, <1>6 DEF IInv, RowsAgree
<1>11. grants'[a] = row /\ \A b \in Apps \ {a} : grants'[b] = grants[b]
      BY <1>1, <1>7 DEF IInv, TypeOK
<1>12. apps'[a] = DecidedRow(apps[a], "approved") /\ \A b \in Apps \ {a} : apps'[b] = apps[b]
      BY <1>1, <1>7 DEF IInv, TypeOK
<1>13. TypeOK'
      BY <1>4, <1>7, <1>8, <1>9 DEF IInv, TypeOK
<1>14. RowsAgree'
      BY <1>5, <1>9, <1>11, <1>12 DEF IInv, RowsAgree
<1>15. t \in files /\ \A b \in Apps : grants[b] # NoGrant => grants[b].token # t
      BY DEF IInv, HandlersOK, HandlerOK
<1>16. HandlersOK'
  <2> SUFFICES ASSUME NEW k \in Handlers, handlers'[k] # Idle
               PROVE  HandlerOK(k)'
      BY DEF HandlersOK
  <2>1. CASE k = h
    <3>1. /\ handlers'[k] = next
          /\ next.step \in {"mail", "undo"} /\ (next.step = "undo" => AmbiguousCommit)
          /\ next.step = "mail" => grants'[a] # NoGrant /\ next.ref = grants'[a].token
          BY <1>3, <1>4, <1>5, <1>8, <1>11, <2>1
    <3> QED BY <1>3, <3>1 DEF HandlerOK
  <2>2. CASE k # h
    <3>1. handlers'[k] = handlers[k] /\ handlers[k] # Idle /\ HandlerOK(k)
          BY <1>8, <2>2 DEF IInv, HandlersOK
    <3>2. handlers[k].app \in Apps
          BY <3>1, Fields DEF IInv, Request
    <3>3. handlers[k].step \in {"decide", "undo", "swap"} => handlers[k].token # t
          BY <2>2, <3>1 DEF IInv, CandidatesApart, Candidate
    <3>4. \/ handlers[k].step \in {"decide", "swap"}
          \/ handlers[k].step = "undo" /\ ~AmbiguousCommit
          => \A b \in Apps : grants'[b] # NoGrant => grants'[b].token # handlers[k].token
          BY <1>4, <1>11, <3>1, <3>3 DEF HandlerOK
    <3>5. handlers[k].step \in {"swap", "read", "mail", "sweep"} =>
            handlers[k].app # a /\ grants'[handlers[k].app] = grants[handlers[k].app]
          BY <1>10, <1>11, <3>1, <3>2 DEF HandlerOK
    <3> QED BY <3>1, <3>4, <3>5 DEF HandlerOK
  <2> QED BY <2>1, <2>2
<1>17. CandidatesApart'
  <2>1. Candidate(h) /\ handlers'[h].token = handlers[h].token
        BY <1>3, <1>8 DEF Candidate
  <2> QED BY <1>8, <2>1, CandidatesFrame DEF IInv
<1>18. GrantsApart'
      BY <1>4, <1>11, <1>15 DEF IInv, GrantsApart
<1>19. MailedItsGrant'
  <2>1. \A u \in Tokens : <<a, u>> \notin mailed
        BY <1>1, <1>10 DEF IInv, MailedItsGrant
  <2> QED BY <1>11, <2>1 DEF IInv, MailedItsGrant
<1>20. Kept'
      BY <1>4, <1>11, <1>15 DEF IInv, Kept, TokenKept
<1>21. NoStrayFiles'
  <2> SUFFICES ASSUME NEW u \in files, u \notin strays,
                      ~ \E b \in Apps : grants'[b] # NoGrant /\ grants'[b].token = u /\ ~grants'[b].spent
               PROVE  \E k \in Handlers : InHand(k, u)'
      BY DEF NoStrayFiles, InHand
  <2>1. u # t
        BY <1>1, <1>4, <1>5, <1>11
  <2>2. PICK k \in Handlers : InHand(k, u)
        BY <1>10, <1>11 DEF IInv, NoStrayFiles, InHand
  <2>3. k # h
        BY <2>1, <2>2 DEF InHand
  <2> QED BY <1>8, <2>2, <2>3 DEF InHand
<1> QED BY <1>13, <1>14, <1>16, <1>17, <1>18, <1>19, <1>20, <1>21 DEF IInv

\* The decision is not taken by handler h: it goes on to undo its candidate.
LEMMA RefusedStep ==
  ASSUME IInv, NEW h \in Handlers, handlers[h] # Idle, handlers[h].step = "decide",
         GoTo(h, "undo"), UNCHANGED <<clock, apps, grants, files, mailed, strays>>,
         faults' \in 0..MaxFaults
  PROVE  IInv'
<1> DEFINE next == [handlers[h] EXCEPT !.step = "undo"]
<1>1. next \in Request /\ handlers' = [handlers EXCEPT ![h] = next]
      BY GoToRequest DEF IInv, Steps
<1>2. next.step = "undo" /\ next.token = handlers[h].token
      BY Fields DEF IInv, Request
<1>3. next # Idle
      BY <1>1, ApprovalNullsAssumption
<1> HIDE DEF next
<1>4. /\ handlers' \in [Handlers -> Request \cup {Idle}]
      /\ handlers'[h] = next
      /\ \A k \in Handlers \ {h} : handlers'[k] = handlers[k]
      BY <1>1, RequestsHandled DEF IInv
<1>5. TypeOK'
      BY <1>4 DEF IInv, TypeOK
<1>6. HandlersOK'
  <2>1. HandlerOK(h)'
        BY <1>2, <1>4 DEF IInv, HandlersOK, HandlerOK
  <2> QED BY <1>4, <2>1, HandlersFrame DEF IInv, HandlersOK, HandlerOK
<1>7. CandidatesApart'
      BY <1>2, <1>4, CandidatesFrame DEF IInv, Candidate
<1>8. NoStrayFiles'
      BY <1>2, <1>3, <1>4, StraysFrame DEF IInv, InHand
<1>9. MailedItsGrant'
      BY DEF IInv, MailedItsGrant
<1> QED BY <1>5, <1>6, <1>7, <1>8, <1>9, MoveFrame

\* The application was approved before: handler h goes on to swap its candidate
\* for the token of the stored grant.
LEMMA ReplayStep ==
  ASSUME IInv, NEW h \in Handlers, handlers[h] # Idle, handlers[h].step = "decide",
         Decided(apps[handlers[h].app], "approved"),
         handlers' = [handlers EXCEPT ![h] =
           [handlers[h] EXCEPT !.step = "swap", !.ref = grants[handlers[h].app].token]],
         UNCHANGED <<clock, apps, grants, files, mailed, strays, faults>>
  PROVE  IInv'
<1> DEFINE a == handlers[h].app
           next == [handlers[h] EXCEPT !.step = "swap", !.ref = grants[handlers[h].app].token]
<1>1. handlers[h] \in Request /\ a \in Apps
      BY Fields DEF IInv, Request
<1>2. grants[a] # NoGrant /\ grants[a].token \in Tokens
  <2>1. grants[a] # NoGrant
        BY <1>1 DEF IInv, RowsAgree, Decided
  <2> QED BY <1>1, <2>1, Fields DEF IInv, GrantRow
<1>3. /\ next \in Request /\ next.step = "swap" /\ next.app = a
      /\ next.token = handlers[h].token /\ next.ref = grants[a].token
      BY <1>1, <1>2 DEF Request, Steps
<1>4. next # Idle
      BY <1>3, ApprovalNullsAssumption
<1>5. handlers' = [handlers EXCEPT ![h] = next]
      OBVIOUS
<1> HIDE DEF next
<1>6. /\ handlers' \in [Handlers -> Request \cup {Idle}]
      /\ handlers'[h] = next
      /\ \A k \in Handlers \ {h} : handlers'[k] = handlers[k]
      BY <1>3, <1>5, RequestsHandled DEF IInv
<1>7. TypeOK'
      BY <1>6 DEF IInv, TypeOK
<1>8. HandlersOK'
  <2>1. HandlerOK(h)'
        BY <1>2, <1>3, <1>6 DEF IInv, HandlersOK, HandlerOK
  <2> QED BY <1>6, <2>1, HandlersFrame DEF IInv, HandlersOK, HandlerOK
<1>9. CandidatesApart'
      BY <1>3, <1>6, CandidatesFrame DEF IInv, Candidate
<1>10. NoStrayFiles'
      BY <1>3, <1>4, <1>6, StraysFrame DEF IInv, InHand
<1>11. MailedItsGrant'
      BY DEF IInv, MailedItsGrant
<1> QED BY <1>7, <1>8, <1>9, <1>10, <1>11, MoveFrame

LEMMA DecideStep ==
  ASSUME IInv, NEW h \in Handlers, Decide(h)
  PROVE  IInv'
<1> DEFINE r == handlers[h]
<1>1. handlers[h] # Idle /\ handlers[h].step = "decide"
      BY DEF Decide, At
<1>2. clock \in Nat /\ faults' \in 0..MaxFaults
      BY DEF IInv, TypeOK, Decide
<1>3. PICK issued \in Readings(r.from), now \in Readings(r.from) :
        \/ /\ ApproveVerdict(apps[r.app], issued + GrantLifetime, now) = "approved"
           /\ WriteApproval(r, issued) /\ GoTo(h, "mail")
        \/ /\ ApproveVerdict(apps[r.app], issued + GrantLifetime, now) = "replayed"
           /\ handlers' = [handlers EXCEPT ![h] =
                [r EXCEPT !.step = "swap", !.ref = grants[r.app].token]]
           /\ UNCHANGED <<apps, grants>>
        \/ GoTo(h, "undo") /\ UNCHANGED <<apps, grants>>
      BY DEF Decide
<1>4. issued \in Nat /\ now \in Nat
      BY <1>2 DEF Readings
<1>5. CASE /\ ApproveVerdict(apps[r.app], issued + GrantLifetime, now) = "approved"
           /\ WriteApproval(r, issued) /\ GoTo(h, "mail")
      BY <1>1, <1>2, <1>4, <1>5, WriteStep DEF Decide
<1>6. CASE /\ ApproveVerdict(apps[r.app], issued + GrantLifetime, now) = "replayed"
           /\ handlers' = [handlers EXCEPT ![h] =
                [r EXCEPT !.step = "swap", !.ref = grants[r.app].token]]
           /\ UNCHANGED <<apps, grants>>
  <2>1. Decided(apps[r.app], "approved")
        BY <1>6 DEF ApproveVerdict
  <2> QED BY <1>1, <1>6, <2>1, ReplayStep DEF Decide
<1>7. CASE GoTo(h, "undo") /\ UNCHANGED <<apps, grants>>
      BY <1>1, <1>2, <1>7, RefusedStep DEF Decide
<1> QED BY <1>3, <1>5, <1>6, <1>7

LEMMA DecideFailsStep ==
  ASSUME IInv, NEW h \in Handlers, DecideFails(h)
  PROVE  IInv'
<1> DEFINE r == handlers[h]
<1>1. handlers[h] # Idle /\ handlers[h].step = "decide" /\ GoTo(h, "undo")
      BY DEF DecideFails, At
<1>2. clock \in Nat /\ faults' \in 0..MaxFaults
      BY ApprovalsAssumption DEF IInv, TypeOK, DecideFails, Fault
<1>3. CASE UNCHANGED <<apps, grants>>
      BY <1>1, <1>2, <1>3, RefusedStep DEF DecideFails
<1>4. CASE ~UNCHANGED <<apps, grants>>
  <2>1. PICK issued \in Readings(r.from), now \in Readings(r.from) :
          /\ ApproveVerdict(apps[r.app], issued + GrantLifetime, now) = "approved"
          /\ WriteApproval(r, issued)
        BY <1>4 DEF DecideFails
  <2>2. AmbiguousCommit
        BY <1>4 DEF DecideFails
  <2>3. issued \in Nat /\ now \in Nat
        BY <1>2 DEF Readings
  <2> QED BY <1>1, <1>2, <2>1, <2>2, <2>3, WriteStep DEF DecideFails
<1> QED BY <1>3, <1>4

----
(* The other requests.                                                    *)

\* Consuming a grant changes its row's `spent` only.
LEMMA ConsumeStep ==
  ASSUME IInv, NEW h \in Handlers, NEW a \in Apps, ConsumeGrant(h, a)
  PROVE  IInv'
<1> DEFINE t == grants[a].token
           row == [grants[a] EXCEPT !.spent = TRUE]
           next == [step |-> "sweep", app |-> a, token |-> t, ref |-> t, from |-> clock]
<1>1. handlers[h] = Idle /\ grants[a] # NoGrant /\ grants[a] \in GrantRow
      BY Fields DEF IInv, ConsumeGrant
<1>2. /\ row \in GrantRow /\ row.token = t /\ row.spent = TRUE /\ t \in Tokens
      /\ row.expiresAt = grants[a].expiresAt
      BY <1>1 DEF GrantRow
<1>3. next \in Request /\ next.step = "sweep" /\ next.app = a /\ next.token = t
      BY <1>2 DEF IInv, TypeOK, Request, Steps
<1>4. row # NoGrant /\ next # Idle
      BY <1>2, <1>3, ApprovalNullsAssumption
<1>5. grants' = [grants EXCEPT ![a] = row]
      BY DEF ConsumeGrant
<1>6. PICK x \in {next, Idle} : /\ handlers' = [handlers EXCEPT ![h] = x]
                                /\ x = Idle => strays' = strays \cup ({t} \cap files)
                                /\ x = next => strays' = strays
  <2>1. handlers = [handlers EXCEPT ![h] = Idle]
        BY <1>1 DEF IInv, TypeOK
  <2>2. CASE handlers' = [handlers EXCEPT ![h] = next] /\ UNCHANGED strays
        BY <1>4, <2>2
  <2>3. CASE strays' = strays \cup ({t} \cap files) /\ UNCHANGED handlers
        BY <1>4, <2>1, <2>3
  <2> QED BY <2>2, <2>3 DEF ConsumeGrant, Abandon
<1> HIDE DEF row, next
<1>7. /\ handlers' \in [Handlers -> Request \cup {Idle}]
      /\ handlers'[h] = x
      /\ \A k \in Handlers \ {h} : handlers'[k] = handlers[k]
      BY <1>3, <1>6, RequestsHandled DEF IInv
<1>8. grants'[a] = row /\ \A b \in Apps \ {a} : grants'[b] = grants[b]
      BY <1>5 DEF IInv, TypeOK
<1>9. \A b \in Apps : /\ grants'[b] # NoGrant <=> grants[b] # NoGrant
                      /\ grants[b] # NoGrant => grants'[b].token = grants[b].token
                      /\ grants[b] # NoGrant /\ grants[b].spent => grants'[b].spent
                      /\ b # a /\ grants[b] # NoGrant => grants'[b].spent = grants[b].spent
      BY <1>1, <1>2, <1>4, <1>8
<1>10. TypeOK'
  <2>1. faults' \in 0..MaxFaults
        BY ApprovalsAssumption DEF IInv, TypeOK, ConsumeGrant, Fault, NoFault
  <2>2. strays' \in SUBSET Tokens
        BY <1>2, <1>6 DEF IInv, TypeOK
  <2>3. grants' \in [Apps -> GrantRow \cup {NoGrant}]
        BY <1>2, <1>5 DEF IInv, TypeOK
  <2> QED BY <1>7, <2>1, <2>2, <2>3 DEF IInv, TypeOK, ConsumeGrant
<1>11. RowsAgree'
      BY <1>9 DEF IInv, RowsAgree, ConsumeGrant
<1>12. HandlersOK'
  <2> SUFFICES ASSUME NEW k \in Handlers, handlers'[k] # Idle
               PROVE  HandlerOK(k)'
      BY DEF HandlersOK
  <2>1. CASE k = h
    <3>1. handlers'[k] = next /\ grants'[a] # NoGrant /\ grants'[a].token = t /\ grants'[a].spent
          BY <1>2, <1>4, <1>6, <1>7, <1>8, <2>1
    <3> QED BY <1>3, <3>1 DEF HandlerOK
  <2>2. CASE k # h
    <3>1. handlers'[k] = handlers[k] /\ handlers[k] # Idle /\ HandlerOK(k) /\ files' = files
          BY <1>7, <2>2 DEF IInv, HandlersOK, ConsumeGrant
    <3>2. handlers[k].app \in Apps
          BY <3>1, Fields DEF IInv, Request
    <3> QED BY <1>9, <3>1, <3>2 DEF HandlerOK
  <2> QED BY <2>1, <2>2
<1>13. CandidatesApart'
      BY <1>3, <1>6, <1>7, CandidatesFrame DEF IInv, Candidate
<1>14. GrantsApart'
      BY <1>9 DEF IInv, GrantsApart
<1>15. MailedItsGrant'
      BY <1>9 DEF IInv, MailedItsGrant, ConsumeGrant
<1>16. Kept'
      BY <1>8, <1>2, <1>9 DEF IInv, Kept, TokenKept, ConsumeGrant
<1>17. NoStrayFiles'
  <2> SUFFICES ASSUME NEW u \in files, u \notin strays',
                      ~ \E b \in Apps : grants'[b] # NoGrant /\ grants'[b].token = u /\ ~grants'[b].spent
               PROVE  \E k \in Handlers : InHand(k, u)'
      BY DEF NoStrayFiles, InHand, ConsumeGrant
  <2>1. CASE u = t
        BY <1>3, <1>4, <1>6, <1>7, <2>1 DEF InHand
  <2>2. CASE u # t
    <3>1. u \notin strays
          BY <1>6
    <3>2. PICK k \in Handlers : InHand(k, u)
          BY <1>9, <2>2, <3>1 DEF IInv, NoStrayFiles, InHand
    <3>3. k # h
          BY <1>1, <3>2 DEF InHand
    <3> QED BY <1>7, <3>2, <3>3 DEF InHand
  <2> QED BY <2>1, <2>2
<1> QED BY <1>10, <1>11, <1>12, <1>13, <1>14, <1>15, <1>16, <1>17 DEF IInv

LEMMA DeclineStep ==
  ASSUME IInv, NEW a \in Apps, Decline(a)
  PROVE  IInv'
<1>1. apps[a] \in Application /\ apps[a].status = "pending" /\ apps[a].review = "active"
      BY DEF IInv, TypeOK, Decline, DeclineVerdict, Undecided
<1>2. /\ DecidedRow(apps[a], "declined") \in Application
      /\ DecidedRow(apps[a], "declined").status = "declined"
      /\ DecidedRow(apps[a], "declined").review = "decided"
      BY <1>1 DEF DecidedRow, Application, DecisionStatus, ReviewStatus
<1>3. apps' = [apps EXCEPT ![a] = DecidedRow(apps[a], "declined")]
      BY DEF Decline
<1>4. TypeOK'
      BY <1>2, <1>3 DEF IInv, TypeOK, Decline
<1>5. RowsAgree'
      BY <1>1, <1>2, <1>3 DEF IInv, TypeOK, RowsAgree, Decline
<1> QED BY <1>4, <1>5, QuietFrame DEF Decline

LEMMA WithdrawStep ==
  ASSUME IInv, NEW a \in Apps, NEW review \in {"revoked", "expired"}, Withdraw(a, review)
  PROVE  IInv'
<1> DEFINE row == [apps[a] EXCEPT !.review = review]
<1>1. apps[a] \in Application /\ apps[a].review = "active"
      BY DEF IInv, TypeOK, Withdraw
<1>2. row \in Application /\ row.status = apps[a].status /\ row.review = review
      BY <1>1 DEF Application, ReviewStatus
<1>3. apps' = [apps EXCEPT ![a] = row]
      BY DEF Withdraw
<1> HIDE DEF row
<1>4. TypeOK'
      BY <1>2, <1>3 DEF IInv, TypeOK, Withdraw
<1>5. RowsAgree'
      BY <1>1, <1>2, <1>3 DEF IInv, TypeOK, RowsAgree, Withdraw
<1> QED BY <1>4, <1>5, QuietFrame DEF Withdraw

----
(* The theorems.                                                          *)

LEMMA InitOK == Init => IInv
<1> SUFFICES ASSUME Init
             PROVE  IInv
    OBVIOUS
<1>1. TypeOK
      BY ApprovalsAssumption
      DEF Init, TypeOK, Application, DecisionStatus, ReviewStatus
<1>2. RowsAgree
      BY DEF Init, RowsAgree
<1>3. HandlersOK /\ CandidatesApart /\ GrantsApart /\ MailedItsGrant /\ Kept /\ NoStrayFiles
      BY DEF Init, HandlersOK, CandidatesApart, Candidate, GrantsApart, MailedItsGrant, Kept,
             TokenKept, NoStrayFiles
<1> QED BY <1>1, <1>2, <1>3 DEF IInv

LEMMA StepOK == IInv /\ [Next]_vars => IInv'
<1> SUFFICES ASSUME IInv, [Next]_vars
             PROVE  IInv'
    OBVIOUS
<1>1. CASE Tick
  <2>1. TypeOK' /\ RowsAgree'
        BY <1>1 DEF IInv, TypeOK, RowsAgree, Tick
  <2> QED BY <1>1, <2>1, QuietFrame DEF Tick
<1>2. CASE UNCHANGED vars
  <2>1. TypeOK' /\ RowsAgree'
        BY <1>2 DEF IInv, TypeOK, RowsAgree, vars
  <2> QED BY <1>2, <2>1, QuietFrame DEF vars
<1>3. ASSUME NEW a \in Apps, NEW review \in {"revoked", "expired"}, Withdraw(a, review)
      PROVE  IInv'
      BY <1>3, WithdrawStep
<1>4. ASSUME NEW a \in Apps, Decline(a)
      PROVE  IInv'
      BY <1>4, DeclineStep
<1>5. ASSUME NEW h \in Handlers, NEW a \in Apps, Approve(h, a) \/ ConsumeGrant(h, a)
      PROVE  IInv'
      BY <1>5, ApproveStep, ConsumeStep
<1>6. ASSUME NEW h \in Handlers, Decide(h) \/ DecideFails(h) \/ Undo(h) \/ Swap(h)
      PROVE  IInv'
      BY <1>6, DecideStep, DecideFailsStep, UndoStep, SwapStep
<1>7. ASSUME NEW h \in Handlers, Read(h) \/ Mail(h) \/ Sweep(h) \/ Stop(h)
      PROVE  IInv'
      BY <1>7, ReadStep, MailStep, SweepStep, StopStep
<1> QED BY <1>1, <1>2, <1>3, <1>4, <1>5, <1>6, <1>7 DEF Next

\* The inductive invariant: every reachable state satisfies IInv.
THEOREM Invariance == Spec => []IInv
BY InitOK, StepOK, PTL DEF Spec

\* Every variable keeps its type.
THEOREM TypeCorrect == Spec => []TypeOK
<1>1. IInv => TypeOK
      BY DEF IInv
<1> QED BY Invariance, <1>1, PTL

\* Service.Approve and Service.Decline write the rows of a decision together:
\* no crash, lost answer or race leaves an approval without its grant, a grant
\* without an approval, or a decided application with an open capability.
THEOREM RowsOfDecisionAgree == Spec => []RowsAgree
<1>1. IInv => RowsAgree
      BY DEF IInv
<1> QED BY Invariance, <1>1, PTL

\* Service.Approve mails no token but that of the application's stored grant,
\* however many approvals race, fail or are repeated.
THEOREM OnlyGrantsMailed == Spec => []MailedItsGrant
<1>1. IInv => MailedItsGrant
      BY DEF IInv
<1> QED BY Invariance, <1>1, PTL

\* Where a COMMIT that returns an error never took effect, the token of an
\* approved, unconsumed grant is never deleted: the approval stays repeatable.
THEOREM TokensKept == ~AmbiguousCommit => (Spec => []TokenKept)
<1> SUFFICES ASSUME ~AmbiguousCommit
             PROVE  Spec => []TokenKept
    OBVIOUS
<1>1. IInv => TokenKept
      BY DEF IInv, Kept
<1> QED BY Invariance, <1>1, PTL

\* Files that no grant needs and no handler will delete come from failed
\* deletes and stopped handlers only.
THEOREM StraysAccounted == Spec => []NoStrayFiles
<1>1. IInv => NoStrayFiles
      BY DEF IInv
<1> QED BY Invariance, <1>1, PTL

\* Store.ResolveReview shows an application exactly when Store.Approve and
\* Store.Decline would take a decision on it.
THEOREM ReviewAgreesWithDecisions == Spec => []ReviewForetells
<1>1. IInv => ReviewForetells
  <2> SUFFICES ASSUME IInv, NEW a \in Apps, NEW now \in 0..(clock + Skew)
               PROVE  /\ ResolveReviewVerdict(apps[a], now) = "resolved"
                           <=> DeclineVerdict(apps[a], now) = "declined"
                      /\ ResolveReviewVerdict(apps[a], now) = "resolved"
                           <=> ApproveVerdict(apps[a], now + GrantLifetime, now) = "approved"
      BY DEF ReviewForetells
  <2> DEFINE open == ~(now >= apps[a].reviewExpiresAt) /\ Undecided(apps[a])
  <2>1. now \in Nat /\ ~(now + GrantLifetime <= now)
        BY ApprovalsAssumption DEF IInv, TypeOK
  <2>2. ResolveReviewVerdict(apps[a], now) = "resolved" <=> open
        BY DEF ResolveReviewVerdict
  <2>3. DeclineVerdict(apps[a], now) = "declined" <=> open
        BY DEF DeclineVerdict, ReviewLapsed, Decided, Undecided
  <2>4. ApproveVerdict(apps[a], now + GrantLifetime, now) = "approved" <=> open
        BY <2>1 DEF ApproveVerdict, ReviewLapsed, Decided, Undecided
  <2> QED BY <2>2, <2>3, <2>4
<1> QED BY Invariance, <1>1, PTL

\* No step of any handler or of the operator changes a decided application, or
\* the token and expiry of its grant.
THEOREM DecisionsFinal == Spec => DecisionStands
<1> DEFINE Stands(a) == apps[a].review = "decided" =>
             /\ apps'[a] = apps[a]
             /\ grants[a] # NoGrant =>
                  /\ grants'[a].token = grants[a].token
                  /\ grants'[a].expiresAt = grants[a].expiresAt
<1>1. IInv /\ [Next]_vars => \A a \in Apps : Stands(a)
  <2> SUFFICES ASSUME IInv, [Next]_vars, NEW a \in Apps, apps[a].review = "decided"
               PROVE  /\ apps'[a] = apps[a]
                      /\ grants[a] # NoGrant =>
                           /\ grants'[a].token = grants[a].token
                           /\ grants'[a].expiresAt = grants[a].expiresAt
      OBVIOUS
  <2>1. CASE UNCHANGED <<apps, grants>>
        BY <2>1
  <2>2. ASSUME NEW b \in Apps, NEW review \in {"revoked", "expired"}, Withdraw(b, review)
        PROVE  UNCHANGED grants /\ apps'[a] = apps[a]
        BY <2>2 DEF IInv, TypeOK, Withdraw
  <2>3. ASSUME NEW b \in Apps, Decline(b)
        PROVE  UNCHANGED grants /\ apps'[a] = apps[a]
        BY <2>3 DEF IInv, TypeOK, Decline, DeclineVerdict, Undecided
  <2>4. ASSUME NEW h \in Handlers, NEW b \in Apps, ConsumeGrant(h, b)
        PROVE  /\ apps' = apps
               /\ grants[a] # NoGrant => /\ grants'[a].token = grants[a].token
                                         /\ grants'[a].expiresAt = grants[a].expiresAt
    <3>1. grants' = [grants EXCEPT ![b] = [grants[b] EXCEPT !.spent = TRUE]] /\ apps' = apps
          BY <2>4 DEF ConsumeGrant
    <3>2. grants[b] \in GrantRow
          BY <2>4, Fields DEF IInv, ConsumeGrant
    <3>3. /\ [grants[b] EXCEPT !.spent = TRUE].token = grants[b].token
          /\ [grants[b] EXCEPT !.spent = TRUE].expiresAt = grants[b].expiresAt
          BY <3>2 DEF GrantRow
    <3> QED BY <3>1, <3>3 DEF IInv, TypeOK
  <2>5. ASSUME NEW h \in Handlers, NEW issued, NEW now, At(h, "decide"),
               ApproveVerdict(apps[handlers[h].app], issued + GrantLifetime, now) = "approved",
               WriteApproval(handlers[h], issued)
        PROVE  apps'[a] = apps[a] /\ grants'[a] = grants[a]
    <3>1. handlers[h].app # a
          BY <2>5 DEF ApproveVerdict, Undecided
    <3> QED BY <2>5, <3>1 DEF IInv, TypeOK, WriteApproval
  <2>6. ASSUME NEW h \in Handlers, Decide(h) \/ DecideFails(h)
        PROVE  apps'[a] = apps[a] /\ grants'[a] = grants[a]
        BY <2>5, <2>6 DEF Decide, DecideFails
  <2>7. ASSUME Tick \/ (\E h \in Handlers : \/ \E b \in Apps : Approve(h, b)
                                            \/ Undo(h) \/ Swap(h) \/ Read(h) \/ Mail(h)
                                            \/ Sweep(h) \/ Stop(h))
        PROVE  UNCHANGED <<apps, grants>>
        BY <2>7 DEF Tick, Approve, Undo, Swap, Read, Readable, Mail, sendApproval, Send, Sweep, Stop
  <2> QED BY <2>1, <2>2, <2>3, <2>4, <2>6, <2>7 DEF Next, vars
<1>2. (\A a \in Apps : Stands(a)) =>
        \A a \in Apps : apps[a].review = "decided" =>
           /\ apps'[a] = apps[a]
           /\ grants[a] # NoGrant =>
                /\ grants'[a].token = grants[a].token
                /\ grants'[a].expiresAt = grants[a].expiresAt
      OBVIOUS
<1> HIDE DEF Stands
<1> QED BY Invariance, <1>1, <1>2, PTL DEF Spec, DecisionStands

----
(* The approvals implement ApplicationLife.                               *)

States  == [a \in Apps |-> StateOf(a)]
Links   == [a \in Apps |-> LinkOf(a)]
KeptIn(stored) == {a \in Apps : grants[a] # NoGrant /\ grants[a].token \in stored}
Shown   == <<States, Links, KeptIn(files), mailed>>

\* What the rows of an application are in each state.
LEMMA StatesOfRows ==
  ASSUME IInv, NEW a \in Apps
  PROVE  /\ grants[a] # NoGrant => StateOf(a) = IF grants[a].spent THEN "spent" ELSE "approved"
         /\ grants[a] = NoGrant => StateOf(a) \notin {"approved", "spent"}
         /\ Undecided(apps[a]) <=> StateOf(a) = "open"
<1>1. /\ (grants[a] # NoGrant) <=> (apps[a].status = "approved")
      /\ (apps[a].status # "pending") <=> (apps[a].review = "decided")
      BY DEF IInv, RowsAgree
<1> QED BY <1>1 DEF StateOf, Decided, Undecided

\* Without a change of the rows nothing shows but what becomes of the files.
LEMMA FilesShow ==
  ASSUME UNCHANGED <<apps, grants, mailed>>
  PROVE  /\ States' = States /\ Links' = Links
         /\ KeptIn(files)' = KeptIn(files')
BY DEF States, Links, StateOf, LinkOf, KeptIn

LEMMA NothingShows ==
  ASSUME UNCHANGED <<apps, grants, mailed>>,
         \A a \in Apps : grants[a] # NoGrant => (grants[a].token \in files' <=> grants[a].token \in files)
  PROVE  UNCHANGED Shown
BY FilesShow DEF Shown, KeptIn

\* A deletion shows when it deletes the token of a grant, which is one grant's.
LEMMA DeleteShows ==
  ASSUME IInv, NEW t \in Tokens, Delete(t), UNCHANGED <<apps, grants, mailed>>,
         \A a \in Apps : grants[a] # NoGrant /\ grants[a].token = t
                         => AmbiguousCommit \/ grants[a].spent
  PROVE  UNCHANGED Shown \/ \E a \in Apps : Life!Lose(a)
<1>1. files' = files \/ files' = files \ {t}
      BY DEF Delete, Abandon
<1>2. CASE files' = files \/ \A a \in Apps : grants[a] # NoGrant => grants[a].token # t
      BY <1>1, <1>2, NothingShows
<1>3. ASSUME files' = files \ {t}, NEW a \in Apps, grants[a] # NoGrant, grants[a].token = t
      PROVE  Life!Lose(a)
  <2>1. \A b \in Apps \ {a} : grants[b] # NoGrant => grants[b].token # t
        BY <1>3 DEF IInv, GrantsApart
  <2>2. KeptIn(files') = KeptIn(files) \ {a}
        BY <1>3, <2>1 DEF KeptIn
  <2>3. States[a] = "spent" \/ AmbiguousCommit
        BY <1>3, StatesOfRows DEF States
  <2> QED BY <2>2, <2>3, FilesShow DEF Life!Lose, States, Links, KeptIn
<1> QED BY <1>1, <1>2, <1>3

LEMMA UndoShows ==
  ASSUME IInv, NEW h \in Handlers, Undo(h)
  PROVE  UNCHANGED Shown \/ \E a \in Apps : Life!Lose(a)
<1>1. /\ handlers[h] # Idle /\ handlers[h].step = "undo" /\ handlers[h].token \in Tokens
      /\ HandlerOK(h)
      BY Fields DEF IInv, Undo, At, Request, HandlersOK
<1> QED BY <1>1, DeleteShows DEF Undo, HandlerOK

LEMMA SwapShows ==
  ASSUME IInv, NEW h \in Handlers, Swap(h)
  PROVE  UNCHANGED Shown \/ \E a \in Apps : Life!Lose(a)
<1>1. /\ handlers[h] # Idle /\ handlers[h].step = "swap" /\ handlers[h].token \in Tokens
      /\ HandlerOK(h)
      BY Fields DEF IInv, Swap, At, Request, HandlersOK
<1> QED BY <1>1, DeleteShows DEF Swap, HandlerOK

LEMMA SweepShows ==
  ASSUME IInv, NEW h \in Handlers, Sweep(h)
  PROVE  UNCHANGED Shown \/ \E a \in Apps : Life!Lose(a)
<1>1. /\ handlers[h] # Idle /\ handlers[h].step = "sweep" /\ handlers[h].token \in Tokens
      /\ handlers[h].app \in Apps /\ HandlerOK(h)
      BY Fields DEF IInv, Sweep, At, Request, HandlersOK
<1>2. \A a \in Apps : grants[a] # NoGrant /\ grants[a].token = handlers[h].token
                       => grants[a].spent
      BY <1>1 DEF IInv, GrantsApart, HandlerOK
<1> QED BY <1>1, <1>2, DeleteShows DEF Sweep

LEMMA MailShows ==
  ASSUME IInv, NEW h \in Handlers, Mail(h)
  PROVE  UNCHANGED Shown \/ \E a \in Apps : Life!Deliver(a)
<1> DEFINE a == handlers[h].app
           t == handlers[h].token
<1>1. a \in Apps /\ grants[a] # NoGrant /\ handlers[h].ref = grants[a].token
      BY Fields DEF IInv, Mail, At, Request, HandlersOK, HandlerOK
<1>2. UNCHANGED <<apps, grants, files>>
      BY DEF Mail
<1>3. CASE mailed' = mailed
      BY <1>2, <1>3, NothingShows
<1>4. CASE mailed' = mailed \cup {<<a, t>>} /\ t = handlers[h].ref
  <2>1. Links[a] = t /\ States[a] \in {"approved", "spent"}
        BY <1>1, <1>4, StatesOfRows DEF Links, LinkOf, States
  <2>2. States' = States /\ Links' = Links /\ KeptIn(files)' = KeptIn(files)
        BY <1>2 DEF States, Links, StateOf, LinkOf, KeptIn
  <2>3. Life!Deliver(a)
        BY <1>4, <2>1, <2>2 DEF Life!Deliver, Life!HasLink, States, Links, KeptIn
  <2> QED BY <1>1, <2>3
<1> QED BY <1>3, <1>4 DEF Mail, Intact, sendApproval, Send

----
(* The steps that write rows.                                             *)

\* One application's rows are written, and no file and no email.
LEMMA OneRowShows ==
  ASSUME TypeOK, NEW a \in Apps, UNCHANGED <<files, mailed>>,
         \A b \in Apps \ {a} : apps'[b] = apps[b] /\ grants'[b] = grants[b]
  PROVE  /\ States' = [States EXCEPT ![a] = StateOf(a)']
         /\ Links' = [Links EXCEPT ![a] = LinkOf(a)']
         /\ \A b \in Apps \ {a} : b \in KeptIn(files)' <=> b \in KeptIn(files)
<1>1. \A b \in Apps \ {a} : StateOf(b)' = StateOf(b) /\ LinkOf(b)' = LinkOf(b)
      BY DEF StateOf, LinkOf
<1> QED BY <1>1 DEF States, Links, KeptIn

LEMMA WriteShows ==
  ASSUME IInv, NEW h \in Handlers, At(h, "decide"), NEW issued \in Nat, NEW now \in Nat,
         ApproveVerdict(apps[handlers[h].app], issued + GrantLifetime, now) = "approved",
         WriteApproval(handlers[h], issued), UNCHANGED <<files, mailed>>
  PROVE  \E a \in Apps, t \in Tokens : Life!Approve(a, t)
<1>1. /\ handlers[h] # Idle /\ handlers[h].step = "decide"
      /\ handlers[h].app \in Apps /\ handlers[h].token \in Tokens /\ HandlerOK(h)
      BY Fields DEF IInv, At, Request, HandlersOK
<1> SUFFICES ASSUME NEW a \in Apps, NEW t \in Tokens,
                    a = handlers[h].app, t = handlers[h].token
             PROVE  Life!Approve(a, t)
    BY <1>1
<1>2. Undecided(apps[a])
      BY DEF ApproveVerdict
<1>3. PICK row \in GrantRow :
        /\ row # NoGrant /\ row.token = t /\ row.spent = FALSE
        /\ apps' = [apps EXCEPT ![a] = DecidedRow(apps[a], "approved")]
        /\ grants' = [grants EXCEPT ![a] = row]
  <2> DEFINE r == [token |-> t, expiresAt |-> issued + GrantLifetime, spent |-> FALSE]
  <2>1. r \in GrantRow
        BY ApprovalsAssumption DEF GrantRow
  <2>2. r # NoGrant
        BY <2>1, ApprovalNullsAssumption
  <2> QED BY <2>1, <2>2 DEF WriteApproval
<1>4. t \in files /\ \A b \in Apps : grants[b] # NoGrant => grants[b].token # t
      BY <1>1 DEF HandlerOK
<1>5. /\ grants'[a] = row /\ apps'[a] = DecidedRow(apps[a], "approved")
      /\ \A b \in Apps \ {a} : apps'[b] = apps[b] /\ grants'[b] = grants[b]
      BY <1>3 DEF IInv, TypeOK
<1>6. apps'[a].status = "approved" /\ apps'[a].review = "decided"
      BY <1>5 DEF DecidedRow, IInv, TypeOK, Application
<1>7. StateOf(a)' = "approved" /\ LinkOf(a)' = t
      BY <1>3, <1>5, <1>6 DEF StateOf, LinkOf, Decided, Undecided
<1>8. /\ States' = [States EXCEPT ![a] = "approved"] /\ Links' = [Links EXCEPT ![a] = t]
      /\ \A b \in Apps \ {a} : b \in KeptIn(files)' <=> b \in KeptIn(files)
      BY <1>5, <1>7, OneRowShows DEF IInv
<1>9. KeptIn(files)' = KeptIn(files) \cup {a}
  <2>1. a \in KeptIn(files)'
        BY <1>3, <1>4, <1>5 DEF KeptIn
  <2> QED BY <1>8, <2>1 DEF KeptIn
<1>10. States[a] = "open"
       BY <1>2, StatesOfRows DEF States
<1>11. \A b \in Apps : States[b] \in {"approved", "spent"} => Links[b] # t
       BY <1>4, StatesOfRows DEF States, Links, LinkOf
<1> QED BY <1>8, <1>9, <1>10, <1>11 DEF Life!Approve, Life!Move, Life!HasLink, States, Links, KeptIn

LEMMA DecideShows ==
  ASSUME IInv, NEW h \in Handlers, Decide(h) \/ DecideFails(h)
  PROVE  UNCHANGED Shown \/ \E a \in Apps, t \in Tokens : Life!Approve(a, t)
<1> DEFINE r == handlers[h]
<1>1. At(h, "decide") /\ UNCHANGED <<files, mailed>> /\ clock \in Nat
      BY DEF Decide, DecideFails, IInv, TypeOK
<1>2. CASE UNCHANGED <<apps, grants>>
      BY <1>1, <1>2, NothingShows
<1>3. CASE ~UNCHANGED <<apps, grants>>
  <2>1. PICK issued \in Readings(r.from), now \in Readings(r.from) :
          /\ ApproveVerdict(apps[r.app], issued + GrantLifetime, now) = "approved"
          /\ WriteApproval(r, issued)
        BY <1>3 DEF Decide, DecideFails
  <2>2. issued \in Nat /\ now \in Nat
        BY <1>1 DEF Readings
  <2> QED BY <1>1, <2>1, <2>2, WriteShows
<1> QED BY <1>2, <1>3

LEMMA ConsumeShows ==
  ASSUME IInv, NEW h \in Handlers, NEW a \in Apps, ConsumeGrant(h, a)
  PROVE  UNCHANGED Shown \/ Life!Spend(a)
<1> DEFINE row == [grants[a] EXCEPT !.spent = TRUE]
<1>1. grants[a] # NoGrant /\ grants[a] \in GrantRow
      BY Fields DEF IInv, ConsumeGrant
<1>2. row \in GrantRow /\ row.token = grants[a].token /\ row.spent = TRUE
      BY <1>1 DEF GrantRow
<1>3. row # NoGrant
      BY <1>2, ApprovalNullsAssumption
<1>4. grants' = [grants EXCEPT ![a] = row] /\ UNCHANGED <<apps, files, mailed>>
      BY DEF ConsumeGrant
<1>5. CASE grants[a].spent = TRUE
  <2>1. row = grants[a]
        BY <1>1, <1>5 DEF GrantRow
  <2>2. grants' = grants
        BY <1>4, <2>1 DEF IInv, TypeOK
  <2> QED BY <1>4, <2>2, NothingShows
<1>6. CASE grants[a].spent = FALSE
  <2> HIDE DEF row
  <2>1. grants'[a] = row /\ \A b \in Apps \ {a} : apps'[b] = apps[b] /\ grants'[b] = grants[b]
        BY <1>4 DEF IInv, TypeOK
  <2>2. StateOf(a) = "approved"
        BY <1>1, <1>6, StatesOfRows
  <2>3. Decided(apps[a], "approved")
        BY <1>1 DEF IInv, RowsAgree, Decided
  <2>4. StateOf(a)' = "spent" /\ LinkOf(a)' = grants[a].token
        BY <1>2, <1>3, <1>4, <2>1, <2>3 DEF StateOf, LinkOf, Decided, Undecided
  <2>5. /\ States' = [States EXCEPT ![a] = "spent"]
        /\ Links' = [Links EXCEPT ![a] = grants[a].token]
        /\ \A b \in Apps \ {a} : b \in KeptIn(files)' <=> b \in KeptIn(files)
        BY <1>4, <2>1, <2>4, OneRowShows DEF IInv
  <2>6. Links[a] = grants[a].token /\ States[a] = "approved"
        BY <1>1, <2>2 DEF Links, LinkOf, States
  <2>7. Links' = Links
        BY <2>5, <2>6 DEF Links
  <2>8. KeptIn(files)' = KeptIn(files)
        BY <1>1, <1>2, <1>3, <1>4, <2>1, <2>5 DEF KeptIn
  <2>9. <<a, Links[a]>> \in mailed
        BY <2>6 DEF ConsumeGrant
  <2>10. Life!Spend(a)
        BY <1>4, <2>5, <2>6, <2>7, <2>8, <2>9 DEF Life!Spend, Life!Move, States, Links, KeptIn
  <2> QED BY <2>10
<1>7. grants[a].spent \in BOOLEAN
      BY <1>1 DEF GrantRow
<1> QED BY <1>5, <1>6, <1>7

\* Without a grant, a row that is written is an application's.
LEMMA ApplicationShows ==
  ASSUME IInv, NEW a \in Apps, NEW row \in Application, Undecided(apps[a]),
         apps' = [apps EXCEPT ![a] = row], UNCHANGED <<grants, files, mailed>>
  PROVE  /\ row.status = "declined" /\ row.review = "decided" => Life!Decline(a)
         /\ row.status = "pending" /\ row.review # "active" => Life!Close(a)
<1>1. States[a] = "open" /\ grants[a] = NoGrant
      BY StatesOfRows DEF States, IInv, RowsAgree, Undecided
<1>2. apps'[a] = row /\ \A b \in Apps \ {a} : apps'[b] = apps[b] /\ grants'[b] = grants[b]
      BY DEF IInv, TypeOK
<1>3. /\ States' = [States EXCEPT ![a] = StateOf(a)'] /\ Links' = Links
      /\ KeptIn(files)' = KeptIn(files)
      BY <1>2, OneRowShows DEF IInv, Links, LinkOf, KeptIn
<1>4. /\ row.status = "declined" /\ row.review = "decided" => StateOf(a)' = "declined"
      /\ row.status = "pending" /\ row.review # "active" => StateOf(a)' = "closed"
      BY <1>2 DEF StateOf, Decided, Undecided
<1> QED BY <1>1, <1>3, <1>4 DEF Life!Decline, Life!Close, Life!Move, States, Links, KeptIn

LEMMA DeclineShows ==
  ASSUME IInv, NEW a \in Apps, Decline(a)
  PROVE  Life!Decline(a)
<1>1. apps[a] \in Application /\ Undecided(apps[a])
      BY DEF IInv, TypeOK, Decline, DeclineVerdict
<1>2. /\ DecidedRow(apps[a], "declined") \in Application
      /\ DecidedRow(apps[a], "declined").status = "declined"
      /\ DecidedRow(apps[a], "declined").review = "decided"
      BY <1>1 DEF DecidedRow, Application, DecisionStatus, ReviewStatus
<1> QED BY <1>1, <1>2, ApplicationShows DEF Decline

LEMMA WithdrawShows ==
  ASSUME IInv, NEW a \in Apps, NEW review \in {"revoked", "expired"}, Withdraw(a, review)
  PROVE  Life!Close(a)
<1> DEFINE row == [apps[a] EXCEPT !.review = review]
<1>1. apps[a] \in Application /\ Undecided(apps[a])
      BY DEF IInv, TypeOK, RowsAgree, Withdraw, Undecided
<1>2. row \in Application /\ row.status = "pending" /\ row.review = review
      BY <1>1 DEF Application, ReviewStatus, Undecided
<1>3. apps' = [apps EXCEPT ![a] = row]
      BY DEF Withdraw
<1> HIDE DEF row
<1> QED BY <1>1, <1>2, <1>3, ApplicationShows DEF Withdraw

\* Steps that touch no row, no email and no token of a grant.
LEMMA OtherShows ==
  ASSUME IInv,
         \/ UNCHANGED vars \/ Tick
         \/ \E h \in Handlers : (\E a \in Apps : Approve(h, a)) \/ Read(h) \/ Stop(h)
  PROVE  UNCHANGED Shown
<1>1. CASE UNCHANGED vars \/ Tick \/ \E h \in Handlers : Read(h) \/ Stop(h)
  <2>1. UNCHANGED <<apps, grants, mailed, files>>
        BY <1>1 DEF vars, Tick, Read, Readable, Stop
  <2> QED BY <2>1, NothingShows
<1>2. ASSUME NEW h \in Handlers, NEW a \in Apps, Approve(h, a)
      PROVE  UNCHANGED Shown
  <2>1. PICK t \in Tokens : Fresh(t) /\ files' = files \cup {t}
        BY <1>2 DEF Approve, Put
  <2>2. \A b \in Apps : grants[b] # NoGrant => grants[b].token # t
        BY <2>1 DEF Fresh
  <2> QED BY <1>2, <2>1, <2>2, NothingShows DEF Approve
<1> QED BY <1>1, <1>2

\* Service.Approve, Decline and ConsumeGrant with their candidates, their races,
\* their repeats and their faults implement the life of an application; a token
\* is lost before its link is spent only where a COMMIT can be ambiguous.
THEOREM Refinement == Spec => ImplementsApplicationLife
<1>1. Init => Life!Init
  <2> SUFFICES ASSUME Init PROVE Life!Init
      OBVIOUS
  <2>1. \A a \in Apps : StateOf(a) = "open" /\ LinkOf(a) = NoGrant /\ grants[a] = NoGrant
        BY DEF Init, StateOf, LinkOf, Decided, Undecided
  <2> QED BY <2>1 DEF Init, Life!Init
<1>2. IInv /\ [Next]_vars => [Life!Next]_Shown
  <2> SUFFICES ASSUME IInv, [Next]_vars
               PROVE  Life!Next \/ UNCHANGED Shown
      OBVIOUS
  <2>1. CASE \/ UNCHANGED vars \/ Tick
             \/ \E h \in Handlers : (\E a \in Apps : Approve(h, a)) \/ Read(h) \/ Stop(h)
        BY <2>1, OtherShows
  <2>2. ASSUME NEW a \in Apps, Decline(a) \/ \E review \in {"revoked", "expired"} : Withdraw(a, review)
        PROVE  Life!Next
        BY <2>2, DeclineShows, WithdrawShows DEF Life!Next
  <2>3. ASSUME NEW h \in Handlers, NEW a \in Apps, ConsumeGrant(h, a)
        PROVE  Life!Next \/ UNCHANGED Shown
        BY <2>3, ConsumeShows DEF Life!Next
  <2>4. ASSUME NEW h \in Handlers, Decide(h) \/ DecideFails(h)
        PROVE  Life!Next \/ UNCHANGED Shown
        BY <2>4, DecideShows DEF Life!Next
  <2>5. ASSUME NEW h \in Handlers, Undo(h) \/ Swap(h) \/ Sweep(h) \/ Mail(h)
        PROVE  Life!Next \/ UNCHANGED Shown
        BY <2>5, UndoShows, SwapShows, SweepShows, MailShows DEF Life!Next
  <2> QED BY <2>1, <2>2, <2>3, <2>4, <2>5 DEF Next
<1> QED BY <1>1, <1>2, Invariance, PTL
    DEF Spec, ImplementsApplicationLife, Life!Spec, Shown, States, Links, KeptIn
====
