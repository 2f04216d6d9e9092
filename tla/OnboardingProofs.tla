---- MODULE OnboardingProofs ----
(***************************************************************************)
(* Proofs about Onboarding for every number of applications, handlers,     *)
(* operations and requests: the composition is a behaviour of Approvals    *)
(* and of SignupGrants, whose theorems therefore hold of it (ReviewsHold,  *)
(* ReviewLives and GrantsHold spell them out), and whoever gets a farm was *)
(* approved and mailed the token.                                          *)
(***************************************************************************)
EXTENDS Onboarding, SignupGrantsProofs

\* The grant exists and its token was mailed.
Delivered(g) == grants[g] # NoGrant /\ <<g, tokenOf[g]>> \in mailed

\* What the review keeps: an application has a grant exactly when it is approved.
ReviewInv ==
  /\ apps \in [Grants -> Application]
  /\ handlers \in [Handlers -> A!Request \cup {Idle}]
  /\ tokenOf \in [Grants -> Tokens]
  /\ \A g \in Grants : grants[g] # NoGrant <=> apps[g].status = "approved"

\* Nobody who was not mailed the token has a request on its way, a lease or a farm.
ApplicantInv ==
  /\ farms \in [Grants -> SUBSET Claims]
  /\ \A p \in Procs : calls[p] # NoCall => Delivered(calls[p].grant)
  /\ \A g \in Grants, c \in Claims : CountsOn(c, g) => Delivered(g)
  /\ \A g \in Grants : farms[g] # {} => Delivered(g)

OInv == IInv /\ ReviewInv /\ ApplicantInv

----
(* What Approvals sees of a grant's row.                                  *)

LEMMA GrantRowsTyped ==
  ASSUME TypeOK, tokenOf \in [Grants -> Tokens], NEW g \in Grants
  PROVE  /\ grants[g] = NoGrant => GrantRows[g] = NoGrant
         /\ grants[g] # NoGrant => /\ GrantRows[g] \in A!GrantRow /\ GrantRows[g] # NoGrant
                                   /\ GrantRows[g].token = tokenOf[g]
<1>1. CASE grants[g] = NoGrant
      BY <1>1 DEF GrantRows
<1>2. CASE grants[g] # NoGrant
  <2>1. grants[g].expiresAt \in Nat /\ tokenOf[g] \in Tokens
        BY <1>2 DEF TypeOK, Grant
  <2>2. GrantRows[g] = [token |-> tokenOf[g], expiresAt |-> grants[g].expiresAt,
                        spent |-> grants[g].status = "consumed"]
        BY <1>2 DEF GrantRows
  <2>3. (grants[g].status = "consumed") \in BOOLEAN
        OBVIOUS
  <2>4. GrantRows[g] \in A!GrantRow /\ GrantRows[g].token = tokenOf[g]
        BY <2>1, <2>2, <2>3 DEF A!GrantRow
  <2> QED BY <1>2, <2>4, OnboardingAssumption
<1> QED BY <1>1, <1>2

\* A row whose expiry stays, and which is neither consumed now nor was before,
\* looks the same to Approvals.
SameView(g) ==
  \/ grants'[g] = grants[g]
  \/ /\ grants[g] # NoGrant /\ grants'[g] # NoGrant
     /\ grants'[g].expiresAt = grants[g].expiresAt
     /\ grants[g].status # "consumed" /\ grants'[g].status # "consumed"

LEMMA ViewKept ==
  ASSUME \A g \in Grants : SameView(g), tokenOf' = tokenOf
  PROVE  GrantRows' = GrantRows
BY DEF SameView, GrantRows

----
(* The review's handlers.                                                 *)

LEMMA DecidedRowOK ==
  ASSUME NEW row \in Application, NEW status \in DecisionStatus
  PROVE  DecidedRow(row, status) \in Application /\ DecidedRow(row, status).status = status
BY DEF DecidedRow, Application, ReviewStatus

LEMMA HandlerFields ==
  ASSUME ReviewInv, NEW h \in Handlers, handlers[h] # Idle
  PROVE  /\ handlers[h] \in A!Request /\ handlers[h].app \in Grants
         /\ handlers[h].token \in Tokens /\ handlers[h].ref \in Tokens
BY DEF ReviewInv, A!Request

LEMMA HandlersKept ==
  ASSUME ReviewInv, NEW h \in Handlers,
         \/ A!Return(h)
         \/ handlers[h] # Idle /\ \E step \in A!Steps : A!GoTo(h, step)
         \/ handlers' = handlers
  PROVE  handlers' \in [Handlers -> A!Request \cup {Idle}]
<1>1. ASSUME handlers[h] # Idle, NEW step \in A!Steps, A!GoTo(h, step)
      PROVE  handlers' \in [Handlers -> A!Request \cup {Idle}]
  <2>1. [handlers[h] EXCEPT !.step = step] \in A!Request
        BY <1>1, HandlerFields DEF A!Request
  <2> QED BY <1>1, <2>1 DEF ReviewInv, A!GoTo
<1> QED BY <1>1 DEF ReviewInv, A!Return

\* A transaction of an approval writes nothing, or an application that was
\* pending and its grant.
LEMMA DecideEffect ==
  ASSUME TypeOK, ReviewInv, NEW h \in Handlers, A!Decide(h) \/ A!DecideFails(h)
  PROVE  /\ handlers' \in [Handlers -> A!Request \cup {Idle}] /\ mailed' = mailed
         /\ handlers[h] # Idle /\ handlers[h].app \in Grants
         /\ \/ apps' = apps /\ GrantRows' = GrantRows
            \/ /\ apps[handlers[h].app].status = "pending"
               /\ apps' = [apps EXCEPT ![handlers[h].app] = DecidedRow(@, "approved")]
               /\ \E issued \in Nat : GrantRows' = [GrantRows EXCEPT ![handlers[h].app] =
                    [token |-> handlers[h].token, expiresAt |-> issued + GrantLifetime,
                     spent |-> FALSE]]
<1> DEFINE r == handlers[h]
<1>1. r # Idle /\ r.app \in Grants /\ r.token \in Tokens /\ r.ref \in Tokens /\ mailed' = mailed
      BY HandlerFields DEF A!Decide, A!DecideFails, A!At
<1>2. ASSUME NEW issued, NEW now, A!ApproveVerdict(apps[r.app], issued + GrantLifetime, now) = "approved"
      PROVE  apps[r.app].status = "pending"
      BY <1>2 DEF A!ApproveVerdict, A!Undecided
<1>3. ASSUME NEW issued \in Nat, A!WriteApproval(r, issued), apps[r.app].status = "pending"
      PROVE  /\ apps' = [apps EXCEPT ![r.app] = DecidedRow(@, "approved")]
             /\ GrantRows' = [GrantRows EXCEPT ![r.app] =
                  [token |-> r.token, expiresAt |-> issued + GrantLifetime, spent |-> FALSE]]
      BY <1>3 DEF A!WriteApproval, A!DecidedRow, DecidedRow
<1>4. CASE A!DecideFails(h)
  <2>1. handlers' \in [Handlers -> A!Request \cup {Idle}]
        BY <1>1, <1>4, HandlersKept DEF A!DecideFails, A!Steps
  <2>2. CASE apps' = apps /\ GrantRows' = GrantRows
        BY <1>1, <2>1, <2>2
  <2>3. CASE \E issued, now \in A!Readings(r.from) :
               /\ A!ApproveVerdict(apps[r.app], issued + GrantLifetime, now) = "approved"
               /\ A!WriteApproval(r, issued)
    <3>1. PICK issued, now \in A!Readings(r.from) :
            /\ A!ApproveVerdict(apps[r.app], issued + GrantLifetime, now) = "approved"
            /\ A!WriteApproval(r, issued)
          BY <2>3
    <3>2. issued \in Nat
          BY DEF A!Readings
    <3> QED BY <1>1, <1>2, <1>3, <2>1, <3>1, <3>2
  <2> QED BY <1>4, <2>2, <2>3 DEF A!DecideFails
<1>5. CASE A!Decide(h)
  <2>1. PICK issued, now \in A!Readings(r.from) :
          LET verdict == A!ApproveVerdict(apps[r.app], issued + GrantLifetime, now) IN
          \/ verdict = "approved" /\ A!WriteApproval(r, issued) /\ A!GoTo(h, "mail")
          \/ /\ verdict = "replayed"
             /\ handlers' = [handlers EXCEPT ![h] =
                  [r EXCEPT !.step = "swap", !.ref = GrantRows[r.app].token]]
             /\ apps' = apps /\ GrantRows' = GrantRows
          \/ A!GoTo(h, "undo") /\ apps' = apps /\ GrantRows' = GrantRows
        BY <1>5 DEF A!Decide
  <2>2. issued \in Nat
        BY <2>1 DEF A!Readings
  <2>3. CASE \E step \in A!Steps : A!GoTo(h, step)
    <3>1. handlers' \in [Handlers -> A!Request \cup {Idle}]
          BY <1>1, <2>3, HandlersKept
    <3> QED BY <1>1, <1>2, <1>3, <2>1, <2>2, <3>1
  <2>4. CASE /\ A!ApproveVerdict(apps[r.app], issued + GrantLifetime, now) = "replayed"
             /\ handlers' = [handlers EXCEPT ![h] =
                  [r EXCEPT !.step = "swap", !.ref = GrantRows[r.app].token]]
             /\ apps' = apps /\ GrantRows' = GrantRows
    <3>1. apps[r.app].status = "approved"
          BY <2>4 DEF A!ApproveVerdict, A!Decided
    <3>2. GrantRows[r.app].token \in Tokens
          BY <1>1, <3>1, GrantRowsTyped DEF ReviewInv
    <3>3. [r EXCEPT !.step = "swap", !.ref = GrantRows[r.app].token] \in A!Request
          BY <1>1, <3>2, HandlerFields DEF A!Request, A!Steps
    <3>4. handlers' \in [Handlers -> A!Request \cup {Idle}]
          BY <2>4, <3>3 DEF ReviewInv
    <3> QED BY <1>1, <2>4, <3>4
  <2> QED BY <2>1, <2>3, <2>4 DEF A!Steps
<1> QED BY <1>4, <1>5

\* Every other step of a handler writes no application and no grant.
LEMMA HandlerStep ==
  ASSUME TypeOK, ReviewInv, GrantRows' = GrantRows, NEW h \in Handlers,
         \/ \E a \in Grants : A!Approve(h, a)
         \/ A!Undo(h) \/ A!Swap(h) \/ A!Read(h) \/ A!Mail(h) \/ A!Sweep(h) \/ A!Stop(h)
  PROVE  handlers' \in [Handlers -> A!Request \cup {Idle}] /\ apps' = apps /\ mailed \subseteq mailed'
<1>1. CASE \E a \in Grants : A!Approve(h, a)
  <2>1. PICK a \in Grants, t \in Tokens : handlers' = [handlers EXCEPT ![h] =
          [step |-> "decide", app |-> a, token |-> t, ref |-> t, from |-> clock]]
        BY <1>1 DEF A!Approve
  <2>2. [step |-> "decide", app |-> a, token |-> t, ref |-> t, from |-> clock] \in A!Request
        BY DEF A!Request, A!Steps, TypeOK
  <2>3. handlers' \in [Handlers -> A!Request \cup {Idle}]
        BY <2>1, <2>2 DEF ReviewInv
  <2> QED BY <1>1, <2>3 DEF A!Approve
<1>2. CASE A!Undo(h) \/ A!Mail(h) \/ A!Sweep(h) \/ A!Stop(h)
  <2>1. A!Return(h) /\ apps' = apps /\ mailed \subseteq mailed'
        BY <1>2 DEF A!Undo, A!Mail, A!Sweep, A!Stop, A!sendApproval, A!Send
  <2> QED BY <2>1, HandlersKept
<1>3. CASE A!Swap(h)
  <2>1. handlers[h] # Idle /\ A!GoTo(h, "read") /\ apps' = apps /\ mailed' = mailed
        BY <1>3 DEF A!Swap, A!At
  <2> QED BY <2>1, HandlersKept DEF A!Steps
<1>4. CASE A!Read(h)
  <2>1. handlers[h] # Idle /\ apps' = apps /\ mailed' = mailed
        BY <1>4 DEF A!Read, A!At
  <2>2. CASE A!Return(h)
        BY <2>1, <2>2, HandlersKept
  <2>3. ASSUME NEW t \in Tokens,
               handlers' = [handlers EXCEPT ![h] =
                 [handlers[h] EXCEPT !.step = "mail", !.token = t]]
        PROVE  handlers' \in [Handlers -> A!Request \cup {Idle}] /\ apps' = apps /\ mailed \subseteq mailed'
    <3>1. [handlers[h] EXCEPT !.step = "mail", !.token = t] \in A!Request
          BY <2>1, HandlerFields DEF A!Request, A!Steps
    <3>2. handlers' \in [Handlers -> A!Request \cup {Idle}]
          BY <2>3, <3>1 DEF ReviewInv
    <3> QED BY <2>1, <3>2
  <2>4. handlers[h].ref \in Tokens
        BY <2>1, HandlerFields DEF A!Request
  <2> QED BY <1>4, <2>2, <2>3, <2>4 DEF A!Read
<1> QED BY <1>1, <1>2, <1>3, <1>4

\* The operator's and the reviewer's other writes approve nothing.
LEMMA ApplicationStep ==
  ASSUME ReviewInv, NEW g \in Grants,
         A!Decline(g) \/ \E review \in {"revoked", "expired"} : A!Withdraw(g, review)
  PROVE  /\ apps' \in [Grants -> Application] /\ handlers' = handlers /\ mailed' = mailed
         /\ \A a \in Grants : apps'[a].status = "approved" <=> apps[a].status = "approved"
<1>1. apps[g] \in Application
      BY DEF ReviewInv
<1>2. CASE \E review \in {"revoked", "expired"} : A!Withdraw(g, review)
  <2>1. PICK review \in {"revoked", "expired"} : apps' = [apps EXCEPT ![g] = [apps[g] EXCEPT !.review = review]]
        BY <1>2 DEF A!Withdraw
  <2>2. /\ [apps[g] EXCEPT !.review = review] \in Application
        /\ [apps[g] EXCEPT !.review = review].status = apps[g].status
        BY <1>1 DEF Application, ReviewStatus
  <2>3. handlers' = handlers /\ mailed' = mailed
        BY <1>2 DEF A!Withdraw
  <2> QED BY <2>1, <2>2, <2>3 DEF ReviewInv
<1>3. CASE A!Decline(g)
  <2>1. apps' = [apps EXCEPT ![g] = DecidedRow(apps[g], "declined")]
        BY <1>3 DEF A!Decline, A!DecidedRow, DecidedRow
  <2>2. apps[g].status = "pending"
        BY <1>3 DEF A!Decline, A!DeclineVerdict, A!Undecided
  <2>3. /\ DecidedRow(apps[g], "declined") \in Application
        /\ DecidedRow(apps[g], "declined").status = "declined"
        BY <1>1, DecidedRowOK DEF DecisionStatus
  <2>4. handlers' = handlers /\ mailed' = mailed
        BY <1>3 DEF A!Decline
  <2> QED BY <2>1, <2>2, <2>3, <2>4 DEF ReviewInv
<1> QED BY <1>2, <1>3

----
(* Steps of the composition.                                              *)

\* What a step does to those who were mailed a token.
Keeps == /\ mailed \subseteq mailed'
         /\ \A g \in Grants : grants[g] # NoGrant => grants'[g] # NoGrant /\ tokenOf'[g] = tokenOf[g]

LEMMA ReviewingStep ==
  ASSUME TypeOK, ReviewInv, Reviewing
  PROVE  ReviewInv' /\ Keeps
         /\ (UNCHANGED vars \/ \E g \in Grants : Issue(g))
<1>1. CASE UNCHANGED <<vars, tokenOf>>
  <2>1. grants' = grants /\ tokenOf' = tokenOf
        BY <1>1 DEF vars
  <2>2. GrantRows' = GrantRows
        BY <2>1, ViewKept DEF SameView
  <2>3. CASE \E g \in Grants : A!Decline(g) \/ \E review \in {"revoked", "expired"} : A!Withdraw(g, review)
        BY <1>1, <2>1, <2>3, ApplicationStep DEF ReviewInv, Keeps
  <2>4. ASSUME NEW h \in Handlers,
               \/ \E a \in Grants : A!Approve(h, a)
               \/ A!Undo(h) \/ A!Swap(h) \/ A!Read(h) \/ A!Mail(h) \/ A!Sweep(h) \/ A!Stop(h)
        PROVE  ReviewInv' /\ Keeps
        BY <2>1, <2>2, <2>4, HandlerStep DEF ReviewInv, Keeps
  <2>5. ASSUME NEW h \in Handlers, A!Decide(h) \/ A!DecideFails(h)
        PROVE  ReviewInv' /\ Keeps
    <3> DEFINE a == handlers[h].app
    <3>1. /\ handlers' \in [Handlers -> A!Request \cup {Idle}] /\ mailed' = mailed /\ a \in Grants
          /\ handlers[h].token \in Tokens
          BY <2>5, DecideEffect, HandlerFields
    <3>2. apps' = apps
      <4> SUFFICES ASSUME apps' # apps PROVE FALSE
          OBVIOUS
      <4>1. PICK issued \in Nat : GrantRows' = [GrantRows EXCEPT ![a] =
              [token |-> handlers[h].token, expiresAt |-> issued + GrantLifetime, spent |-> FALSE]]
            BY <2>5, DecideEffect
      <4>2. apps[a].status = "pending"
            BY <2>5, DecideEffect
      <4>3. GrantRows[a] = NoGrant
            BY <3>1, <4>2, GrantRowsTyped DEF ReviewInv
      <4>4. GrantRows[a] = [token |-> handlers[h].token, expiresAt |-> issued + GrantLifetime, spent |-> FALSE]
            BY <2>2, <3>1, <4>1 DEF GrantRows
      <4>5. issued + GrantLifetime \in Nat
            BY LifetimesAssumption
      <4>6. GrantRows[a] \in A!GrantRow
            BY <3>1, <4>4, <4>5 DEF A!GrantRow
      <4> QED BY <4>3, <4>6, OnboardingAssumption
    <3> QED BY <2>1, <3>1, <3>2 DEF ReviewInv, Keeps
  <2>6. UNCHANGED vars
        BY <1>1
  <2> QED BY <1>1, <2>3, <2>4, <2>5, <2>6 DEF Reviewing, IssueFor
<1>2. ASSUME NEW h \in Handlers, IssueFor(h), A!Decide(h) \/ A!DecideFails(h)
      PROVE  ReviewInv' /\ Keeps /\ \E g \in Grants : Issue(g)
  <2> DEFINE a == handlers[h].app
  <2>1. /\ handlers' \in [Handlers -> A!Request \cup {Idle}] /\ mailed' = mailed
        /\ a \in Grants /\ handlers[h].token \in Tokens
        BY <1>2, DecideEffect, HandlerFields
  <2>2. PICK now \in 0..(clock + Skew) : grants' = [grants EXCEPT ![a] = NewGrant(now + GrantLifetime)]
        BY <1>2 DEF IssueFor, Issue
  <2>3. grants[a] = NoGrant /\ tokenOf' = [tokenOf EXCEPT ![a] = handlers[h].token]
        BY <1>2 DEF IssueFor, Issue
  <2>4. NewGrant(now + GrantLifetime) \in Grant(Claims)
    <3>1. now + GrantLifetime \in Nat
          BY LifetimesAssumption DEF TypeOK
    <3> QED BY <3>1, NewGrantRow
  <2>5. /\ grants'[a] \in Grant(Claims) /\ grants'[a] # NoGrant
        /\ \A g \in Grants \ {a} : grants'[g] = grants[g] /\ tokenOf'[g] = tokenOf[g]
        /\ tokenOf' \in [Grants -> Tokens]
        BY <2>1, <2>2, <2>3, <2>4, NullsAssumption DEF TypeOK, ReviewInv
  <2>6. GrantRows[a] = NoGrant /\ GrantRows'[a] # NoGrant
    <3>1. GrantRows[a] = NoGrant
          BY <2>1, <2>3 DEF GrantRows
    <3>2. GrantRows'[a] = [token |-> tokenOf'[a], expiresAt |-> grants'[a].expiresAt,
                           spent |-> grants'[a].status = "consumed"]
          BY <2>1, <2>5 DEF GrantRows
    <3>3. (grants'[a].status = "consumed") \in BOOLEAN
          OBVIOUS
    <3>4. tokenOf'[a] \in Tokens /\ grants'[a].expiresAt \in Nat
          BY <2>1, <2>5 DEF Grant
    <3>5. GrantRows'[a] \in A!GrantRow
          BY <3>2, <3>3, <3>4 DEF A!GrantRow
    <3> QED BY <3>1, <3>5, OnboardingAssumption
  <2>7. apps' = [apps EXCEPT ![a] = DecidedRow(apps[a], "approved")]
        BY <1>2, <2>6, DecideEffect
  <2>8. /\ DecidedRow(apps[a], "approved") \in Application
        /\ DecidedRow(apps[a], "approved").status = "approved"
    <3>1. apps[a] \in Application
          BY <2>1 DEF ReviewInv
    <3> HIDE DEF a
    <3> QED BY <3>1, DecidedRowOK DEF DecisionStatus
  <2>9. /\ apps' \in [Grants -> Application] /\ apps'[a].status = "approved"
        /\ \A g \in Grants \ {a} : apps'[g] = apps[g]
        BY <2>1, <2>7, <2>8 DEF ReviewInv
  <2> QED BY <1>2, <2>1, <2>3, <2>5, <2>9 DEF ReviewInv, Keeps, IssueFor
<1> QED BY <1>1, <1>2 DEF Reviewing

\* What happens to a grant, but for its consume, is nothing to the review.
LEMMA GrantingStep ==
  ASSUME IInv, ReviewInv, Granting
  PROVE  [Next]_vars /\ clock' = clock /\ GrantRows' = GrantRows /\ ReviewInv' /\ Keeps
<1>1. UNCHANGED <<service, tokenOf>>
      BY DEF Granting
<1>2. Next /\ clock' = clock
  <2>1. CASE Request
        BY <2>1 DEF Request, Next, Begin
  <2>2. CASE \E g \in Grants, status \in {"expired", "revoked"} : Withdraw(g, status)
    <3>1. PICK g \in Grants, status \in {"expired", "revoked"} : Withdraw(g, status)
          BY <2>2
    <3>2. clock' = clock
          BY <3>1 DEF Withdraw
    <3>3. Next
          BY <3>1, Zenon DEF Next
    <3> QED BY <3>2, <3>3
  <2>3. CASE \E p \in Procs : Fail(p) \/ ReleaseGrant(p) \/ \E answered \in BOOLEAN : ClaimGrant(p, answered)
        BY <2>3 DEF Next, Fail, ReleaseGrant, ClaimGrant
  <2> QED BY <2>1, <2>2, <2>3 DEF Granting
<1>3. ASSUME NEW g \in Grants
      PROVE  SameView(g)
  <2>1. CASE Request
        BY <2>1 DEF Request, Begin, SameView
  <2>2. ASSUME NEW h \in Grants, NEW status \in {"expired", "revoked"}, Withdraw(h, status)
        PROVE  SameView(g)
    <3>1. [grants[h] EXCEPT !.status = status] \in Grant(Claims)
          /\ [grants[h] EXCEPT !.status = status].expiresAt = grants[h].expiresAt
          /\ [grants[h] EXCEPT !.status = status].status = status
          BY <2>2 DEF Withdraw, IInv, TypeOK, Grant, GrantStatus
    <3>2. grants' = [grants EXCEPT ![h] = [grants[h] EXCEPT !.status = status]]
          /\ grants[h] # NoGrant /\ grants[h].status # "consumed"
          BY <2>2 DEF Withdraw
    <3> QED BY <3>1, <3>2, NullsAssumption DEF IInv, TypeOK, SameView
  <2>3. ASSUME NEW p \in Procs, Fail(p)
        PROVE  SameView(g)
        BY <2>3 DEF Fail, SameView
  <2>4. ASSUME NEW p \in Procs, ReleaseGrant(p)
        PROVE  SameView(g)
    <3> DEFINE k == calls[p]
               row == grants[k.grant]
    <3>1. row # NoGrant /\ k.grant \in Grants /\ row \in Grant(Claims)
          BY <2>4 DEF ReleaseGrant, Executes, IInv, TypeOK, Call
    <3>2. grants' = grants \/ (row.status = "claimed" /\ grants' = [grants EXCEPT ![k.grant] = ReleasedRow(row)])
          BY <2>4 DEF ReleaseGrant, ReleaseVerdict
    <3>3. /\ ReleasedRow(row) \in Grant(Claims) /\ ReleasedRow(row).expiresAt = row.expiresAt
          /\ ReleasedRow(row).status = "active"
          BY <3>1 DEF ReleasedRow, Grant, GrantStatus, NoTime
    <3> HIDE DEF k, row
    <3> QED BY <3>1, <3>2, <3>3, NullsAssumption DEF IInv, TypeOK, SameView, row
  <2>5. ASSUME NEW p \in Procs, NEW answered \in BOOLEAN, ClaimGrant(p, answered)
        PROVE  SameView(g)
    <3> DEFINE k == calls[p]
               row == grants[k.grant]
               after == ClaimedRow(row, k.claim, k.now, k.now + ClaimLifetime)
    <3>1. row # NoGrant /\ k.grant \in Grants /\ row \in Grant(Claims) /\ k \in Call
          BY <2>5 DEF ClaimGrant, Executes, IInv, TypeOK, Call
    <3>2. \/ grants' = [grants EXCEPT ![k.grant] = row]
          \/ row.status # "consumed" /\ grants' = [grants EXCEPT ![k.grant] = after]
          BY <2>5 DEF ClaimGrant, ClaimVerdict
    <3>3. after \in Grant(Claims) /\ after.expiresAt = row.expiresAt /\ after.status = "claimed"
      <4>1. k.claim \in Claims /\ k.now \in Nat /\ k.now + ClaimLifetime \in Nat
            BY <3>1, LifetimesAssumption DEF Call
      <4> HIDE DEF k, row
      <4> QED BY <3>1, <4>1 DEF ClaimedRow, Grant, GrantStatus
    <3> HIDE DEF k, after
    <3> QED BY <3>1, <3>2, <3>3, NullsAssumption DEF IInv, TypeOK, SameView
  <2> QED BY <2>1, <2>2, <2>3, <2>4, <2>5 DEF Granting
<1>4. GrantRows' = GrantRows
      BY <1>1, <1>3, ViewKept
<1>5. \A g \in Grants : grants'[g] # NoGrant <=> grants[g] # NoGrant
      BY <1>3 DEF SameView
<1>6. apps' = apps /\ handlers' = handlers /\ mailed' = mailed /\ tokenOf' = tokenOf
      BY <1>1 DEF service
<1>7. ReviewInv' /\ Keeps
      BY <1>5, <1>6 DEF ReviewInv, Keeps
<1> QED BY <1>2, <1>4, <1>7

LEMMA ConsumeStep ==
  ASSUME IInv, ReviewInv, NEW p \in Procs, NEW answered \in BOOLEAN, Consume(p, answered)
  PROVE  /\ Next /\ clock' = clock /\ ReviewInv' /\ Keeps
         /\ \/ UNCHANGED <<service, GrantRows>>
            \/ \E h \in Handlers, g \in Grants : A!ConsumeGrant(h, g)
<1> DEFINE k == calls[p]
           row == grants[k.grant]
           verdict == ConsumeVerdict(row, k.claim, k.now)
<1>1. ConsumeGrant(p, answered) /\ tokenOf' = tokenOf
      BY DEF Consume
<1>2. k.grant \in Grants /\ row # NoGrant /\ row \in Grant(Claims) /\ k \in Call
      BY <1>1 DEF ConsumeGrant, Executes, IInv, TypeOK, Call
<1>3. Next /\ clock' = clock
      BY <1>1 DEF Next, ConsumeGrant
<1>4. \A g \in Grants : grants'[g] # NoGrant <=> grants[g] # NoGrant
  <2>1. grants' = grants \/ grants' = [grants EXCEPT ![k.grant] = ConsumedRow(row, k.now)]
        BY <1>1 DEF ConsumeGrant
  <2>2. ConsumedRow(row, k.now) \in Grant(Claims)
        BY <1>2, ConsumedRowOK DEF Call
  <2> HIDE DEF k, row
  <2> QED BY <1>2, <2>1, <2>2, NullsAssumption DEF IInv, TypeOK, row
<1>5. CASE verdict = "ErrInvalidClaim"
  <2>1. UNCHANGED service
        BY <1>5 DEF Consume
  <2>2. grants' = grants
        BY <1>1, <1>5 DEF ConsumeGrant
  <2>3. GrantRows' = GrantRows
        BY <1>1, <2>2, ViewKept DEF SameView
  <2> QED BY <1>1, <1>3, <1>4, <2>1, <2>3 DEF service, ReviewInv, Keeps
<1>6. CASE verdict # "ErrInvalidClaim"
  <2>1. PICK h \in Handlers : A!ConsumeGrant(h, k.grant)
        BY <1>6 DEF Consume
  <2>2. apps' = apps /\ mailed' = mailed
        BY <2>1 DEF A!ConsumeGrant
  <2>3. handlers' \in [Handlers -> A!Request \cup {Idle}]
    <3>1. GrantRows[k.grant].token \in Tokens
          BY <1>2, GrantRowsTyped DEF IInv, ReviewInv
    <3>2. [step |-> "sweep", app |-> k.grant, token |-> GrantRows[k.grant].token,
           ref |-> GrantRows[k.grant].token, from |-> clock] \in A!Request
          BY <1>2, <3>1 DEF A!Request, A!Steps, IInv, TypeOK
    <3> QED BY <2>1, <3>2 DEF A!ConsumeGrant, ReviewInv
  <2> QED BY <1>1, <1>2, <1>3, <1>4, <2>1, <2>2, <2>3 DEF ReviewInv, Keeps
<1> QED BY <1>5, <1>6

\* The other two kinds of step, of which one is a farm's.
LEMMA PlainStep ==
  ASSUME IInv, ReviewInv,
         \/ Tick /\ UNCHANGED <<service, tokenOf>>
         \/ \E g \in Grants, c \in Claims : CommitFarm(g, c) /\ UNCHANGED <<service, tokenOf>>
  PROVE  [Next]_vars /\ GrantRows' = GrantRows /\ ReviewInv' /\ Keeps
<1>1. grants' = grants /\ UNCHANGED <<service, tokenOf>> /\ [Next]_vars
      BY DEF Tick, CommitFarm, vars, Next
<1>2. GrantRows' = GrantRows
      BY <1>1, ViewKept DEF SameView
<1> QED BY <1>1, <1>2 DEF service, ReviewInv, Keeps

\* Every step of the composition is one of the grants or none.
LEMMA GrantStep ==
  ASSUME IInv, ReviewInv, [ONext]_ovars
  PROVE  [Next]_vars /\ ReviewInv' /\ Keeps
<1>1. CASE UNCHANGED ovars
      BY <1>1 DEF ovars, pvars, vars, service, ReviewInv, Keeps
<1>2. CASE Tick /\ UNCHANGED <<service, tokenOf, farms>>
      BY <1>2, PlainStep
<1>3. CASE Reviewing
      BY <1>3, ReviewingStep DEF IInv, Next
<1>4. CASE Granting
      BY <1>4, GrantingStep
<1>5. ASSUME NEW p \in Procs, NEW answered \in BOOLEAN, Consume(p, answered)
      PROVE  [Next]_vars /\ ReviewInv' /\ Keeps
      BY <1>5, ConsumeStep
<1>6. CASE \E g \in Grants, c \in Claims : CommitFarm(g, c) /\ UNCHANGED <<service, tokenOf>>
      BY <1>6, PlainStep
<1> QED BY <1>1, <1>2, <1>3, <1>4, <1>5, <1>6 DEF ONext

\* Only a request of an applicant puts a call in flight.
LEMMA NewCalls ==
  ASSUME IInv, [ONext]_ovars, ~Request, NEW p \in Procs
  PROVE  calls'[p] = calls[p] \/ calls'[p] = NoCall
<1>1. calls \in [Procs -> Call \cup {NoCall}]
      BY DEF IInv, TypeOK
<1>2. ASSUME NEW q \in Procs, calls' = [calls EXCEPT ![q] = NoCall]
      PROVE  calls'[p] = calls[p] \/ calls'[p] = NoCall
      BY <1>1, <1>2
<1>3. CASE Granting
  <2>1. CASE \E g \in Grants, status \in {"expired", "revoked"} : Withdraw(g, status)
        BY <2>1 DEF Withdraw
  <2>2. ASSUME NEW q \in Procs, Fail(q) \/ ReleaseGrant(q) \/ \E answered \in BOOLEAN : ClaimGrant(q, answered)
        PROVE  calls' = [calls EXCEPT ![q] = NoCall]
        BY <2>2 DEF Fail, ReleaseGrant, ClaimGrant, Executes
  <2> QED BY <1>2, <1>3, <2>1, <2>2 DEF Granting
<1>4. ASSUME NEW q \in Procs, NEW answered \in BOOLEAN, Consume(q, answered)
      PROVE  calls' = [calls EXCEPT ![q] = NoCall]
      BY <1>4 DEF Consume, ConsumeGrant, Executes
<1>5. CASE Reviewing
      BY <1>5, ReviewingStep DEF vars, Issue, IInv, Reviewing, IssueFor
<1>6. CASE \/ UNCHANGED ovars \/ Tick
           \/ \E g \in Grants, c \in Claims : CommitFarm(g, c)
      BY <1>6 DEF ovars, pvars, vars, Tick, CommitFarm
<1> QED BY <1>2, <1>3, <1>4, <1>5, <1>6 DEF ONext

\* Every request in flight, every lease and every farm goes back to a token that
\* was mailed.
LEMMA ApplicantStep == OInv /\ [ONext]_ovars => ApplicantInv'
<1> SUFFICES ASSUME OInv, [ONext]_ovars PROVE ApplicantInv'
    OBVIOUS
<1>1. IInv /\ ReviewInv /\ ApplicantInv /\ TypeOK
      BY DEF OInv, IInv
<1>2. [Next]_vars /\ Keeps
      BY <1>1, GrantStep
<1>3. ASSUME NEW g \in Grants, Delivered(g)
      PROVE  Delivered(g)'
      BY <1>2, <1>3 DEF Delivered, Keeps
<1>4. ASSUME NEW p \in Procs, calls[p] # NoCall
      PROVE  calls[p].grant \in Grants /\ Delivered(calls[p].grant)
      BY <1>1, <1>4 DEF ApplicantInv, TypeOK, Call
<1>5. ASSUME NEW p \in Procs, calls'[p] # NoCall
      PROVE  calls'[p].grant \in Grants /\ Delivered(calls'[p].grant)
  <2>1. CASE calls'[p] = calls[p]
        BY <1>4, <1>5, <2>1
  <2>2. CASE Request
    <3>1. PICK g \in Grants, q \in Procs, op \in Ops, c \in Claims :
            <<g, tokenOf[g]>> \in mailed /\ Begin(q, op, g, c)
          BY <2>2 DEF Request
    <3>2. Delivered(g)
          BY <3>1 DEF Delivered, Begin
    <3>3. calls'[p] = calls[p] \/ calls'[p].grant = g
          BY <1>1, <3>1 DEF Begin, TypeOK
    <3> QED BY <2>1, <3>2, <3>3
  <2> QED BY <1>1, <1>5, <2>1, <2>2, NewCalls
<1>6. ASSUME NEW g \in Grants, NEW c \in Claims, leases'[g][c] # NoTime
      PROVE  Delivered(g)
  <2>1. CASE leases'[g][c] = leases[g][c]
        BY <1>1, <1>6, <2>1 DEF ApplicantInv, CountsOn
  <2>2. ASSUME NEW p \in Procs, ClaimGrant(p, TRUE), calls[p].grant = g
        PROVE  Delivered(g)
        BY <1>4, <2>2 DEF ClaimGrant, Executes
  <2>3. \/ leases'[g][c] = leases[g][c]
        \/ \E p \in Procs : ClaimGrant(p, TRUE) /\ calls[p].grant = g
        BY <1>1, <1>2, <1>6, LeaseOrigin
  <2> QED BY <2>1, <2>2, <2>3
<1>7. /\ farms' \in [Grants -> SUBSET Claims]
      /\ \A g \in Grants : farms'[g] # {} => Delivered(g)
  <2>1. CASE farms' = farms
        BY <1>1, <2>1 DEF ApplicantInv
  <2>2. ASSUME NEW g \in Grants, NEW c \in Claims, CommitFarm(g, c)
        PROVE  /\ farms' \in [Grants -> SUBSET Claims]
               /\ \A h \in Grants : farms'[h] # {} => Delivered(h)
    <3>1. CountsOn(c, g) /\ farms' = [farms EXCEPT ![g] = farms[g] \cup {c}]
          BY <2>2 DEF CommitFarm
    <3>2. Delivered(g)
          BY <1>1, <3>1 DEF ApplicantInv
    <3> QED BY <1>1, <3>1, <3>2 DEF ApplicantInv
  <2> QED BY <2>1, <2>2 DEF ONext, ovars, pvars
<1>8. \A g \in Grants : Delivered(g) => Delivered(g)'
      BY <1>3
<1>9. \A p \in Procs : calls'[p] # NoCall => (Delivered(calls[p].grant))'
  <2> SUFFICES ASSUME NEW p \in Procs, calls'[p] # NoCall
               PROVE  grants'[calls'[p].grant] # NoGrant
                      /\ <<calls'[p].grant, tokenOf'[calls'[p].grant]>> \in mailed'
      BY DEF Delivered
  <2> QED BY <1>5, <1>8 DEF Delivered
<1> QED BY <1>6, <1>7, <1>8, <1>9 DEF ApplicantInv, CountsOn

----
(* The inductive invariant and what follows.                              *)

LEMMA OInvInit == OInit => OInv
<1> SUFFICES ASSUME OInit PROVE OInv
    OBVIOUS
<1>1. Init /\ A!Init /\ IInv
      BY InvInit DEF OInit, PInit
<1>2. /\ grants = [g \in Grants |-> NoGrant] /\ calls = [p \in Procs |-> NoCall]
      /\ leases = [g \in Grants |-> [c \in Claims |-> NoTime]]
      /\ farms = [g \in Grants |-> {}] /\ tokenOf \in [Grants -> Tokens]
      BY DEF OInit, PInit, Init
<1>3. /\ apps = [g \in Grants |-> [status |-> "pending", review |-> "active",
                                   reviewExpiresAt |-> ReviewLifetime]]
      /\ handlers = [h \in Handlers |-> Idle]
      BY <1>1 DEF A!Init
<1>4. [status |-> "pending", review |-> "active", reviewExpiresAt |-> ReviewLifetime] \in Application
      BY OnboardingAssumption DEF Application, DecisionStatus, ReviewStatus
<1>5. ReviewInv
      BY <1>2, <1>3, <1>4 DEF ReviewInv
<1>6. ApplicantInv
      BY <1>2 DEF ApplicantInv, CountsOn
<1> QED BY <1>1, <1>5, <1>6 DEF OInv

LEMMA OInvStep == OInv /\ [ONext]_ovars => OInv'
<1> SUFFICES ASSUME OInv, [ONext]_ovars PROVE OInv'
    OBVIOUS
<1>1. IInv /\ ReviewInv
      BY DEF OInv
<1>2. [Next]_vars /\ ReviewInv'
      BY <1>1, GrantStep
<1>3. IInv'
      BY <1>1, <1>2, TypeStep, ReadingsStep, LeaseBackedStep, RowsStep, OneConsumerStep DEF IInv
<1> QED BY <1>2, <1>3, ApplicantStep DEF OInv

\* Of whatever handlers and operations run, requests that are in flight, leases
\* and farms belong to applicants who were approved and mailed their token.
THEOREM OInvariance == OSpec => []OInv
<1> QED BY OInvInit, OInvStep, PTL DEF OSpec

\* Whoever gets a farm was approved and never declined, and was mailed the token
\* of the application's one grant (approvals.Service.Approve and ClaimGrant).
THEOREM FarmsForApproved == OSpec => []FarmForApproved
<1>1. OInv => FarmForApproved
      BY DEF OInv, ReviewInv, ApplicantInv, Delivered, FarmForApproved
<1> QED BY <1>1, OInvariance, PTL

\* A farm is committed for a grant only while no other operation counts on it, and
\* never for a grant that another operation consumed.
THEOREM FarmsRespectOthers == OSpec => FarmRespectsOthers
<1>1. ASSUME OInv, [ONext]_ovars, NEW g \in Grants, NEW c \in farms'[g] \ farms[g]
      PROVE  /\ \A d \in Claims \ {c} : ~CountsOn(d, g)
             /\ grants[g].status = "consumed" => grants[g].claim = c
  <2>1. IInv /\ farms \in [Grants -> SUBSET Claims]
        BY <1>1 DEF OInv, ApplicantInv
  <2>2. farms' # farms
        BY <1>1
  <2>3. PICK h \in Grants, e \in Claims : CommitFarm(h, e)
        BY <1>1, <2>2 DEF ONext, ovars, pvars
  <2>4. farms' = [farms EXCEPT ![h] = farms[h] \cup {e}]
        BY <2>3 DEF CommitFarm
  <2>5. CountsOn(c, g) /\ c \in Claims
    <3>1. g = h /\ c = e
          BY <1>1, <2>1, <2>4
    <3> QED BY <2>3, <3>1 DEF CommitFarm
  <2>6. \A d \in Claims : CountsOn(d, g) => grants[g].claim = d
        BY <2>1 DEF IInv, LeaseBacked
  <2> QED BY <2>5, <2>6
<1>2. OInv /\ [ONext]_ovars => [\A g \in Grants : \A c \in farms'[g] \ farms[g] :
         /\ \A d \in Claims \ {c} : ~CountsOn(d, g)
         /\ grants[g].status = "consumed" => grants[g].claim = c]_pvars
      BY <1>1
<1> QED BY <1>2, OInvariance, PTL DEF OSpec, FarmRespectsOthers

\* The composition's grants are the grants of SignupGrants, so whatever is proved
\* of those holds of it: the row's CHECK, one lease, one consumer, final refusals.
THEOREM GrantsAreGrants == OSpec => Spec
<1>1. OInit => Init
      BY DEF OInit, PInit
<1>2. OInv /\ [ONext]_ovars => [Next]_vars
      BY GrantStep DEF OInv
<1> QED BY <1>1, <1>2, OInvariance, PTL DEF OSpec, Spec

\* To the reviews and the token store a provisioning operation is what Approvals
\* says it is: leases, retries, releases and lost answers do not show.
THEOREM Refinement == OSpec => ImplementsApprovals
<1>1. OInit => A!Init
      BY DEF OInit
<1>2. OInv /\ [ONext]_ovars => [A!Next]_(A!vars)
  <2> SUFFICES ASSUME OInv, [ONext]_ovars PROVE [A!Next]_(A!vars)
      OBVIOUS
  <2>1. IInv /\ ReviewInv
        BY DEF OInv
  <2>2. CASE UNCHANGED ovars
    <3>1. GrantRows' = GrantRows
          BY <2>2, ViewKept DEF ovars, pvars, vars, SameView
    <3> QED BY <2>2, <3>1 DEF ovars, pvars, vars, service, A!vars
  <2>3. CASE Tick /\ UNCHANGED <<service, tokenOf, farms>>
    <3>1. GrantRows' = GrantRows
          BY <2>1, <2>3, PlainStep
    <3> QED BY <2>3, <3>1 DEF Tick, service, A!Tick, A!Next
  <2>4. CASE Reviewing
        BY <2>4 DEF Reviewing, A!Next
  <2>5. CASE Granting
    <3>1. GrantRows' = GrantRows /\ clock' = clock
          BY <2>1, <2>5, GrantingStep
    <3>2. UNCHANGED service
          BY <2>5 DEF Granting
    <3> QED BY <3>1, <3>2 DEF service, A!vars
  <2>6. ASSUME NEW p \in Procs, NEW answered \in BOOLEAN, Consume(p, answered)
        PROVE  [A!Next]_(A!vars)
    <3>1. CASE UNCHANGED <<service, GrantRows>>
      <4>1. clock' = clock
            BY <2>1, <2>6, ConsumeStep
      <4> QED BY <3>1, <4>1 DEF service, A!vars
    <3>2. CASE \E h \in Handlers, g \in Grants : A!ConsumeGrant(h, g)
          BY <3>2 DEF A!Next
    <3> QED BY <2>1, <2>6, <3>1, <3>2, ConsumeStep
  <2>7. CASE \E g \in Grants, c \in Claims : CommitFarm(g, c) /\ UNCHANGED <<service, tokenOf>>
    <3>1. GrantRows' = GrantRows
          BY <2>1, <2>7, PlainStep
    <3>2. clock' = clock /\ UNCHANGED service
          BY <2>7 DEF CommitFarm, vars
    <3> QED BY <3>1, <3>2 DEF service, A!vars
  <2> QED BY <2>2, <2>3, <2>4, <2>5, <2>6, <2>7 DEF ONext
<1> QED BY <1>1, <1>2, OInvariance, PTL DEF OSpec, ImplementsApprovals, A!Spec
----
(* What is proved of the parts holds of the composition.  AP is Approvals *)
(* with its theorems, under the substitution of A.                        *)

AP == INSTANCE ApprovalsProofs WITH Apps <- Grants, grants <- GrantRows

\* What the theorems of Approvals assume of the constants.
LEMMA ApprovalsAssumed ==
  /\ ReviewLifetime \in Nat \ {0} /\ GrantLifetime \in Nat \ {0} /\ Skew \in Nat
  /\ AmbiguousCommit \in BOOLEAN /\ MaxClock \in Nat /\ MaxFaults \in Nat
  /\ NoGrant \notin AP!GrantRow /\ Idle \notin AP!Request
BY OnboardingAssumption, LifetimesAssumption
   DEF A!GrantRow, AP!GrantRow, A!Request, AP!Request, A!Steps, AP!Steps

\* A and AP are one module with one substitution: their definitions agree.
LEMMA VerdictsShared ==
  ASSUME NEW a, NEW now
  PROVE  /\ \A expiresAt : A!ApproveVerdict(a, expiresAt, now) = AP!ApproveVerdict(a, expiresAt, now)
         /\ A!DeclineVerdict(a, now) = AP!DeclineVerdict(a, now)
         /\ \A status : A!DecidedRow(a, status) = AP!DecidedRow(a, status)
BY DEF A!ApproveVerdict, AP!ApproveVerdict, A!DeclineVerdict, AP!DeclineVerdict, A!DecidedRow, AP!DecidedRow,
       A!ReviewLapsed, AP!ReviewLapsed, A!Decided, AP!Decided, A!Undecided, AP!Undecided

LEMMA HandlerStepShared ==
  ASSUME NEW h \in Handlers
  PROVE  /\ \A g \in Grants : A!Approve(h, g) => AP!Approve(h, g)
         /\ \A g \in Grants : A!ConsumeGrant(h, g) => AP!ConsumeGrant(h, g)
         /\ A!Decide(h) => AP!Decide(h)
         /\ A!DecideFails(h) => AP!DecideFails(h)
         /\ A!Undo(h) => AP!Undo(h)
         /\ A!Swap(h) => AP!Swap(h)
         /\ A!Read(h) => AP!Read(h)
         /\ A!Mail(h) => AP!Mail(h)
         /\ A!Sweep(h) => AP!Sweep(h)
         /\ A!Stop(h) => AP!Stop(h)
<1>1. \A g \in Grants : A!Approve(h, g) => AP!Approve(h, g)
      BY DEF A!Approve, AP!Approve, A!Fresh, AP!Fresh, A!Put, AP!Put
<1>2. \A g \in Grants : A!ConsumeGrant(h, g) => AP!ConsumeGrant(h, g)
      BY DEF A!ConsumeGrant, AP!ConsumeGrant, A!NoFault, AP!NoFault, A!Fault, AP!Fault, A!Abandon, AP!Abandon
<1> DEFINE r == handlers[h]
<1>3. /\ A!Readings(r.from) = AP!Readings(r.from)
      /\ \A issued : A!WriteApproval(r, issued) => AP!WriteApproval(r, issued)
      BY VerdictsShared DEF A!Readings, AP!Readings, A!WriteApproval, AP!WriteApproval
<1>4. (A!Decide(h) => AP!Decide(h)) /\ (A!DecideFails(h) => AP!DecideFails(h))
  <2>1. ASSUME A!Decide(h) PROVE AP!Decide(h)
    <3>1. PICK issued, now \in A!Readings(r.from) :
            LET verdict == A!ApproveVerdict(apps[r.app], issued + GrantLifetime, now) IN
            /\ issued <= now
            /\ \/ verdict = "approved" /\ A!WriteApproval(r, issued) /\ A!GoTo(h, "mail")
               \/ /\ verdict = "replayed"
                  /\ handlers' = [handlers EXCEPT ![h] =
                       [r EXCEPT !.step = "swap", !.ref = GrantRows[r.app].token]]
                  /\ UNCHANGED <<apps, GrantRows>>
               \/ /\ \/ verdict \notin {"approved", "replayed"}
                     \/ verdict = "approved" /\ issued + GrantLifetime <= clock
                  /\ A!GoTo(h, "undo")
                  /\ UNCHANGED <<apps, GrantRows>>
          BY <2>1 DEF A!Decide
    <3>2. A!ApproveVerdict(apps[r.app], issued + GrantLifetime, now)
            = AP!ApproveVerdict(apps[r.app], issued + GrantLifetime, now)
          BY VerdictsShared
    <3> QED BY <1>3, <2>1, <3>1, <3>2 DEF A!Decide, AP!Decide, A!At, AP!At, A!GoTo, AP!GoTo
  <2>2. ASSUME A!DecideFails(h) PROVE AP!DecideFails(h)
        BY <1>3, <2>2, VerdictsShared DEF A!DecideFails, AP!DecideFails, A!At, AP!At, A!GoTo, AP!GoTo, A!Fault, AP!Fault
  <2> QED BY <2>1, <2>2
<1>5. (A!Undo(h) => AP!Undo(h)) /\ (A!Swap(h) => AP!Swap(h)) /\ (A!Sweep(h) => AP!Sweep(h))
      BY DEF A!Undo, AP!Undo, A!Swap, AP!Swap, A!Sweep, AP!Sweep, A!At, AP!At, A!Delete, AP!Delete,
             A!NoFault, AP!NoFault, A!Fault, AP!Fault, A!Abandon, AP!Abandon, A!Return, AP!Return,
             A!GoTo, AP!GoTo
<1>6. (A!Read(h) => AP!Read(h)) /\ (A!Mail(h) => AP!Mail(h)) /\ (A!Stop(h) => AP!Stop(h))
      BY DEF A!Read, AP!Read, A!Mail, AP!Mail, A!Stop, AP!Stop, A!At, AP!At, A!Readable, AP!Readable,
             A!NoFault, AP!NoFault, A!Fault, AP!Fault, A!Abandon, AP!Abandon, A!Return, AP!Return,
             A!Intact, AP!Intact, A!sendApproval, AP!sendApproval, A!Send, AP!Send
<1> QED BY <1>1, <1>2, <1>3, <1>4, <1>5, <1>6

LEMMA SpecShared == A!Spec => AP!Spec
<1>1. A!Init => AP!Init
      BY DEF A!Init, AP!Init
<1>2. [A!Next]_(A!vars) => [AP!Next]_(AP!vars)
      BY HandlerStepShared, VerdictsShared DEF A!Next, AP!Next, A!vars, AP!vars, A!Tick, AP!Tick,
           A!Withdraw, AP!Withdraw, A!Decline, AP!Decline
<1> QED BY <1>1, <1>2, PTL DEF A!Spec, AP!Spec

\* A run of the composition is a run of the approvals that their theorems are about.
LEMMA ReviewRun == OSpec => AP!Spec
<1> QED BY Refinement, SpecShared, PTL DEF ImplementsApprovals

\* However operations claim, retry and consume grants, the reviews keep what
\* Approvals promises: decisions and grants agree (RowsAgree), no email has any
\* other token (MailedItsGrant), files are in use or were left by a fault
\* (NoStrayFiles), and pages foretell decisions (ReviewForetells).
THEOREM ReviewsHold ==
  OSpec => [](A!RowsAgree /\ A!MailedItsGrant /\ A!NoStrayFiles /\ A!ReviewForetells)
<1>1. AP!Spec => /\ []AP!RowsAgree /\ []AP!MailedItsGrant
                 /\ []AP!NoStrayFiles /\ []AP!ReviewForetells
      BY ApprovalsAssumed, AP!RowsOfDecisionAgree, AP!OnlyGrantsMailed, AP!StraysAccounted,
         AP!ReviewAgreesWithDecisions
<1>2. /\ AP!RowsAgree => A!RowsAgree
      /\ AP!MailedItsGrant => A!MailedItsGrant
      /\ AP!NoStrayFiles => A!NoStrayFiles
      BY DEF AP!RowsAgree, A!RowsAgree, AP!MailedItsGrant, A!MailedItsGrant,
             AP!NoStrayFiles, A!NoStrayFiles
<1>3. AP!ReviewForetells => A!ReviewForetells
      BY DEF AP!ReviewForetells, A!ReviewForetells, A!ResolveReviewVerdict, AP!ResolveReviewVerdict,
             A!DeclineVerdict, AP!DeclineVerdict, A!ApproveVerdict, AP!ApproveVerdict,
             A!ReviewLapsed, AP!ReviewLapsed, A!Decided, AP!Decided, A!Undecided, AP!Undecided
<1> QED BY <1>1, <1>2, <1>3, ReviewRun, PTL

\* While a grant is not consumed its token can be read again, whatever requests
\* with it are served, repeated or lost, unless an answer to a COMMIT can be lost.
THEOREM TokensKeptForGrants == ~AmbiguousCommit => (OSpec => []A!TokenKept)
<1> SUFFICES ASSUME ~AmbiguousCommit PROVE OSpec => []A!TokenKept
    OBVIOUS
<1>1. AP!Spec => []AP!TokenKept
      BY ApprovalsAssumed, AP!TokensKept
<1>2. AP!TokenKept => A!TokenKept
      BY DEF AP!TokenKept, A!TokenKept
<1> QED BY <1>1, <1>2, ReviewRun, PTL

\* No provisioning operation moves a decision, or the token and expiry of its grant
\* (DecisionStands), and the composition gives an application the life that
\* ApplicationLife allows: its link is spent only by one it was mailed to.
THEOREM ReviewLives == OSpec => AP!DecisionStands /\ AP!ImplementsApplicationLife
<1>1. AP!Spec => AP!DecisionStands /\ AP!ImplementsApplicationLife
      BY ApprovalsAssumed, AP!DecisionsFinal, AP!Refinement
<1> QED BY <1>1, ReviewRun, PTL

\* The reviews, the token store and the farms leave the grants what SignupGrants
\* promises of them: one lease at a time (LeasesDisjoint), one consumer
\* (OneConsumer), rows the CHECK accepts, final outcomes and refusals.
THEOREM GrantsHold ==
  OSpec => /\ [](LeasesDisjoint /\ OneConsumer /\ RowsSatisfyCheck)
           /\ LeaseHeld /\ TerminalFinal /\ RefusalFinal
<1> QED BY GrantsAreGrants, LeaseExclusion, SingleConsumer, CheckNeverRefuses, LeaseIsHeld,
           TerminalRowsFinal, RefusalsFinal, PTL

\* What a caller has to do for one farm per grant.  The lease alone does not prevent
\* two (finding on OneFarm); it does if an operation that committed its farm keeps
\* its lease, by claiming again in time, until its consume is committed.
Prompt ==
  \A g \in Grants : \A c \in farms[g] :
    \/ CountsOn(c, g)
    \/ grants[g].status = "consumed" /\ grants[g].claim = c

THEOREM PromptFarmsAreSole == OSpec => [](Prompt => OneFarm)
<1>1. OInv => (Prompt => OneFarm)
      BY DEF OInv, IInv, ApplicantInv, LeaseBacked, Prompt, OneFarm
<1> QED BY <1>1, OInvariance, PTL
====
