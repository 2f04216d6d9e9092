---- MODULE SignupGrantsProofs ----
(***************************************************************************)
(* Proofs about SignupGrants, for every number of grants, operations and   *)
(* requests and every lifetime and skew.                                   *)
(***************************************************************************)
EXTENDS SignupGrants, TLAPS

\* A clock reading of a request in flight is not ahead of every clock.
ReadingsBounded ==
  \A p \in Procs : calls[p] # NoCall => calls[p].now <= clock + Skew

\* An operation that counts on a lease has no release under way, and the row
\* names it: while the row is claimed, for at least as long as it counts on.
LeaseBacked ==
  \A g \in Grants, c \in Claims : CountsOn(c, g) =>
    /\ NoReleaseInFlight(g, c)
    /\ grants[g] # NoGrant
    /\ grants[g].claim = c
    /\ grants[g].status # "active"
    /\ clock + Skew < leases[g][c]
    /\ grants[g].status = "claimed" => leases[g][c] <= grants[g].claimExpiresAt

IInv == /\ TypeOK /\ ReadingsBounded /\ LeaseBacked /\ RowsSatisfyCheck /\ OneConsumer

----
(* The rows.                                                              *)

\* Every row a transaction writes is a row, and satisfies the table's CHECK.
LEMMA NewGrantRow ==
  ASSUME NEW t \in Nat
  PROVE  NewGrant(t) \in Grant(Claims) /\ GrantCheck(NewGrant(t))
BY DEF NewGrant, Grant, GrantStatus, GrantCheck, NoTime

LEMMA ClaimedRowOK ==
  ASSUME NEW g \in Grant(Claims), GrantCheck(g), NEW c \in Claims,
         NEW now \in Nat, NEW until \in Nat, ClaimVerdict(g, c, now) = "claimed"
  PROVE  /\ ClaimedRow(g, c, now, until) \in Grant(Claims)
         /\ GrantCheck(ClaimedRow(g, c, now, until))
<1> DEFINE row == ClaimedRow(g, c, now, until)
<1>1. /\ row \in Grant(Claims)
      /\ row.status = "claimed" /\ row.claim = c
      /\ row.claimedAt = now /\ row.claimExpiresAt = until
      /\ row.consumedAt = g.consumedAt
      BY DEF ClaimedRow, Grant, GrantStatus
<1>2. g.status \in {"active", "claimed"}
      BY DEF ClaimVerdict
<1>3. g.consumedAt = NoTime
      BY <1>2 DEF GrantCheck
<1>4. c # NoClaim /\ now # NoTime /\ until # NoTime
      BY NullsAssumption DEF NoTime
<1> HIDE DEF row
<1> QED BY <1>1, <1>3, <1>4 DEF GrantCheck, row

LEMMA ConsumedRowOK ==
  ASSUME NEW g \in Grant(Claims), NEW now \in Nat
  PROVE  ConsumedRow(g, now) \in Grant(Claims) /\ GrantCheck(ConsumedRow(g, now))
<1> DEFINE row == ConsumedRow(g, now)
<1>1. /\ row \in Grant(Claims)
      /\ row.status = "consumed" /\ row.consumedAt = now
      BY DEF ConsumedRow, Grant, GrantStatus, NoTime
<1>2. now # NoTime
      BY DEF NoTime
<1> QED BY <1>1, <1>2 DEF GrantCheck

LEMMA ReleasedRowOK ==
  ASSUME NEW g \in Grant(Claims), GrantCheck(g), g.status = "claimed"
  PROVE  ReleasedRow(g) \in Grant(Claims) /\ GrantCheck(ReleasedRow(g))
BY DEF ReleasedRow, Grant, GrantStatus, GrantCheck, NoTime

----
(* Type correctness.                                                      *)

\* Every reachable state is of the declared types.
LEMMA TypeInit == Init => TypeOK
BY LifetimesAssumption DEF Init, TypeOK, NoTime

LEMMA TypeStep == TypeOK /\ RowsSatisfyCheck /\ [Next]_vars => TypeOK'
<1> SUFFICES ASSUME TypeOK, RowsSatisfyCheck, [Next]_vars
             PROVE  TypeOK'
    OBVIOUS
<1> USE LifetimesAssumption, NullsAssumption DEF TypeOK
<1>1. CASE Tick
      BY <1>1 DEF Tick, Counted, NoTime
<1>2. ASSUME NEW g \in Grants, Issue(g)
      PROVE  TypeOK'
  <2>1. PICK now \in 0..(clock + Skew) : grants' = [grants EXCEPT ![g] = NewGrant(now + GrantLifetime)]
        BY <1>2 DEF Issue
  <2>2. now + GrantLifetime \in Nat
        OBVIOUS
  <2>3. NewGrant(now + GrantLifetime) \in Grant(Claims)
        BY <2>2, NewGrantRow
  <2> QED BY <1>2, <2>1, <2>3 DEF Issue
<1>3. ASSUME NEW g \in Grants, NEW status \in {"expired", "revoked"}, Withdraw(g, status)
      PROVE  TypeOK'
  <2>1. grants' = [grants EXCEPT ![g] = [grants[g] EXCEPT !.status = status]]
        BY <1>3 DEF Withdraw
  <2>2. [grants[g] EXCEPT !.status = status] \in Grant(Claims)
        BY <1>3 DEF Withdraw, Grant, GrantStatus
  <2> QED BY <1>3, <2>1, <2>2 DEF Withdraw
<1>4. ASSUME NEW p \in Procs, NEW op \in Ops, NEW g \in Grants, NEW c \in Claims, Begin(p, op, g, c)
      PROVE  TypeOK'
  <2>1. PICK now \in LocalNow :
          calls' = [calls EXCEPT ![p] = [op |-> op, grant |-> g, claim |-> c, now |-> now]]
        BY <1>4 DEF Begin
  <2>2. [op |-> op, grant |-> g, claim |-> c, now |-> now] \in Call
        BY DEF Call, LocalNow
  <2>3. calls' \in [Procs -> Call \cup {NoCall}]
        BY <2>1, <2>2
  <2>4. leases' \in [Grants -> [Claims -> Nat \cup {NoTime}]]
        BY <1>4 DEF Begin
  <2> QED BY <1>4, <2>3, <2>4 DEF Begin
<1>5. ASSUME NEW p \in Procs, Fail(p)
      PROVE  TypeOK'
      BY <1>5 DEF Fail
<1>6. ASSUME NEW p \in Procs, NEW answered \in BOOLEAN, ClaimGrant(p, answered)
      PROVE  TypeOK'
  <2> DEFINE k == calls[p]
             row == grants[k.grant]
             verdict == ClaimVerdict(row, k.claim, k.now)
             after == IF verdict = "claimed"
                      THEN ClaimedRow(row, k.claim, k.now, k.now + ClaimLifetime)
                      ELSE row
  <2>1. k \in Call /\ row \in Grant(Claims) /\ GrantCheck(row)
        BY <1>6 DEF ClaimGrant, Executes, RowsSatisfyCheck, Call
  <2>2. after \in Grant(Claims)
    <3>1. k.now + ClaimLifetime \in Nat /\ k.now \in Nat /\ k.claim \in Claims
          BY <2>1 DEF Call
    <3> QED BY <2>1, <3>1, ClaimedRowOK
  <2>3. grants' = [grants EXCEPT ![k.grant] = after]
        BY <1>6 DEF ClaimGrant
  <2>4. Counted(after.claimExpiresAt, clock) \in Nat \cup {NoTime}
        BY <2>2 DEF Counted, Grant
  <2>5. leases' \in [Grants -> [Claims -> Nat \cup {NoTime}]]
    <3>1. \/ leases' = leases
          \/ leases' = [leases EXCEPT ![k.grant][k.claim] = Counted(after.claimExpiresAt, clock)]
          BY <1>6 DEF ClaimGrant
    <3>2. ASSUME NEW t \in Nat \cup {NoTime}, NEW g, NEW c,
                 leases' = [leases EXCEPT ![g][c] = t]
          PROVE  leases' \in [Grants -> [Claims -> Nat \cup {NoTime}]]
          BY <3>2
    <3> HIDE DEF k, after
    <3> QED BY <3>1, <3>2, <2>4
  <2>6. calls' = [calls EXCEPT ![p] = NoCall] /\ clock' = clock /\ consumers' = consumers
        BY <1>6 DEF ClaimGrant, Executes
  <2> HIDE DEF k, after
  <2> QED BY <2>2, <2>3, <2>5, <2>6
<1>7. ASSUME NEW p \in Procs, NEW answered \in BOOLEAN, ConsumeGrant(p, answered)
      PROVE  TypeOK'
  <2> DEFINE k == calls[p]
             row == grants[k.grant]
  <2>1. k \in Call /\ row \in Grant(Claims)
        BY <1>7 DEF ConsumeGrant, Executes, Call
  <2>2. ConsumedRow(row, k.now) \in Grant(Claims)
        BY <2>1, ConsumedRowOK DEF Call
  <2>3. \/ grants' = grants
        \/ grants' = [grants EXCEPT ![k.grant] = ConsumedRow(row, k.now)]
        BY <1>7 DEF ConsumeGrant
  <2>4. \/ consumers' = consumers
        \/ consumers' = [consumers EXCEPT ![k.grant] = @ \cup {k.claim}]
        BY <1>7 DEF ConsumeGrant
  <2>5. consumers' \in [Grants -> SUBSET Claims]
        BY <2>1, <2>4 DEF Call
  <2>6. calls' = [calls EXCEPT ![p] = NoCall]
        BY <1>7 DEF ConsumeGrant, Executes
  <2> HIDE DEF k, row
  <2> QED BY <1>7, <2>2, <2>3, <2>5, <2>6 DEF ConsumeGrant
<1>8. ASSUME NEW p \in Procs, ReleaseGrant(p)
      PROVE  TypeOK'
  <2> DEFINE k == calls[p]
             row == grants[k.grant]
  <2>1. k \in Call /\ row \in Grant(Claims) /\ GrantCheck(row)
        BY <1>8 DEF ReleaseGrant, Executes, RowsSatisfyCheck, Call
  <2>2. \/ grants' = grants
        \/ /\ grants' = [grants EXCEPT ![k.grant] = ReleasedRow(row)]
           /\ row.status = "claimed"
        BY <1>8 DEF ReleaseGrant, ReleaseVerdict
  <2>3. row.status = "claimed" => ReleasedRow(row) \in Grant(Claims)
        BY <2>1, ReleasedRowOK
  <2>4. calls' = [calls EXCEPT ![p] = NoCall]
        BY <1>8 DEF ReleaseGrant, Executes
  <2> HIDE DEF k, row
  <2> QED BY <1>8, <2>2, <2>3, <2>4 DEF ReleaseGrant
<1>9. CASE UNCHANGED vars
      BY <1>9 DEF vars
<1> QED BY <1>1, <1>2, <1>3, <1>4, <1>5, <1>6, <1>7, <1>8, <1>9 DEF Next

----
(* The invariant.                                                         *)

LEMMA InvInit == Init => IInv
<1> SUFFICES ASSUME Init PROVE IInv
    OBVIOUS
<1>1. TypeOK
      BY TypeInit
<1>2. ReadingsBounded
      BY DEF Init, ReadingsBounded
<1>3. LeaseBacked
      BY DEF Init, LeaseBacked, CountsOn
<1>4. RowsSatisfyCheck /\ OneConsumer
      BY DEF Init, RowsSatisfyCheck, OneConsumer
<1> QED BY <1>1, <1>2, <1>3, <1>4 DEF IInv

\* What a step does to the clock and to the requests in flight.
LEMMA ClockStep == TypeOK /\ [Next]_vars => clock' \in Nat /\ clock <= clock'
<1> SUFFICES ASSUME TypeOK, [Next]_vars PROVE clock' \in Nat /\ clock <= clock'
    OBVIOUS
<1>1. CASE Tick
      BY <1>1 DEF Tick, TypeOK
<1>2. CASE clock' = clock
      BY <1>2 DEF TypeOK
<1>3. Tick \/ clock' = clock
      BY DEF Next, vars, Issue, Withdraw, Begin, Fail, ClaimGrant, ConsumeGrant, ReleaseGrant
<1> QED BY <1>1, <1>2, <1>3

LEMMA CallsStep ==
  ASSUME TypeOK, [Next]_vars, NEW p \in Procs
  PROVE  \/ calls'[p] = calls[p]
         \/ calls'[p] = NoCall
         \/ \E op \in Ops, g \in Grants, c \in Claims : Begin(p, op, g, c)
<1> USE DEF TypeOK
<1>1. CASE UNCHANGED calls
      BY <1>1
<1>2. ASSUME NEW q \in Procs, calls' = [calls EXCEPT ![q] = NoCall]
      PROVE  calls'[p] = calls[p] \/ calls'[p] = NoCall
      BY <1>2
<1>3. ASSUME NEW q \in Procs, NEW op \in Ops, NEW g \in Grants, NEW c \in Claims,
             Begin(q, op, g, c), q # p
      PROVE  calls'[p] = calls[p]
      BY <1>3 DEF Begin
<1>4. \/ UNCHANGED calls
      \/ \E q \in Procs : calls' = [calls EXCEPT ![q] = NoCall]
      \/ \E q \in Procs, op \in Ops, g \in Grants, c \in Claims : Begin(q, op, g, c)
  <2>1. ASSUME NEW q \in Procs,
               \/ Fail(q)
               \/ \E answered \in BOOLEAN : ClaimGrant(q, answered) \/ ConsumeGrant(q, answered)
               \/ ReleaseGrant(q)
        PROVE  calls' = [calls EXCEPT ![q] = NoCall]
    <3>1. CASE Fail(q)
          BY <3>1 DEF Fail
    <3>2. ASSUME NEW answered \in BOOLEAN, ClaimGrant(q, answered)
          PROVE  calls' = [calls EXCEPT ![q] = NoCall]
          BY <3>2 DEF ClaimGrant, Executes
    <3>3. ASSUME NEW answered \in BOOLEAN, ConsumeGrant(q, answered)
          PROVE  calls' = [calls EXCEPT ![q] = NoCall]
          BY <3>3 DEF ConsumeGrant, Executes
    <3>4. CASE ReleaseGrant(q)
          BY <3>4 DEF ReleaseGrant, Executes
    <3> QED BY <2>1, <3>1, <3>2, <3>3, <3>4
  <2>2. Tick => UNCHANGED calls
        BY DEF Tick
  <2>3. ASSUME NEW g \in Grants,
               Issue(g) \/ \E status \in {"expired", "revoked"} : Withdraw(g, status)
        PROVE  UNCHANGED calls
        BY <2>3 DEF Issue, Withdraw
  <2> QED BY <2>1, <2>2, <2>3 DEF Next, vars
<1> QED BY <1>1, <1>2, <1>3, <1>4

\* The clock never runs backwards, and a request reads a clock once.
LEMMA ReadingsStep == TypeOK /\ ReadingsBounded /\ [Next]_vars => ReadingsBounded'
<1> SUFFICES ASSUME TypeOK, ReadingsBounded, [Next]_vars,
                    NEW p \in Procs, calls'[p] # NoCall
             PROVE  calls'[p].now <= clock' + Skew
    BY DEF ReadingsBounded
<1> USE LifetimesAssumption
<1>1. clock \in Nat /\ clock' \in Nat /\ clock <= clock'
      BY ClockStep DEF TypeOK
<1>2. CASE calls'[p] = calls[p]
  <2>1. calls[p] # NoCall /\ calls[p].now <= clock + Skew /\ calls[p].now \in Nat
        BY <1>2 DEF ReadingsBounded, TypeOK, Call
  <2> QED BY <1>1, <1>2, <2>1
<1>3. ASSUME NEW op \in Ops, NEW g \in Grants, NEW c \in Claims, Begin(p, op, g, c)
      PROVE  calls'[p].now <= clock' + Skew
  <2>1. PICK now \in LocalNow :
          calls' = [calls EXCEPT ![p] = [op |-> op, grant |-> g, claim |-> c, now |-> now]]
        BY <1>3 DEF Begin
  <2>2. calls'[p].now = now
        BY <2>1 DEF TypeOK
  <2>3. now <= clock + Skew /\ clock' = clock
        BY <1>3 DEF LocalNow, Begin
  <2> QED BY <2>2, <2>3
<1> QED BY <1>2, <1>3, CallsStep

----
(* What a step does to one row.                                           *)

InFlight(p, op, g) == calls[p] \in Call /\ calls[p].op = op /\ calls[p].grant = g

RowStep(g) ==
  \/ grants'[g] = grants[g]
  \/ grants[g] = NoGrant /\ \E t \in Nat : grants'[g] = NewGrant(t)
  \/ /\ grants[g] \in Grant(Claims)
     /\ \/ /\ grants[g].status \in {"active", "claimed"}
           /\ \E status \in {"expired", "revoked"} :
                grants'[g] = [grants[g] EXCEPT !.status = status]
        \/ \E p \in Procs :
             /\ InFlight(p, "claim", g)
             /\ ClaimVerdict(grants[g], calls[p].claim, calls[p].now) = "claimed"
             /\ grants'[g] = ClaimedRow(grants[g], calls[p].claim, calls[p].now,
                                        calls[p].now + ClaimLifetime)
        \/ \E p \in Procs :
             /\ InFlight(p, "consume", g)
             /\ ConsumeVerdict(grants[g], calls[p].claim, calls[p].now) = "consumed"
             /\ grants'[g] = ConsumedRow(grants[g], calls[p].now)
        \/ \E p \in Procs :
             /\ InFlight(p, "release", g)
             /\ ReleaseVerdict(grants[g], calls[p].claim, calls[p].now) = "released"
             /\ grants'[g] = ReleasedRow(grants[g])

LEMMA EveryRowStep ==
  ASSUME TypeOK, [Next]_vars, NEW g \in Grants
  PROVE  RowStep(g)
<1> USE DEF TypeOK
<1>1. CASE UNCHANGED grants
      BY <1>1 DEF RowStep
<1>2. ASSUME NEW h \in Grants, Issue(h)
      PROVE  RowStep(g)
  <2>1. PICK now \in 0..(clock + Skew) : grants' = [grants EXCEPT ![h] = NewGrant(now + GrantLifetime)]
        BY <1>2 DEF Issue
  <2>2. now + GrantLifetime \in Nat
        BY LifetimesAssumption
  <2>3. grants'[g] = IF g = h THEN NewGrant(now + GrantLifetime) ELSE grants[g]
        BY <2>1
  <2> QED BY <1>2, <2>2, <2>3 DEF Issue, RowStep
<1>3. ASSUME NEW h \in Grants, NEW status \in {"expired", "revoked"}, Withdraw(h, status)
      PROVE  RowStep(g)
  <2>1. grants'[g] = IF g = h THEN [grants[h] EXCEPT !.status = status] ELSE grants[g]
        BY <1>3 DEF Withdraw
  <2> QED BY <1>3, <2>1 DEF Withdraw, RowStep
<1>4. ASSUME NEW p \in Procs, NEW answered \in BOOLEAN, ClaimGrant(p, answered)
      PROVE  RowStep(g)
  <2> DEFINE k == calls[p]
             after == ClaimedRow(grants[k.grant], k.claim, k.now, k.now + ClaimLifetime)
  <2>1. k \in Call /\ k.op = "claim" /\ k.grant \in Grants /\ grants[k.grant] \in Grant(Claims)
        BY <1>4 DEF ClaimGrant, Executes, Call
  <2>2. \/ grants' = [grants EXCEPT ![k.grant] = grants[k.grant]]
        \/ /\ ClaimVerdict(grants[k.grant], k.claim, k.now) = "claimed"
           /\ grants' = [grants EXCEPT ![k.grant] = after]
        BY <1>4 DEF ClaimGrant
  <2>3. \/ grants'[g] = grants[g]
        \/ /\ k.grant = g
           /\ ClaimVerdict(grants[k.grant], k.claim, k.now) = "claimed"
           /\ grants'[g] = after
    <3> HIDE DEF k, after
    <3> QED BY <2>1, <2>2
  <2> QED BY <2>1, <2>3 DEF RowStep, InFlight
<1>5. ASSUME NEW p \in Procs, NEW answered \in BOOLEAN, ConsumeGrant(p, answered)
      PROVE  RowStep(g)
  <2> DEFINE k == calls[p]
             after == ConsumedRow(grants[k.grant], k.now)
  <2>1. k \in Call /\ k.op = "consume" /\ k.grant \in Grants /\ grants[k.grant] \in Grant(Claims)
        BY <1>5 DEF ConsumeGrant, Executes, Call
  <2>2. \/ grants' = grants
        \/ /\ ConsumeVerdict(grants[k.grant], k.claim, k.now) = "consumed"
           /\ grants' = [grants EXCEPT ![k.grant] = after]
        BY <1>5 DEF ConsumeGrant
  <2>3. \/ grants'[g] = grants[g]
        \/ /\ k.grant = g
           /\ ConsumeVerdict(grants[k.grant], k.claim, k.now) = "consumed"
           /\ grants'[g] = after
    <3> HIDE DEF k, after
    <3> QED BY <2>1, <2>2
  <2> QED BY <2>1, <2>3 DEF RowStep, InFlight
<1>6. ASSUME NEW p \in Procs, ReleaseGrant(p)
      PROVE  RowStep(g)
  <2> DEFINE k == calls[p]
             after == ReleasedRow(grants[k.grant])
  <2>1. k \in Call /\ k.op = "release" /\ k.grant \in Grants /\ grants[k.grant] \in Grant(Claims)
        BY <1>6 DEF ReleaseGrant, Executes, Call
  <2>2. \/ grants' = grants
        \/ /\ ReleaseVerdict(grants[k.grant], k.claim, k.now) = "released"
           /\ grants' = [grants EXCEPT ![k.grant] = after]
        BY <1>6 DEF ReleaseGrant
  <2>3. \/ grants'[g] = grants[g]
        \/ /\ k.grant = g
           /\ ReleaseVerdict(grants[k.grant], k.claim, k.now) = "released"
           /\ grants'[g] = after
    <3> HIDE DEF k, after
    <3> QED BY <2>1, <2>2
  <2> QED BY <2>1, <2>3 DEF RowStep, InFlight
<1>7. \/ UNCHANGED grants
      \/ \E h \in Grants : Issue(h) \/ \E status \in {"expired", "revoked"} : Withdraw(h, status)
      \/ \E p \in Procs : \/ \E answered \in BOOLEAN : ClaimGrant(p, answered) \/ ConsumeGrant(p, answered)
                          \/ ReleaseGrant(p)
      BY DEF Next, vars, Tick, Begin, Fail
<1> QED BY <1>1, <1>2, <1>3, <1>4, <1>5, <1>6, <1>7

\* No step moves a row out of a terminal status.
LEMMA TerminalRow ==
  ASSUME NEW g \in Grants, RowStep(g), grants[g] # NoGrant,
         grants[g].status \in {"consumed", "expired", "revoked"}
  PROVE  grants'[g] = grants[g]
<1>1. ~(grants[g].status \in {"active", "claimed"})
      OBVIOUS
<1>2. ASSUME NEW c, NEW now
      PROVE  /\ ClaimVerdict(grants[g], c, now) # "claimed"
             /\ ConsumeVerdict(grants[g], c, now) # "consumed"
             /\ ReleaseVerdict(grants[g], c, now) # "released"
      BY DEF ClaimVerdict, ConsumeVerdict, ReleaseVerdict, LeaseLive
<1> QED BY <1>1, <1>2 DEF RowStep

\* A row whose lease is live on every clock is written by its own operation's
\* consume or release, or by the operator.
LEMMA HeldRow ==
  ASSUME TypeOK, ReadingsBounded, NEW g \in Grants, RowStep(g), Held(g)
  PROVE  \/ grants'[g] = grants[g]
         \/ \E status \in {"expired", "revoked"} :
              grants'[g] = [grants[g] EXCEPT !.status = status]
         \/ \E p \in Procs : /\ InFlight(p, "consume", g)
                             /\ calls[p].claim = grants[g].claim
                             /\ grants'[g] = ConsumedRow(grants[g], calls[p].now)
         \/ \E p \in Procs : /\ InFlight(p, "release", g)
                             /\ calls[p].claim = grants[g].claim
                             /\ grants'[g] = ReleasedRow(grants[g])
<1>1. /\ grants[g] # NoGrant /\ grants[g].status = "claimed"
      /\ clock + Skew < grants[g].claimExpiresAt
      /\ grants[g].claimExpiresAt \in Int
      BY DEF Held, LeaseLive, TypeOK, Grant, NoTime
<1>2. ASSUME NEW p \in Procs, InFlight(p, "claim", g)
      PROVE  ClaimVerdict(grants[g], calls[p].claim, calls[p].now) # "claimed"
  <2>1. calls[p].now <= clock + Skew /\ calls[p].now \in Nat
        BY <1>2, NullsAssumption DEF InFlight, ReadingsBounded, Call
  <2>2. calls[p].now < grants[g].claimExpiresAt
        BY <1>1, <2>1, LifetimesAssumption DEF TypeOK
  <2> QED BY <1>1, <2>2 DEF ClaimVerdict, LeaseLive
<1>3. ASSUME NEW p \in Procs,
             ConsumeVerdict(grants[g], calls[p].claim, calls[p].now) = "consumed"
      PROVE  calls[p].claim = grants[g].claim
      BY <1>3 DEF ConsumeVerdict
<1>4. ASSUME NEW p \in Procs,
             ReleaseVerdict(grants[g], calls[p].claim, calls[p].now) = "released"
      PROVE  calls[p].claim = grants[g].claim
      BY <1>4 DEF ReleaseVerdict
<1> QED BY <1>1, <1>2, <1>3, <1>4 DEF RowStep

----
(* Preservation of the invariant.                                         *)

LEMMA RowsStep == TypeOK /\ RowsSatisfyCheck /\ [Next]_vars => RowsSatisfyCheck'
<1> SUFFICES ASSUME TypeOK, RowsSatisfyCheck, [Next]_vars,
                    NEW g \in Grants, grants'[g] # NoGrant
             PROVE  GrantCheck(grants'[g])
    BY DEF RowsSatisfyCheck
<1> DEFINE row == grants[g]
<1>1. row # NoGrant => GrantCheck(row)
      BY DEF RowsSatisfyCheck
<1>2. CASE grants'[g] = row
      BY <1>1, <1>2
<1>3. ASSUME NEW t \in Nat, grants'[g] = NewGrant(t)
      PROVE  GrantCheck(grants'[g])
      BY <1>3, NewGrantRow
<1>4. ASSUME row \in Grant(Claims), row.status \in {"active", "claimed"},
             NEW status \in {"expired", "revoked"}, grants'[g] = [row EXCEPT !.status = status]
      PROVE  GrantCheck(grants'[g])
  <2>1. row.consumedAt = NoTime
    <3>1. GrantCheck(row)
          BY <1>1, <1>4, NullsAssumption
    <3> QED BY <1>4, <3>1 DEF GrantCheck
  <2>2. grants'[g].status \in {"expired", "revoked"} /\ grants'[g].consumedAt = row.consumedAt
        BY <1>4 DEF Grant
  <2> QED BY <2>1, <2>2 DEF GrantCheck
<1>5. ASSUME row \in Grant(Claims), NEW p \in Procs, calls[p] \in Call,
             ClaimVerdict(row, calls[p].claim, calls[p].now) = "claimed",
             grants'[g] = ClaimedRow(row, calls[p].claim, calls[p].now, calls[p].now + ClaimLifetime)
      PROVE  GrantCheck(grants'[g])
  <2>1. GrantCheck(row)
        BY <1>1, <1>5, NullsAssumption
  <2>2. calls[p].claim \in Claims /\ calls[p].now \in Nat /\ calls[p].now + ClaimLifetime \in Nat
        BY <1>5, LifetimesAssumption DEF Call
  <2> QED BY <1>5, <2>1, <2>2, ClaimedRowOK
<1>6. ASSUME row \in Grant(Claims), NEW p \in Procs, calls[p] \in Call,
             grants'[g] = ConsumedRow(row, calls[p].now)
      PROVE  GrantCheck(grants'[g])
      BY <1>6, ConsumedRowOK DEF Call
<1>7. ASSUME row \in Grant(Claims), NEW p \in Procs,
             ReleaseVerdict(row, calls[p].claim, calls[p].now) = "released",
             grants'[g] = ReleasedRow(row)
      PROVE  GrantCheck(grants'[g])
  <2>1. GrantCheck(row) /\ row.status = "claimed"
        BY <1>1, <1>7, NullsAssumption DEF ReleaseVerdict
  <2> QED BY <1>7, <2>1, ReleasedRowOK
<1> HIDE DEF row
<1>8. RowStep(g)
      BY EveryRowStep
<1> QED BY <1>2, <1>3, <1>4, <1>5, <1>6, <1>7, <1>8 DEF RowStep, InFlight, row

\* A lease an operation counted on before the step, it counted on to the same
\* end after it.
LEMMA OldLease ==
  ASSUME IInv, [Next]_vars, NEW g \in Grants, NEW c \in Claims,
         CountsOn(c, g), leases'[g][c] = leases[g][c], clock' + Skew < leases'[g][c],
         NoReleaseInFlight(g, c)'
  PROVE  /\ grants'[g] # NoGrant
         /\ grants'[g].claim = c
         /\ grants'[g].status # "active"
         /\ grants'[g].status = "claimed" => leases'[g][c] <= grants'[g].claimExpiresAt
<1> USE DEF IInv
<1>1. /\ NoReleaseInFlight(g, c)
      /\ grants[g] # NoGrant /\ grants[g] \in Grant(Claims)
      /\ grants[g].claim = c
      /\ grants[g].status # "active"
      /\ clock + Skew < leases[g][c]
      /\ grants[g].status = "claimed" => leases[g][c] <= grants[g].claimExpiresAt
      BY DEF LeaseBacked, TypeOK
<1>2. RowStep(g)
      BY EveryRowStep
<1>3. CASE grants[g].status = "claimed"
  <2>1. Held(g)
    <3>1. clock + Skew \in Int /\ leases[g][c] \in Int /\ grants[g].claimExpiresAt \in Int
          BY <1>1, LifetimesAssumption DEF TypeOK, Grant, NoTime
    <3> QED BY <1>1, <1>3, <3>1 DEF Held, LeaseLive
  <2>2. CASE grants'[g] = grants[g]
        BY <1>1, <2>2
  <2>3. ASSUME NEW status \in {"expired", "revoked"},
               grants'[g] = [grants[g] EXCEPT !.status = status]
        PROVE  grants'[g] \in Grant(Claims) /\ grants'[g].claim = c /\ grants'[g].status = status
        BY <1>1, <2>3 DEF Grant, GrantStatus
  <2>4. ASSUME NEW p \in Procs, grants'[g] = ConsumedRow(grants[g], calls[p].now), calls[p] \in Call
        PROVE  /\ grants'[g] \in Grant(Claims) /\ grants'[g].claim = c
               /\ grants'[g].status = "consumed"
        BY <1>1, <2>4 DEF ConsumedRow, Grant, GrantStatus, Call, NoTime
  <2>5. ASSUME NEW p \in Procs, InFlight(p, "release", g), calls[p].claim = grants[g].claim
        PROVE  FALSE
        BY <1>1, <2>5, NullsAssumption DEF NoReleaseInFlight, InFlight
  <2>6. \/ grants'[g] = grants[g]
        \/ \E status \in {"expired", "revoked"} : grants'[g] = [grants[g] EXCEPT !.status = status]
        \/ \E p \in Procs : calls[p] \in Call /\ grants'[g] = ConsumedRow(grants[g], calls[p].now)
        BY <1>2, <2>1, <2>5, HeldRow DEF InFlight
  <2> QED BY <1>1, <2>2, <2>3, <2>4, <2>6, NullsAssumption
<1>4. CASE grants[g].status # "claimed"
  <2>1. grants[g].status \in {"consumed", "expired", "revoked"}
        BY <1>1, <1>4 DEF Grant, GrantStatus
  <2>2. grants'[g] = grants[g]
        BY <1>1, <1>2, <2>1, TerminalRow
  <2> QED BY <1>1, <1>4, <2>2
<1> QED BY <1>3, <1>4

\* An operation that still counts on its lease after a step did not begin a
\* release in it.
LEMMA NoNewRelease ==
  ASSUME TypeOK, [Next]_vars, NEW g \in Grants, NEW c \in Claims,
         NoReleaseInFlight(g, c), leases'[g][c] # NoTime
  PROVE  NoReleaseInFlight(g, c)'
<1> SUFFICES ASSUME NEW p \in Procs, calls'[p] # NoCall,
                    calls'[p].op = "release", calls'[p].grant = g, calls'[p].claim = c
             PROVE  FALSE
    BY DEF NoReleaseInFlight
<1>1. CASE calls'[p] = calls[p]
      BY <1>1 DEF NoReleaseInFlight
<1>2. ASSUME NEW op \in Ops, NEW h \in Grants, NEW d \in Claims, Begin(p, op, h, d)
      PROVE  FALSE
  <2>1. PICK now \in LocalNow :
          calls' = [calls EXCEPT ![p] = [op |-> op, grant |-> h, claim |-> d, now |-> now]]
        BY <1>2 DEF Begin
  <2>2. calls'[p] = [op |-> op, grant |-> h, claim |-> d, now |-> now]
        BY <2>1 DEF TypeOK
  <2>3. op = "release" /\ h = g /\ d = c
        BY <2>2
  <2>4. leases' = [leases EXCEPT ![g][c] = NoTime]
        BY <1>2, <2>3 DEF Begin
  <2> QED BY <2>4 DEF TypeOK
<1> QED BY <1>1, <1>2, CallsStep

\* Where a lease that is counted on after a step comes from.
LEMMA LeaseOrigin ==
  ASSUME IInv, [Next]_vars, NEW g \in Grants, NEW c \in Claims, leases'[g][c] # NoTime
  PROVE  \/ leases'[g][c] = leases[g][c] /\ clock' + Skew < leases'[g][c]
         \/ \E p \in Procs :
              /\ ClaimGrant(p, TRUE)
              /\ calls[p].grant = g /\ calls[p].claim = c
              /\ NoReleaseInFlight(g, c)
              /\ ClaimVerdict(grants[g], c, calls[p].now) \in {"claimed", "kept"}
              /\ leases'[g][c] = Counted(grants'[g].claimExpiresAt, clock)
<1> USE DEF IInv
<1>1. CASE Tick
  <2>1. clock' = clock + 1 /\ leases'[g][c] = Counted(leases[g][c], clock + 1)
        BY <1>1 DEF Tick
  <2> QED BY <2>1 DEF Counted
<1>2. CASE UNCHANGED <<clock, leases>>
      BY <1>2 DEF LeaseBacked, CountsOn
<1>3. ASSUME NEW p \in Procs, NEW op \in Ops, NEW h \in Grants, NEW d \in Claims, Begin(p, op, h, d)
      PROVE  leases'[g][c] = leases[g][c] /\ clock' + Skew < leases'[g][c]
  <2>1. clock' = clock /\ (leases' = leases \/ leases' = [leases EXCEPT ![h][d] = NoTime])
        BY <1>3 DEF Begin
  <2>2. leases'[g][c] = leases[g][c]
        BY <2>1 DEF TypeOK
  <2> QED BY <2>1, <2>2 DEF LeaseBacked, CountsOn
<1>4. ASSUME NEW p \in Procs, NEW answered \in BOOLEAN, ClaimGrant(p, answered),
             ~UNCHANGED leases
      PROVE  \/ leases'[g][c] = leases[g][c] /\ clock' + Skew < leases'[g][c]
             \/ /\ ClaimGrant(p, TRUE)
                /\ calls[p].grant = g /\ calls[p].claim = c
                /\ NoReleaseInFlight(g, c)
                /\ ClaimVerdict(grants[g], c, calls[p].now) \in {"claimed", "kept"}
                /\ leases'[g][c] = Counted(grants'[g].claimExpiresAt, clock)
  <2> DEFINE k == calls[p]
             verdict == ClaimVerdict(grants[k.grant], k.claim, k.now)
             after == IF verdict = "claimed"
                      THEN ClaimedRow(grants[k.grant], k.claim, k.now, k.now + ClaimLifetime)
                      ELSE grants[k.grant]
  <2>1. /\ answered /\ verdict \in {"claimed", "kept"} /\ NoReleaseInFlight(k.grant, k.claim)
        /\ leases' = [leases EXCEPT ![k.grant][k.claim] = Counted(after.claimExpiresAt, clock)]
        /\ grants' = [grants EXCEPT ![k.grant] = after]
        /\ clock' = clock
        BY <1>4 DEF ClaimGrant
  <2>2. k.grant \in Grants /\ k.claim \in Claims
        BY <1>4 DEF ClaimGrant, Executes, TypeOK, Call
  <2>3. CASE k.grant = g /\ k.claim = c
    <3> DEFINE t == Counted(after.claimExpiresAt, clock)
    <3>1. grants'[g] = after
          BY <2>1, <2>2, <2>3 DEF TypeOK
    <3>2. leases' = [leases EXCEPT ![g][c] = t]
          BY <2>1, <2>3
    <3>3. leases'[g][c] = t
      <4> HIDE DEF t
      <4> QED BY <3>2 DEF TypeOK
    <3>4. leases'[g][c] = Counted(grants'[g].claimExpiresAt, clock)
          BY <3>1, <3>3
    <3>5. answered = TRUE
          BY <2>1
    <3> QED BY <1>4, <2>1, <2>3, <3>4, <3>5
  <2>4. CASE ~(k.grant = g /\ k.claim = c)
    <3>1. ASSUME NEW h, NEW d, NEW t, leases' = [leases EXCEPT ![h][d] = t], ~(h = g /\ d = c)
          PROVE  leases'[g][c] = leases[g][c]
          BY <3>1 DEF TypeOK
    <3>2. leases'[g][c] = leases[g][c]
      <4> HIDE DEF k, after
      <4> QED BY <2>1, <2>4, <3>1
    <3> QED BY <2>1, <3>2 DEF LeaseBacked, CountsOn
  <2> QED BY <2>3, <2>4
<1>5. \/ Tick \/ UNCHANGED <<clock, leases>>
      \/ \E p \in Procs, op \in Ops, h \in Grants, d \in Claims : Begin(p, op, h, d)
      \/ \E p \in Procs, answered \in BOOLEAN : ClaimGrant(p, answered) /\ ~UNCHANGED leases
      BY DEF Next, vars, Issue, Withdraw, Fail, ConsumeGrant, ReleaseGrant, ClaimGrant
<1> QED BY <1>1, <1>2, <1>3, <1>4, <1>5

LEMMA LeaseBackedStep == IInv /\ [Next]_vars => LeaseBacked'
<1> SUFFICES ASSUME IInv, [Next]_vars, NEW g \in Grants, NEW c \in Claims, leases'[g][c] # NoTime
             PROVE  /\ NoReleaseInFlight(g, c)'
                    /\ grants'[g] # NoGrant
                    /\ grants'[g].claim = c
                    /\ grants'[g].status # "active"
                    /\ clock' + Skew < leases'[g][c]
                    /\ grants'[g].status = "claimed" => leases'[g][c] <= grants'[g].claimExpiresAt
    BY DEF LeaseBacked, CountsOn
<1>1. CASE leases'[g][c] = leases[g][c] /\ clock' + Skew < leases'[g][c]
  <2>1. CountsOn(c, g) /\ NoReleaseInFlight(g, c)
        BY <1>1 DEF IInv, LeaseBacked, CountsOn
  <2>2. NoReleaseInFlight(g, c)'
        BY <2>1, NoNewRelease DEF IInv
  <2> QED BY <1>1, <2>1, <2>2, OldLease
<1>2. ASSUME NEW p \in Procs, ClaimGrant(p, TRUE),
             calls[p].grant = g, calls[p].claim = c, NoReleaseInFlight(g, c),
             ClaimVerdict(grants[g], c, calls[p].now) \in {"claimed", "kept"},
             leases'[g][c] = Counted(grants'[g].claimExpiresAt, clock)
      PROVE  /\ NoReleaseInFlight(g, c)'
             /\ grants'[g] # NoGrant
             /\ grants'[g].claim = c
             /\ grants'[g].status # "active"
             /\ clock' + Skew < leases'[g][c]
             /\ grants'[g].status = "claimed" => leases'[g][c] <= grants'[g].claimExpiresAt
  <2>1. NoReleaseInFlight(g, c)'
        BY <1>2, NoNewRelease DEF IInv
  <2>2. /\ clock' = clock /\ grants[g] \in Grant(Claims) /\ calls[p] \in Call
        BY <1>2 DEF ClaimGrant, Executes, IInv, TypeOK
  <2>3. grants'[g] \in Grant(Claims) /\ grants'[g].claim = c /\ grants'[g].status = "claimed"
    <3>1. CASE ClaimVerdict(grants[g], c, calls[p].now) = "kept"
      <4>1. grants'[g] = grants[g]
            BY <1>2, <3>1 DEF ClaimGrant, IInv, TypeOK
      <4> QED BY <2>2, <3>1, <4>1 DEF ClaimVerdict, LeaseLive
    <3>2. CASE ClaimVerdict(grants[g], c, calls[p].now) = "claimed"
      <4>1. grants'[g] = ClaimedRow(grants[g], c, calls[p].now, calls[p].now + ClaimLifetime)
            BY <1>2, <3>2 DEF ClaimGrant, IInv, TypeOK
      <4>2. calls[p].now \in Nat /\ calls[p].now + ClaimLifetime \in Nat
            BY <2>2, LifetimesAssumption DEF Call
      <4> QED BY <2>2, <4>1, <4>2 DEF ClaimedRow, Grant, GrantStatus
    <3> QED BY <1>2, <3>1, <3>2
  <2>4. clock + Skew < grants'[g].claimExpiresAt /\ leases'[g][c] = grants'[g].claimExpiresAt
        BY <1>2 DEF Counted
  <2>5. grants'[g] # NoGrant /\ grants'[g].claimExpiresAt \in Int
        BY <2>3, NullsAssumption DEF Grant, NoTime
  <2>6. clock' + Skew < leases'[g][c] /\ leases'[g][c] <= grants'[g].claimExpiresAt
        BY <2>2, <2>4, <2>5
  <2>7. grants'[g].claim = c /\ grants'[g].status # "active"
        BY <2>3
  <2> QED BY <2>1, <2>5, <2>6, <2>7
<1>3. \/ leases'[g][c] = leases[g][c] /\ clock' + Skew < leases'[g][c]
      \/ \E p \in Procs :
           /\ ClaimGrant(p, TRUE)
           /\ calls[p].grant = g /\ calls[p].claim = c
           /\ NoReleaseInFlight(g, c)
           /\ ClaimVerdict(grants[g], c, calls[p].now) \in {"claimed", "kept"}
           /\ leases'[g][c] = Counted(grants'[g].claimExpiresAt, clock)
      BY LeaseOrigin
<1>4. CASE leases'[g][c] = leases[g][c] /\ clock' + Skew < leases'[g][c]
      BY <1>1, <1>4
<1>5. CASE \E p \in Procs :
             /\ ClaimGrant(p, TRUE)
             /\ calls[p].grant = g /\ calls[p].claim = c
             /\ NoReleaseInFlight(g, c)
             /\ ClaimVerdict(grants[g], c, calls[p].now) \in {"claimed", "kept"}
             /\ leases'[g][c] = Counted(grants'[g].claimExpiresAt, clock)
      BY <1>2, <1>5
<1> QED BY <1>3, <1>4, <1>5

LEMMA OneConsumerStep == IInv /\ [Next]_vars => OneConsumer'
<1> SUFFICES ASSUME IInv, [Next]_vars, NEW g \in Grants, NEW c \in consumers'[g]
             PROVE  grants'[g] # NoGrant /\ grants'[g].status = "consumed" /\ grants'[g].claim = c
    BY DEF OneConsumer
<1> USE DEF IInv
<1>1. CASE c \in consumers[g]
  <2>1. grants[g] # NoGrant /\ grants[g].status = "consumed" /\ grants[g].claim = c
        BY <1>1 DEF OneConsumer
  <2>2. grants'[g] = grants[g]
        BY <2>1, EveryRowStep, TerminalRow
  <2> QED BY <2>1, <2>2
<1>2. ASSUME c \notin consumers[g], NEW p \in Procs, NEW answered \in BOOLEAN,
             ConsumeGrant(p, answered)
      PROVE  grants'[g] # NoGrant /\ grants'[g].status = "consumed" /\ grants'[g].claim = c
  <2> DEFINE k == calls[p]
             row == grants[k.grant]
             verdict == ConsumeVerdict(row, k.claim, k.now)
  <2>1. k \in Call /\ k.grant \in Grants /\ row \in Grant(Claims)
        BY <1>2 DEF ConsumeGrant, Executes, TypeOK, Call
  <2>2. /\ verdict \in {"consumed", "replayed"}
        /\ consumers' = [consumers EXCEPT ![k.grant] = consumers[k.grant] \cup {k.claim}]
    <3>1. consumers' = consumers \/ (/\ verdict \in {"consumed", "replayed"}
                                     /\ consumers' = [consumers EXCEPT ![k.grant] = @ \cup {k.claim}])
          BY <1>2 DEF ConsumeGrant
    <3> QED BY <1>2, <3>1
  <2>3. k.grant = g /\ k.claim = c
    <3> HIDE DEF k
    <3> QED BY <1>2, <2>1, <2>2 DEF TypeOK
  <2>4. CASE verdict = "replayed"
    <3>1. row.status = "consumed" /\ row.claim = k.claim
          BY <2>4 DEF ConsumeVerdict
    <3>2. grants' = grants
          BY <1>2, <2>4 DEF ConsumeGrant
    <3> QED BY <2>1, <2>3, <3>1, <3>2, NullsAssumption
  <2>5. CASE verdict = "consumed"
    <3>1. row.claim = k.claim
          BY <2>5 DEF ConsumeVerdict
    <3>2. grants'[g] = ConsumedRow(row, k.now)
          BY <1>2, <2>1, <2>3, <2>5 DEF ConsumeGrant, TypeOK
    <3>3. ConsumedRow(row, k.now) \in Grant(Claims)
          BY <2>1, ConsumedRowOK DEF Call
    <3>4. ConsumedRow(row, k.now).status = "consumed" /\ ConsumedRow(row, k.now).claim = row.claim
          BY <2>1 DEF ConsumedRow, Grant
    <3> QED BY <2>3, <3>1, <3>2, <3>3, <3>4, NullsAssumption
  <2> QED BY <2>2, <2>4, <2>5
<1>3. consumers' = consumers \/ \E p \in Procs, answered \in BOOLEAN : ConsumeGrant(p, answered)
      BY DEF Next, vars, Tick, Issue, Withdraw, Begin, Fail, ClaimGrant, ReleaseGrant
<1> QED BY <1>1, <1>2, <1>3

\* IInv holds of every reachable state.
THEOREM Invariance == Spec => []IInv
<1>1. Init => IInv
      BY InvInit
<1>2. IInv /\ [Next]_vars => IInv'
      BY TypeStep, ReadingsStep, LeaseBackedStep, RowsStep, OneConsumerStep DEF IInv
<1> QED BY <1>1, <1>2, PTL DEF Spec

----
(* The properties.                                                        *)

\* Every reachable state is of the declared types.
THEOREM TypeCorrect == Spec => []TypeOK
<1>1. IInv => TypeOK
      BY DEF IInv
<1> QED BY <1>1, Invariance, PTL

\* The CHECK of signup_grants refuses no UPDATE of the service.
THEOREM CheckNeverRefuses == Spec => []RowsSatisfyCheck
<1>1. IInv => RowsSatisfyCheck
      BY DEF IInv
<1> QED BY <1>1, Invariance, PTL

\* ValidateGrant, ResolveGrant, ClaimGrant, ConsumeGrant and ReleaseGrant agree
\* on every row: what one accepts, the next in the documented order accepts.
LEMMA VerdictsForetell ==
  ASSUME NEW g \in Grant(Claims), NEW c \in Claims, NEW now \in Nat
  PROVE  /\ ValidateVerdict(g, now) = "valid"
              <=> ClaimVerdict(g, c, now) \in {"claimed", "kept", "ErrGrantClaimed"}
         /\ ResolveVerdict(g, now) = "resolved" => ClaimVerdict(g, c, now) = "claimed"
         /\ ConsumeVerdict(g, c, now) = "consumed" <=> ClaimVerdict(g, c, now) = "kept"
         /\ ClaimVerdict(g, c, now) = "kept" => ReleaseVerdict(g, c, now) = "released"
<1> DEFINE lapsed == now >= g.expiresAt
           live == g.status = "claimed" /\ now < g.claimExpiresAt
<1>1. ClaimVerdict(g, c, now) = "kept" <=> ~lapsed /\ live /\ g.claim = c
      BY DEF ClaimVerdict, GrantLapsed, LeaseLive
<1>2. ConsumeVerdict(g, c, now) = "consumed" <=> ~lapsed /\ live /\ g.claim = c
      BY DEF ConsumeVerdict, LeaseLive
<1>3. ClaimVerdict(g, c, now) = "kept" => ReleaseVerdict(g, c, now) = "released"
      BY <1>1 DEF ReleaseVerdict
<1>4. ValidateVerdict(g, now) = "valid" <=> ~lapsed /\ g.status \in {"active", "claimed"}
      BY DEF ValidateVerdict, GrantLapsed
<1>5. ClaimVerdict(g, c, now) \in {"claimed", "kept", "ErrGrantClaimed"}
        <=> ~lapsed /\ g.status \in {"active", "claimed"}
      BY DEF ClaimVerdict, GrantLapsed
<1>6. ResolveVerdict(g, now) = "resolved" => ClaimVerdict(g, c, now) = "claimed"
      BY DEF ResolveVerdict, ClaimVerdict, GrantLapsed, LeaseLive
<1> QED BY <1>1, <1>2, <1>3, <1>4, <1>5, <1>6

\* ... and so they do on every row the service ever stores, at every reading of
\* a replica's clock.
THEOREM HandlersAgree == Spec => []ReadsForetell
<1>1. IInv => ReadsForetell
  <2> SUFFICES ASSUME IInv, NEW g \in Grants, grants[g] # NoGrant,
                      NEW now \in LocalNow, NEW c \in Claims
               PROVE  /\ ValidateVerdict(grants[g], now) = "valid"
                           <=> ClaimVerdict(grants[g], c, now) \in {"claimed", "kept", "ErrGrantClaimed"}
                      /\ ResolveVerdict(grants[g], now) = "resolved"
                           => ClaimVerdict(grants[g], c, now) = "claimed"
                      /\ ConsumeVerdict(grants[g], c, now) = "consumed"
                           <=> ClaimVerdict(grants[g], c, now) = "kept"
                      /\ ClaimVerdict(grants[g], c, now) = "kept"
                           => ReleaseVerdict(grants[g], c, now) = "released"
      BY DEF ReadsForetell
  <2>1. grants[g] \in Grant(Claims) /\ now \in Nat
        BY DEF IInv, TypeOK, LocalNow
  <2> QED BY <2>1, VerdictsForetell
<1> QED BY <1>1, Invariance, PTL

\* No two operations ever count on a lease of one grant at the same time.
THEOREM LeaseExclusion == Spec => []LeasesDisjoint
<1>1. IInv => LeasesDisjoint
  <2> SUFFICES ASSUME IInv, NEW g \in Grants, NEW c \in Claims, NEW d \in Claims,
                      CountsOn(c, g), CountsOn(d, g)
               PROVE  c = d
      BY DEF LeasesDisjoint
  <2>1. grants[g].claim = c /\ grants[g].claim = d
        BY DEF IInv, LeaseBacked
  <2> QED BY <2>1
<1> QED BY <1>1, Invariance, PTL

\* At most one operation is ever told that it consumed a grant, and the row
\* names it from then on.
THEOREM SingleConsumer == Spec => []OneConsumer
<1>1. IInv => OneConsumer
      BY DEF IInv
<1> QED BY <1>1, Invariance, PTL

\* Terminal rows never change.
THEOREM TerminalRowsFinal == Spec => TerminalFinal
<1>1. IInv /\ [Next]_vars =>
        [\A g \in Grants :
           grants[g] # NoGrant /\ grants[g].status \in {"consumed", "expired", "revoked"}
             => grants'[g] = grants[g]]_vars
      BY EveryRowStep, TerminalRow DEF IInv
<1> QED BY <1>1, Invariance, PTL DEF Spec, TerminalFinal

\* A live lease is ended by its own operation or by the operator only.
THEOREM LeaseIsHeld == Spec => LeaseHeld
<1>1. ASSUME IInv, [Next]_vars, NEW g \in Grants, Held(g)
      PROVE  LeaseStep(g)
  <2>1. grants[g] # NoGrant /\ grants[g] \in Grant(Claims)
        BY <1>1 DEF IInv, TypeOK, Held
  <2>2. RowStep(g)
        BY <1>1, EveryRowStep DEF IInv
  <2>3. ASSUME NEW status \in {"expired", "revoked"}, grants'[g] = [grants[g] EXCEPT !.status = status]
        PROVE  LeaseStep(g)
        BY <2>1, <2>3 DEF LeaseStep, Grant
  <2>4. ASSUME NEW p \in Procs, grants'[g] = ConsumedRow(grants[g], calls[p].now)
        PROVE  LeaseStep(g)
        BY <2>1, <2>4 DEF LeaseStep, ConsumedRow, Grant
  <2>5. ASSUME NEW p \in Procs, InFlight(p, "release", g), calls[p].claim = grants[g].claim,
               grants'[g] = ReleasedRow(grants[g])
        PROVE  LeaseStep(g)
    <3>1. grants'[g].status = "active"
          BY <2>1, <2>5 DEF ReleasedRow, Grant
    <3>2. ~NoReleaseInFlight(g, grants[g].claim)
          BY <2>5, NullsAssumption DEF NoReleaseInFlight, InFlight
    <3> QED BY <3>1, <3>2 DEF LeaseStep
  <2>6. grants'[g] = grants[g] => LeaseStep(g)
        BY DEF LeaseStep
  <2> QED BY <1>1, <2>2, <2>3, <2>4, <2>5, <2>6, HeldRow DEF IInv
<1>2. IInv /\ [Next]_vars => [\A g \in Grants : Held(g) => LeaseStep(g)]_vars
      BY <1>1
<1> QED BY <1>2, Invariance, PTL DEF Spec, LeaseHeld

----
(* Refusals.                                                              *)

\* A claim is refused for good when the grant is spent or withdrawn, or when its
\* expiry is in the past.
OverAt(row, now) == row.status \notin {"active", "claimed"} \/ row.expiresAt <= now

LEMMA RefusedOver ==
  ASSUME NEW row \in Grant(Claims), NEW c \in Claims, NEW now \in Nat
  PROVE  Answer(ClaimVerdict(row, c, now)) \in {"404 Not Found", "410 Gone"} <=> OverAt(row, now)
<1>1. row.expiresAt \in Nat /\ row.status \in GrantStatus
      BY DEF Grant
<1>2. now >= row.expiresAt <=> row.expiresAt <= now
      BY <1>1
<1>3. CASE GrantLapsed(row, now)
  <2>1. Answer(ClaimVerdict(row, c, now)) = "410 Gone"
        BY <1>3 DEF Answer, ClaimVerdict
  <2> QED BY <1>2, <1>3, <2>1 DEF GrantLapsed, OverAt
<1>4. CASE ~GrantLapsed(row, now) /\ row.status \notin {"active", "claimed"}
  <2>1. Answer(ClaimVerdict(row, c, now)) = "404 Not Found"
        BY <1>4 DEF Answer, ClaimVerdict
  <2> QED BY <1>4, <2>1 DEF OverAt
<1>5. CASE ~GrantLapsed(row, now) /\ row.status \in {"active", "claimed"}
  <2>1. ClaimVerdict(row, c, now) \in {"kept", "ErrGrantClaimed", "claimed"}
        BY <1>5 DEF ClaimVerdict
  <2>2. Answer(ClaimVerdict(row, c, now)) \in {"200 OK", "409 Conflict"}
        BY <2>1 DEF Answer
  <2>3. ~OverAt(row, now)
        BY <1>2, <1>5 DEF OverAt, GrantLapsed
  <2> QED BY <2>2, <2>3
<1> QED BY <1>3, <1>4, <1>5

\* A reading of the next moment is not earlier than some reading of this one.
Readings(t) == {now \in 0..(t + Skew) : t - Skew <= now}

LEMMA LaterReading ==
  ASSUME NEW t \in Nat, NEW u \in Nat, t <= u, NEW later \in Readings(u)
  PROVE  later \in Nat /\ \E earlier \in Readings(t) : earlier \in Nat /\ earlier <= later
<1>1. Skew \in Nat
      BY LifetimesAssumption
<1>2. later \in Nat /\ later <= u + Skew /\ u - Skew <= later
      BY <1>1 DEF Readings
<1>3. CASE later <= t + Skew
  <2>1. t - Skew <= later
        BY <1>1, <1>2
  <2> QED BY <1>1, <1>2, <1>3, <2>1 DEF Readings
<1>4. CASE ~(later <= t + Skew)
  <2>1. t + Skew \in Readings(t) /\ t + Skew \in Nat
        BY <1>1 DEF Readings
  <2> QED BY <1>1, <1>2, <1>4, <2>1
<1> QED BY <1>3, <1>4

\* A step keeps a row's expiry, and a row that is over for a clock reading stays
\* over for it and for every later one.
LEMMA OverStays ==
  ASSUME IInv, [Next]_vars, NEW g \in Grants, grants[g] # NoGrant
  PROVE  /\ grants'[g] \in Grant(Claims) /\ grants'[g] # NoGrant
         /\ \A earlier, now \in Nat :
              OverAt(grants[g], earlier) /\ earlier <= now => OverAt(grants'[g], now)
<1>1. grants[g] \in Grant(Claims)
      BY DEF IInv, TypeOK
<1>2. TypeOK' /\ RowStep(g)
      BY TypeStep, EveryRowStep DEF IInv
<1>3. grants'[g] \in Grant(Claims) /\ grants'[g].expiresAt = grants[g].expiresAt
  <2> DEFINE Same(row) == row \in Grant(Claims) /\ row.expiresAt = grants[g].expiresAt
  <2>1. Same(grants[g])
        BY <1>1
  <2>2. \A status \in {"expired", "revoked"} : Same([grants[g] EXCEPT !.status = status])
        BY <1>1 DEF Grant, GrantStatus
  <2>3. ASSUME NEW p \in Procs, calls[p] \in Call
        PROVE  /\ Same(ClaimedRow(grants[g], calls[p].claim, calls[p].now,
                                  calls[p].now + ClaimLifetime))
               /\ Same(ConsumedRow(grants[g], calls[p].now))
               /\ Same(ReleasedRow(grants[g]))
    <3>1. /\ calls[p].claim \in Claims /\ calls[p].now \in Nat
          /\ calls[p].now + ClaimLifetime \in Nat
          BY <2>3, LifetimesAssumption DEF Call
    <3> QED BY <1>1, <3>1 DEF ClaimedRow, ConsumedRow, ReleasedRow, Grant, GrantStatus
  <2>4. Same(grants'[g])
    <3> HIDE DEF Same
    <3> QED BY <1>1, <1>2, <2>1, <2>2, <2>3 DEF RowStep, InFlight
  <2> QED BY <2>4
<1>4. ASSUME NEW earlier \in Nat, NEW now \in Nat, OverAt(grants[g], earlier), earlier <= now
      PROVE  OverAt(grants'[g], now)
  <2>1. CASE grants[g].expiresAt <= earlier
        BY <1>1, <1>3, <1>4, <2>1 DEF OverAt, Grant
  <2>2. CASE grants[g].status \notin {"active", "claimed"}
    <3>1. grants'[g] = grants[g]
          BY <1>1, <1>2, <2>2, TerminalRow DEF Grant, GrantStatus
    <3> QED BY <2>2, <3>1 DEF OverAt
  <2> QED BY <1>4, <2>1, <2>2 DEF OverAt
<1> QED BY <1>3, <1>4, NullsAssumption

\* A claim of operation c that is in flight, on a grant that is refused to it,
\* finds the grant over.
LEMMA RefusedInFlight ==
  ASSUME IInv, NEW g \in Grants, NEW c \in Claims, Refused(g, c),
         NEW p \in Procs, InFlight(p, "claim", g), calls[p].claim = c
  PROVE  /\ OverAt(grants[g], calls[p].now)
         /\ Answer(ClaimVerdict(grants[g], c, calls[p].now)) \in {"404 Not Found", "410 Gone"}
<1>1. calls[p] # NoCall /\ calls[p].now \in Nat
      BY NullsAssumption DEF InFlight, Call
<1>2. calls[p].now \in Carried(g, c)
      BY <1>1 DEF Carried, InFlight
<1>3. Answer(ClaimVerdict(grants[g], c, calls[p].now)) \in {"404 Not Found", "410 Gone"}
      BY <1>2 DEF Refused
<1>4. grants[g] \in Grant(Claims)
      BY DEF IInv, TypeOK, Refused
<1> QED BY <1>1, <1>3, <1>4, RefusedOver

\* The readings an operation's claims can carry after a step are not earlier
\* than those they could carry before it.
LEMMA CarriedStep ==
  ASSUME IInv, [Next]_vars, NEW g \in Grants, NEW c \in Claims, NEW now \in Carried(g, c)'
  PROVE  now \in Nat /\ \E earlier \in Carried(g, c) : earlier \in Nat /\ earlier <= now
<1>1. LocalNow = Readings(clock) /\ LocalNow' = Readings(clock') /\ LocalNow \subseteq Carried(g, c)
      BY DEF LocalNow, Readings, Carried
<1>2. clock \in Nat /\ clock' \in Nat /\ clock <= clock'
      BY ClockStep DEF IInv, TypeOK
<1>3. ASSUME NEW u \in Nat, clock <= u, now \in Readings(u)
      PROVE  now \in Nat /\ \E earlier \in Carried(g, c) : earlier \in Nat /\ earlier <= now
      BY <1>1, <1>2, <1>3, LaterReading
<1>4. CASE now \in LocalNow'
      BY <1>1, <1>2, <1>3, <1>4
<1>5. ASSUME NEW p \in Procs, calls'[p] # NoCall, calls'[p].op = "claim",
             calls'[p].grant = g, calls'[p].claim = c, now = calls'[p].now
      PROVE  now \in Nat /\ \E earlier \in Carried(g, c) : earlier \in Nat /\ earlier <= now
  <2>1. CASE calls'[p] = calls[p]
    <3>1. now \in Carried(g, c)
          BY <1>5, <2>1 DEF Carried
    <3>2. now \in Nat
          BY <1>5, <2>1 DEF IInv, TypeOK, Call
    <3> QED BY <3>1, <3>2
  <2>2. ASSUME NEW op \in Ops, NEW h \in Grants, NEW d \in Claims, Begin(p, op, h, d)
        PROVE  now \in Nat /\ \E earlier \in Carried(g, c) : earlier \in Nat /\ earlier <= now
    <3>1. PICK at \in LocalNow :
            calls' = [calls EXCEPT ![p] = [op |-> op, grant |-> h, claim |-> d, now |-> at]]
          BY <2>2 DEF Begin
    <3>2. now = at
          BY <1>5, <3>1 DEF IInv, TypeOK
    <3> QED BY <1>1, <1>2, <1>3, <3>2
  <2> QED BY <1>5, <2>1, <2>2, CallsStep DEF IInv
<1> QED BY <1>4, <1>5 DEF Carried

\* A step gives operation c a lease of grant g only by delivering a claim of its
\* own that is granted or kept.
LEMMA LeaseGiven ==
  ASSUME TypeOK, [Next]_vars, NEW g \in Grants, NEW c \in Claims,
         leases'[g][c] # NoTime, leases'[g][c] # leases[g][c]
  PROVE  \E p \in Procs : /\ InFlight(p, "claim", g) /\ calls[p].claim = c
                          /\ ClaimVerdict(grants[g], c, calls[p].now) \in {"claimed", "kept"}
<1> USE DEF TypeOK
<1>1. CASE Tick
      BY <1>1 DEF Tick, Counted
<1>2. ASSUME NEW p \in Procs, NEW op \in Ops, NEW h \in Grants, NEW d \in Claims, Begin(p, op, h, d)
      PROVE  FALSE
      BY <1>2 DEF Begin
<1>3. ASSUME NEW p \in Procs, NEW answered \in BOOLEAN, ClaimGrant(p, answered)
      PROVE  /\ InFlight(p, "claim", g) /\ calls[p].claim = c
             /\ ClaimVerdict(grants[g], c, calls[p].now) \in {"claimed", "kept"}
  <2>1. calls[p] \in Call /\ calls[p].op = "claim"
        BY <1>3 DEF ClaimGrant, Executes
  <2>2. ASSUME NEW t, leases' = [leases EXCEPT ![calls[p].grant][calls[p].claim] = t]
        PROVE  calls[p].grant = g /\ calls[p].claim = c
        BY <2>1, <2>2 DEF Call
  <2>3. calls[p].grant = g /\ calls[p].claim = c
        BY <1>3, <2>2 DEF ClaimGrant
  <2>4. ClaimVerdict(grants[calls[p].grant], calls[p].claim, calls[p].now) \in {"claimed", "kept"}
        BY <1>3 DEF ClaimGrant
  <2> QED BY <2>1, <2>3, <2>4 DEF InFlight
<1>4. \/ Tick
      \/ \E p \in Procs, op \in Ops, h \in Grants, d \in Claims : Begin(p, op, h, d)
      \/ \E p \in Procs, answered \in BOOLEAN : ClaimGrant(p, answered)
  <2>1. leases' # leases
        OBVIOUS
  <2> QED BY <2>1 DEF Next, vars, Issue, Withdraw, Fail, ConsumeGrant, ReleaseGrant
<1> QED BY <1>1, <1>2, <1>3, <1>4

\* Once all that an operation can still send or has on its way is refused, it is
\* refused for ever and gets no lease any more.
THEOREM RefusalsFinal == Spec => RefusalFinal
<1>1. ASSUME IInv, [Next]_vars, NEW g \in Grants, NEW c \in Claims, Refused(g, c)
      PROVE  RefusedStep(g, c)
  <2>1. grants[g] # NoGrant /\ grants[g] \in Grant(Claims)
        BY <1>1 DEF IInv, TypeOK, Refused
  <2>2. Refused(g, c)'
    <3> SUFFICES ASSUME NEW now \in Carried(g, c)'
                 PROVE  Answer(ClaimVerdict(grants'[g], c, now)) \in {"404 Not Found", "410 Gone"}
        BY <1>1, <2>1, OverStays DEF Refused
    <3>1. now \in Nat /\ \E earlier \in Carried(g, c) : earlier \in Nat /\ earlier <= now
          BY <1>1, CarriedStep
    <3>2. PICK earlier \in Carried(g, c) : earlier \in Nat /\ earlier <= now
          BY <3>1
    <3>3. OverAt(grants[g], earlier)
          BY <1>1, <2>1, <3>2, RefusedOver DEF Refused
    <3>4. grants'[g] \in Grant(Claims) /\ OverAt(grants'[g], now)
          BY <1>1, <2>1, <3>1, <3>2, <3>3, OverStays
    <3> QED BY <3>1, <3>4, RefusedOver
  <2>3. ASSUME grants'[g].status = "claimed", grants'[g].claim = c
        PROVE  grants'[g] = grants[g]
    <3>1. RowStep(g)
          BY <1>1, EveryRowStep DEF IInv
    <3>2. ASSUME NEW p \in Procs, InFlight(p, "claim", g),
                 ClaimVerdict(grants[g], calls[p].claim, calls[p].now) = "claimed",
                 grants'[g] = ClaimedRow(grants[g], calls[p].claim, calls[p].now,
                                         calls[p].now + ClaimLifetime)
          PROVE  FALSE
      <4>1. calls[p].claim = c
            BY <2>1, <2>3, <3>2 DEF ClaimedRow, Grant
      <4>2. Answer(ClaimVerdict(grants[g], c, calls[p].now)) = "200 OK"
            BY <3>2, <4>1 DEF Answer
      <4> QED BY <1>1, <3>2, <4>1, <4>2, RefusedInFlight
    <3>3. ASSUME NEW status \in {"expired", "revoked"},
                 grants'[g] = [grants[g] EXCEPT !.status = status]
          PROVE  FALSE
          BY <2>1, <2>3, <3>3 DEF Grant
    <3>4. ASSUME NEW p \in Procs,
                 \/ grants'[g] = ConsumedRow(grants[g], calls[p].now)
                 \/ grants'[g] = ReleasedRow(grants[g])
          PROVE  FALSE
          BY <2>1, <2>3, <3>4 DEF ConsumedRow, ReleasedRow, Grant
    <3> QED BY <2>1, <3>1, <3>2, <3>3, <3>4 DEF RowStep
  <2>4. ASSUME leases'[g][c] # NoTime, leases'[g][c] # leases[g][c]
        PROVE  FALSE
    <3>1. PICK p \in Procs : /\ InFlight(p, "claim", g) /\ calls[p].claim = c
                             /\ ClaimVerdict(grants[g], c, calls[p].now) \in {"claimed", "kept"}
          BY <1>1, <2>4, LeaseGiven DEF IInv
    <3>2. Answer(ClaimVerdict(grants[g], c, calls[p].now)) = "200 OK"
          BY <3>1 DEF Answer
    <3> QED BY <1>1, <3>1, <3>2, RefusedInFlight
  <2> QED BY <2>2, <2>3, <2>4 DEF RefusedStep
<1>2. IInv /\ [Next]_vars =>
        [\A g \in Grants, c \in Claims : Refused(g, c) => RefusedStep(g, c)]_vars
      BY <1>1
<1> QED BY <1>2, Invariance, PTL DEF Spec, RefusalFinal
====
