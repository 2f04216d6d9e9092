---- MODULE LifecycleProofs ----
(***************************************************************************)
(* SignupGrants implements GrantLifecycle: its initial state maps to an    *)
(* initial state, and every step of a request, of the operator or of the   *)
(* clock maps to a step of the lifecycle or to none.                       *)
(***************************************************************************)
EXTENDS SignupGrantsProofs

PhaseMap  == [g \in Grants |-> PhaseOf(g)]
HolderMap == [g \in Grants |-> HolderOf(g)]

\* A step of the table writes one row, and the clock stands still meanwhile.
LEMMA OneRowStep ==
  ASSUME TypeOK, [Next]_vars
  PROVE  \/ Tick
         \/ UNCHANGED <<grants, clock>>
         \/ \E h \in Grants : clock' = clock /\ grants' = [grants EXCEPT ![h] = grants'[h]]
<1> USE DEF TypeOK
<1>1. ASSUME NEW h \in Grants, NEW row, grants' = [grants EXCEPT ![h] = row], clock' = clock
      PROVE  \E i \in Grants : clock' = clock /\ grants' = [grants EXCEPT ![i] = grants'[i]]
  <2>1. grants'[h] = row
        BY <1>1
  <2> QED BY <1>1, <2>1
<1>2. ASSUME NEW p \in Procs, calls[p] # NoCall
      PROVE  calls[p].grant \in Grants
      BY <1>2 DEF Call
<1>3. ASSUME NEW h \in Grants, Issue(h)
      PROVE  \E i \in Grants : clock' = clock /\ grants' = [grants EXCEPT ![i] = grants'[i]]
      BY <1>1, <1>3 DEF Issue
<1>4. ASSUME NEW h \in Grants, NEW status, Withdraw(h, status)
      PROVE  \E i \in Grants : clock' = clock /\ grants' = [grants EXCEPT ![i] = grants'[i]]
      BY <1>1, <1>4 DEF Withdraw
<1>5. ASSUME NEW p \in Procs, NEW answered, ClaimGrant(p, answered)
      PROVE  \E i \in Grants : clock' = clock /\ grants' = [grants EXCEPT ![i] = grants'[i]]
  <2>1. PICK row : grants' = [grants EXCEPT ![calls[p].grant] = row]
        BY <1>5 DEF ClaimGrant
  <2>2. clock' = clock /\ calls[p] # NoCall
        BY <1>5 DEF ClaimGrant, Executes
  <2> QED BY <1>1, <1>2, <2>1, <2>2
<1>6. ASSUME NEW p \in Procs, NEW answered, ConsumeGrant(p, answered)
      PROVE  \/ UNCHANGED <<grants, clock>>
             \/ \E i \in Grants : clock' = clock /\ grants' = [grants EXCEPT ![i] = grants'[i]]
  <2>1. grants' = grants \/ \E row : grants' = [grants EXCEPT ![calls[p].grant] = row]
        BY <1>6 DEF ConsumeGrant
  <2>2. clock' = clock /\ calls[p] # NoCall
        BY <1>6 DEF ConsumeGrant, Executes
  <2> QED BY <1>1, <1>2, <2>1, <2>2
<1>7. ASSUME NEW p \in Procs, ReleaseGrant(p)
      PROVE  \/ UNCHANGED <<grants, clock>>
             \/ \E i \in Grants : clock' = clock /\ grants' = [grants EXCEPT ![i] = grants'[i]]
  <2>1. grants' = grants \/ \E row : grants' = [grants EXCEPT ![calls[p].grant] = row]
        BY <1>7 DEF ReleaseGrant
  <2>2. clock' = clock /\ calls[p] # NoCall
        BY <1>7 DEF ReleaseGrant, Executes
  <2> QED BY <1>1, <1>2, <2>1, <2>2
<1>8. \/ Tick
      \/ UNCHANGED <<grants, clock>>
      \/ \E h \in Grants : Issue(h) \/ \E status \in {"expired", "revoked"} : Withdraw(h, status)
      \/ \E p \in Procs : \/ \E answered \in BOOLEAN : ClaimGrant(p, answered) \/ ConsumeGrant(p, answered)
                          \/ ReleaseGrant(p)
      BY DEF Next, vars, Begin, Fail
<1> QED BY <1>3, <1>4, <1>5, <1>6, <1>7, <1>8

\* The phases and holders of the rows a step does not write stay as they are.
LEMMA MapsStep ==
  ASSUME TypeOK, NEW h \in Grants, clock' = clock, grants' = [grants EXCEPT ![h] = grants'[h]]
  PROVE  /\ PhaseMap' = [PhaseMap EXCEPT ![h] = PhaseOf(h)']
         /\ HolderMap' = [HolderMap EXCEPT ![h] = HolderOf(h)']
<1>1. ASSUME NEW g \in Grants, g # h
      PROVE  PhaseOf(g)' = PhaseOf(g) /\ HolderOf(g)' = HolderOf(g)
  <2>1. grants'[g] = grants[g]
        BY <1>1 DEF TypeOK
  <2> QED BY <2>1 DEF PhaseOf, HolderOf, Held
<1> QED BY <1>1 DEF PhaseMap, HolderMap

\* What a step of one row is in the lifecycle.
LEMMA RowMoves ==
  ASSUME IInv, [Next]_vars, NEW h \in Grants, clock' = clock,
         grants' = [grants EXCEPT ![h] = grants'[h]]
  PROVE  Lifecycle!Next \/ UNCHANGED <<PhaseMap, HolderMap>>
<1> USE DEF IInv
<1>0. clock + Skew \in Int
      BY LifetimesAssumption DEF TypeOK
<1>1. /\ PhaseMap' = [PhaseMap EXCEPT ![h] = PhaseOf(h)']
      /\ HolderMap' = [HolderMap EXCEPT ![h] = HolderOf(h)']
      /\ PhaseMap[h] = PhaseOf(h) /\ HolderMap[h] = HolderOf(h)
      BY MapsStep DEF PhaseMap, HolderMap
<1>2. RowStep(h)
      BY EveryRowStep
<1>3. ASSUME NEW from, NEW to, NEW c,
             PhaseOf(h) \in from, PhaseOf(h)' = to, HolderOf(h)' = c
      PROVE  Lifecycle!Move(h, from, to, c)
      BY <1>1, <1>3 DEF Lifecycle!Move, PhaseMap, HolderMap
<1>4. CASE grants'[h] = grants[h]
  <2>1. PhaseOf(h)' = PhaseOf(h) /\ HolderOf(h)' = HolderOf(h)
        BY <1>4 DEF PhaseOf, HolderOf, Held
  <2> QED BY <1>1, <2>1 DEF PhaseMap, HolderMap
<1>5. ASSUME grants[h] = NoGrant, NEW t \in Nat, grants'[h] = NewGrant(t)
      PROVE  Lifecycle!Open(h)
  <2>1. grants'[h] \in Grant(Claims) /\ grants'[h].status = "active" /\ grants'[h].claim = NoClaim
        BY <1>5, NewGrantRow DEF NewGrant
  <2>2. PhaseOf(h) \in {"none"} /\ PhaseOf(h)' = "free" /\ HolderOf(h)' = NoClaim
        BY <1>5, <2>1, NullsAssumption DEF PhaseOf, HolderOf
  <2> QED BY <1>3, <2>2 DEF Lifecycle!Open
<1>6. ASSUME grants[h] \in Grant(Claims)
      PROVE  /\ grants[h] # NoGrant
             /\ HolderOf(h) = grants[h].claim
             /\ grants[h].status = "active" => PhaseOf(h) = "free"
             /\ grants[h].status = "claimed" => PhaseOf(h) = IF Held(h) THEN "held" ELSE "lapsed"
      BY <1>6, NullsAssumption DEF PhaseOf, HolderOf
<1>7. ASSUME grants[h] \in Grant(Claims), grants[h].status \in {"active", "claimed"},
             NEW status \in {"expired", "revoked"},
             grants'[h] = [grants[h] EXCEPT !.status = status]
      PROVE  Lifecycle!Withdraw(h)
  <2>1. /\ grants'[h] \in Grant(Claims) /\ grants'[h].status = status
        /\ grants'[h].claim = grants[h].claim
        BY <1>7 DEF Grant, GrantStatus
  <2>2. PhaseOf(h)' = "void" /\ HolderOf(h)' = HolderMap[h]
        BY <1>1, <1>6, <1>7, <2>1, NullsAssumption DEF PhaseOf, HolderOf
  <2>3. PhaseOf(h) \in {"free", "held", "lapsed"}
        BY <1>6, <1>7
  <2> QED BY <1>3, <2>2, <2>3 DEF Lifecycle!Withdraw, HolderMap
<1>8. ASSUME grants[h] \in Grant(Claims), NEW p \in Procs, InFlight(p, "claim", h),
             ClaimVerdict(grants[h], calls[p].claim, calls[p].now) = "claimed",
             grants'[h] = ClaimedRow(grants[h], calls[p].claim, calls[p].now,
                                     calls[p].now + ClaimLifetime)
      PROVE  \E c \in Claims : Lifecycle!Take(h, c)
  <2> DEFINE k == calls[p]
  <2>1. k \in Call /\ k.claim \in Claims /\ k.now \in Nat /\ k.now + ClaimLifetime \in Nat
        BY <1>8, LifetimesAssumption DEF InFlight, Call
  <2>2. ~Held(h) /\ grants[h].status \in {"active", "claimed"}
    <3>1. k.now <= clock + Skew
          BY <1>8, NullsAssumption DEF ReadingsBounded, InFlight
    <3>2. LeaseLive(grants[h], clock + Skew) => LeaseLive(grants[h], k.now)
          BY <1>0, <1>8, <2>1, <3>1 DEF LeaseLive, Grant, NoTime
    <3> QED BY <1>8, <3>2 DEF ClaimVerdict, Held
  <2>3. grants'[h] \in Grant(Claims) /\ grants'[h].status = "claimed" /\ grants'[h].claim = k.claim
        BY <1>8, <2>1 DEF ClaimedRow, Grant, GrantStatus
  <2>4. PhaseOf(h) \in {"free", "lapsed"}
        BY <1>6, <1>8, <2>2
  <2>5. PhaseOf(h)' \in {"held", "lapsed"} /\ HolderOf(h)' = k.claim
        BY <2>3, NullsAssumption DEF PhaseOf, HolderOf
  <2>6. Lifecycle!Take(h, k.claim)
        BY <1>3, <2>4, <2>5 DEF Lifecycle!Take
  <2> QED BY <2>1, <2>6
<1>9. ASSUME grants[h] \in Grant(Claims), NEW p \in Procs, InFlight(p, "consume", h),
             ConsumeVerdict(grants[h], calls[p].claim, calls[p].now) = "consumed",
             grants'[h] = ConsumedRow(grants[h], calls[p].now)
      PROVE  Lifecycle!Spend(h)
  <2>1. grants'[h] \in Grant(Claims) /\ grants'[h].status = "consumed" /\ grants'[h].claim = grants[h].claim
        BY <1>9, ConsumedRowOK DEF ConsumedRow, Grant, InFlight, Call
  <2>2. PhaseOf(h) \in {"held", "lapsed"}
        BY <1>6, <1>9 DEF ConsumeVerdict, LeaseLive
  <2>3. PhaseOf(h)' = "spent" /\ HolderOf(h)' = HolderMap[h]
        BY <1>1, <1>6, <1>9, <2>1, NullsAssumption DEF PhaseOf, HolderOf
  <2> QED BY <1>3, <2>2, <2>3 DEF Lifecycle!Spend, HolderMap
<1>10. ASSUME grants[h] \in Grant(Claims), NEW p \in Procs,
              ReleaseVerdict(grants[h], calls[p].claim, calls[p].now) = "released",
              grants'[h] = ReleasedRow(grants[h])
       PROVE  Lifecycle!Return(h)
  <2>1. grants'[h] \in Grant(Claims) /\ grants'[h].status = "active" /\ grants'[h].claim = NoClaim
        BY <1>10 DEF ReleasedRow, Grant, GrantStatus, NoTime
  <2>2. PhaseOf(h) \in {"held", "lapsed"}
        BY <1>6, <1>10 DEF ReleaseVerdict
  <2>3. PhaseOf(h)' = "free" /\ HolderOf(h)' = NoClaim
        BY <2>1, NullsAssumption DEF PhaseOf, HolderOf
  <2> QED BY <1>3, <2>2, <2>3 DEF Lifecycle!Return
<1>11. ASSUME \/ Lifecycle!Open(h) \/ Lifecycle!Withdraw(h) \/ Lifecycle!Spend(h)
              \/ Lifecycle!Return(h) \/ \E c \in Claims : Lifecycle!Take(h, c)
       PROVE  Lifecycle!Next
       BY <1>11 DEF Lifecycle!Next
<1> QED BY <1>2, <1>4, <1>5, <1>7, <1>8, <1>9, <1>10, <1>11 DEF RowStep

\* Time passing lapses leases and does nothing else.
LEMMA TickLapses ==
  ASSUME TypeOK, Tick
  PROVE  Lifecycle!Next
<1>1. clock' = clock + 1 /\ grants' = grants /\ clock \in Nat
      BY DEF Tick, TypeOK
<1>2. ASSUME NEW g \in Grants
      PROVE  /\ HolderOf(g)' = HolderOf(g)
             /\ PhaseOf(g)' \in {"none", "free", "held", "lapsed", "spent", "void"}
             /\ PhaseOf(g)' # PhaseOf(g) => PhaseOf(g) = "held" /\ PhaseOf(g)' = "lapsed"
  <2>1. HolderOf(g)' = HolderOf(g)
        BY <1>1 DEF HolderOf
  <2>2. CASE grants[g] = NoGrant \/ grants[g].status # "claimed"
        BY <1>1, <2>1, <2>2 DEF PhaseOf
  <2>3. CASE grants[g] # NoGrant /\ grants[g].status = "claimed"
    <3>1. /\ PhaseOf(g) = IF Held(g) THEN "held" ELSE "lapsed"
          /\ PhaseOf(g)' = IF Held(g)' THEN "held" ELSE "lapsed"
          BY <1>1, <2>3 DEF PhaseOf
    <3>2. Held(g)' => Held(g)
      <4>1. grants[g].claimExpiresAt \in Int /\ Skew \in Int
            BY <2>3, LifetimesAssumption DEF TypeOK, Grant, NoTime
      <4> QED BY <1>1, <2>3, <4>1 DEF Held, LeaseLive
    <3> QED BY <2>1, <3>1, <3>2
  <2> QED BY <2>1, <2>2, <2>3
<1>3. Lifecycle!Lapse
      BY <1>2 DEF Lifecycle!Lapse, Lifecycle!Phase
<1> QED BY <1>3 DEF Lifecycle!Next

\* The refinement, for every number of grants, operations and requests.
THEOREM Refinement == Spec => ImplementsLifecycle
<1>1. Init => Lifecycle!Init
      BY DEF Init, Lifecycle!Init, PhaseOf, HolderOf
<1>2. IInv /\ [Next]_vars => [Lifecycle!Next]_<<PhaseMap, HolderMap>>
  <2> SUFFICES ASSUME IInv, [Next]_vars
               PROVE  Lifecycle!Next \/ UNCHANGED <<PhaseMap, HolderMap>>
      OBVIOUS
  <2>1. CASE Tick
        BY <2>1, TickLapses DEF IInv
  <2>2. CASE UNCHANGED <<grants, clock>>
        BY <2>2 DEF PhaseMap, HolderMap, PhaseOf, HolderOf, Held
  <2> QED BY <2>1, <2>2, OneRowStep, RowMoves DEF IInv
<1> QED BY <1>1, <1>2, Invariance, PTL DEF Spec, ImplementsLifecycle, Lifecycle!Spec, PhaseMap, HolderMap
====
