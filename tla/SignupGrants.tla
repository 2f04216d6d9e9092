---- MODULE SignupGrants ----
(***************************************************************************)
(* Signup grants between concurrent provisioning operations: the handlers  *)
(* ClaimGrant, ConsumeGrant and ReleaseGrant of internal/approvals and the *)
(* transactions of internal/postgres/approvals.go they call.               *)
(*                                                                         *)
(* A handler reads the clock of its own replica, then waits for a pooled   *)
(* connection and for the lock of the grant's row, then runs its           *)
(* transaction with the `now` it read.  Any number of requests are in      *)
(* flight, the same request may be sent again while an earlier copy is     *)
(* still on its way, and the answer to a committed transaction may never   *)
(* reach the caller.                                                       *)
(***************************************************************************)
EXTENDS ApprovalStore

CONSTANTS Grants,          \* the grants: a token digest and its approved email
          Claims,          \* claim references of provisioning operations
          Procs,           \* requests that can be in flight at the same time
          GrantLifetime,   \* Service.grantLifetime
          ClaimLifetime,   \* Service.claimLifetime
          Skew,            \* how far a replica's clock is from the true time
          MaxClock,        \* bound of the model: the clock stops here
          NoGrant,         \* no row of signup_grants
          NoCall           \* no request in flight

VARIABLES clock,           \* true time
          grants,          \* the table signup_grants
          calls,           \* the requests in flight
          leases,          \* history: the lease end an operation was answered and counts on
          consumers        \* history: operations that were answered "consumed"

vars == <<clock, grants, calls, leases, consumers>>

Ops  == {"claim", "consume", "release"}
Call == [op : Ops, grant : Grants, claim : Claims, now : Nat]

ASSUME LifetimesAssumption ==
  /\ GrantLifetime \in Nat \ {0}     \* NewService replaces values <= 0
  /\ ClaimLifetime \in Nat \ {0}
  /\ Skew \in Nat
  /\ MaxClock \in Nat
ASSUME NullsAssumption ==
  /\ NoClaim \notin Claims
  /\ NoGrant \notin Grant(Claims)
  /\ NoCall \notin Call

TypeOK ==
  /\ clock \in Nat
  /\ grants \in [Grants -> Grant(Claims) \cup {NoGrant}]
  /\ calls \in [Procs -> Call \cup {NoCall}]
  /\ leases \in [Grants -> [Claims -> Nat \cup {NoTime}]]
  /\ consumers \in [Grants -> SUBSET Claims]

Init ==
  /\ clock = 0
  /\ grants = [g \in Grants |-> NoGrant]
  /\ calls = [p \in Procs |-> NoCall]
  /\ leases = [g \in Grants |-> [c \in Claims |-> NoTime]]
  /\ consumers = [g \in Grants |-> {}]

\* What time.Now can return on some replica.
LocalNow == {now \in 0..(clock + Skew) : clock - Skew <= now}

\* The lease end t, as long as it is in the future of every clock at time `at`.
Counted(t, at) == IF at + Skew < t THEN t ELSE NoTime

Tick ==
  /\ clock < MaxClock
  /\ clock' = clock + 1
  /\ leases' = [g \in Grants |-> [c \in Claims |-> Counted(leases[g][c], clock + 1)]]
  /\ UNCHANGED <<grants, calls, consumers>>

\* The INSERT of the approving transaction, with an expiry computed any time
\* before it: the row's CHECK compares it with the start of the transaction.
Issue(g) ==
  /\ grants[g] = NoGrant
  /\ \E now \in 0..(clock + Skew) :
       grants' = [grants EXCEPT ![g] = NewGrant(now + GrantLifetime)]
  /\ UNCHANGED <<clock, calls, leases, consumers>>

\* Outside the service: an operator's UPDATE takes an unspent grant back.
Withdraw(g, status) ==
  /\ grants[g] # NoGrant
  /\ grants[g].status \in {"active", "claimed"}
  /\ grants' = [grants EXCEPT ![g].status = status]
  /\ UNCHANGED <<clock, calls, leases, consumers>>

----
(* Requests.                                                              *)

\* No release of operation c is on its way.
NoReleaseInFlight(g, c) ==
  \A p \in Procs : calls[p] # NoCall =>
    ~(calls[p].op = "release" /\ calls[p].grant = g /\ calls[p].claim = c)

\* A handler has checked its input and reads the clock.  A grant's token is
\* known to nobody before the grant is stored, and a token without a row gets
\* ErrInvalidGrant whatever else happens.  An operation that asks for its lease
\* to be released no longer counts on it.
Begin(p, op, g, c) ==
  /\ calls[p] = NoCall
  /\ grants[g] # NoGrant
  /\ \E now \in LocalNow :
       calls' = [calls EXCEPT ![p] = [op |-> op, grant |-> g, claim |-> c, now |-> now]]
  /\ leases' = IF op = "release" THEN [leases EXCEPT ![g][c] = NoTime] ELSE leases
  /\ UNCHANGED <<clock, grants, consumers>>

\* The request ends without a commit: no row matches the email, the
\* transaction fails or is rolled back, the process or the client goes away.
Fail(p) ==
  /\ calls[p] # NoCall
  /\ calls' = [calls EXCEPT ![p] = NoCall]
  /\ UNCHANGED <<clock, grants, leases, consumers>>

\* Request p of kind op finds its row.
Executes(p, op) ==
  /\ calls[p] # NoCall
  /\ calls[p].op = op
  /\ grants[calls[p].grant] # NoGrant
  /\ calls' = [calls EXCEPT ![p] = NoCall]

\* Fault: a grant that another operation has claimed is answered as missing.
AnswerHidingClaims(verdict) ==
  CASE verdict \in {"ErrInvalidGrant", "ErrGrantClaimed"} -> "404 Not Found"
    [] verdict = "ErrGrantExpired"                        -> "410 Gone"
    [] verdict = "ErrInvalidClaim"                        -> "409 Conflict"
    [] OTHER                                              -> "200 OK"

\* writeGrantError and the success it stands beside: what the operation is told.
Answer(verdict) ==
  CASE verdict = "ErrInvalidGrant"                        -> "404 Not Found"
    [] verdict = "ErrGrantExpired"                        -> "410 Gone"
    [] verdict \in {"ErrGrantClaimed", "ErrInvalidClaim"} -> "409 Conflict"
    [] OTHER                                              -> "200 OK"

\* `answered`: the response reaches the operation.  While a release of its own
\* is still on its way, an operation cannot count on the lease it is answered.
ClaimGrant(p, answered) ==
  LET k == calls[p]
      row == grants[k.grant]
      verdict == ClaimVerdict(row, k.claim, k.now)
      after == IF verdict = "claimed"
               THEN ClaimedRow(row, k.claim, k.now, k.now + ClaimLifetime)
               ELSE row
  IN /\ Executes(p, "claim")
     /\ grants' = [grants EXCEPT ![k.grant] = after]
     /\ leases' = IF /\ answered
                     /\ verdict \in {"claimed", "kept"}
                     /\ NoReleaseInFlight(k.grant, k.claim)
                  THEN [leases EXCEPT ![k.grant][k.claim] = Counted(after.claimExpiresAt, clock)]
                  ELSE leases
     /\ UNCHANGED <<clock, consumers>>

ConsumeGrant(p, answered) ==
  LET k == calls[p]
      row == grants[k.grant]
      verdict == ConsumeVerdict(row, k.claim, k.now)
  IN /\ Executes(p, "consume")
     /\ grants' = IF verdict = "consumed"
                  THEN [grants EXCEPT ![k.grant] = ConsumedRow(row, k.now)]
                  ELSE grants
     /\ consumers' = IF answered /\ verdict \in {"consumed", "replayed"}
                     THEN [consumers EXCEPT ![k.grant] = @ \cup {k.claim}]
                     ELSE consumers
     /\ UNCHANGED <<clock, leases>>

ReleaseGrant(p) ==
  LET k == calls[p]
      row == grants[k.grant]
  IN /\ Executes(p, "release")
     /\ grants' = IF ReleaseVerdict(row, k.claim, k.now) = "released"
                  THEN [grants EXCEPT ![k.grant] = ReleasedRow(row)]
                  ELSE grants
     /\ UNCHANGED <<clock, leases, consumers>>

Next ==
  \/ Tick
  \/ \E g \in Grants : Issue(g) \/ \E status \in {"expired", "revoked"} : Withdraw(g, status)
  \/ \E p \in Procs :
       \/ \E op \in Ops, g \in Grants, c \in Claims : Begin(p, op, g, c)
       \/ Fail(p)
       \/ \E answered \in BOOLEAN : ClaimGrant(p, answered) \/ ConsumeGrant(p, answered)
       \/ ReleaseGrant(p)

Spec == Init /\ [][Next]_vars

----
(* Properties.                                                            *)

\* The row's lease cannot have ended on any replica's clock.
Held(g) == grants[g] # NoGrant /\ LeaseLive(grants[g], clock + Skew)

\* Operation c still counts on a lease of grant g that has ended on no clock.
CountsOn(c, g) == leases[g][c] # NoTime

\* No UPDATE of the service is refused by the CHECK of signup_grants: every
\* row the transactions leave behind satisfies it.
RowsSatisfyCheck == \A g \in Grants : grants[g] # NoGrant => GrantCheck(grants[g])

\* The handlers agree on a row: ValidateGrant accepts exactly the grants that
\* ClaimGrant does not refuse for good, what ResolveGrant returns can be claimed
\* by anyone, and an operation can consume exactly when its claim would be kept,
\* in which case it can also still release.
ReadsForetell ==
  \A g \in Grants : grants[g] # NoGrant => \A now \in LocalNow, c \in Claims :
    LET claim == ClaimVerdict(grants[g], c, now) IN
    /\ ValidateVerdict(grants[g], now) = "valid"
         <=> claim \in {"claimed", "kept", "ErrGrantClaimed"}
    /\ ResolveVerdict(grants[g], now) = "resolved" => claim = "claimed"
    /\ ConsumeVerdict(grants[g], c, now) = "consumed" <=> claim = "kept"
    /\ claim = "kept" => ReleaseVerdict(grants[g], c, now) = "released"

\* Two provisioning operations never count on a lease of the same grant at the
\* same time, whatever requests are delayed, repeated or lost.
LeasesDisjoint ==
  \A g \in Grants, c, d \in Claims : CountsOn(c, g) /\ CountsOn(d, g) => c = d

\* An operation that was told its grant is consumed is the only one ever told
\* so, and the row goes on naming it: a lost answer can be reconciled by asking
\* again, and nobody else's consume can.
OneConsumer ==
  \A g \in Grants : \A c \in consumers[g] :
    grants[g] # NoGrant /\ grants[g].status = "consumed" /\ grants[g].claim = c

\* While a lease is live on every clock its row changes in three ways only: its
\* own operation's consume, its own operation's release, or the operator.  In
\* particular another operation's request, however stale its clock reading,
\* neither takes, ends nor stretches it.
LeaseStep(g) ==
  \/ grants'[g] = grants[g]
  \/ /\ grants'[g].status = "consumed"
     /\ grants'[g].claim = grants[g].claim
  \/ /\ grants'[g].status = "active"
     /\ ~NoReleaseInFlight(g, grants[g].claim)
  \/ grants'[g].status \in {"expired", "revoked"}
LeaseHeld == [][\A g \in Grants : Held(g) => LeaseStep(g)]_vars

\* A consumed, expired or revoked grant never changes again: it is not claimed,
\* released or consumed anew, and a repeated consume does not move consumed_at.
TerminalFinal ==
  [][\A g \in Grants :
       grants[g] # NoGrant /\ grants[g].status \in {"consumed", "expired", "revoked"}
         => grants'[g] = grants[g]]_vars

\* The clock readings that a claim of operation c can carry: that of a request
\* it begins now, on any replica, and those of its claims still on their way.
Carried(g, c) ==
  LocalNow \cup {calls[p].now : p \in {q \in Procs :
    calls[q] # NoCall /\ calls[q].op = "claim" /\ calls[q].grant = g /\ calls[q].claim = c}}

\* Refusals are final: once every claim that operation c can begin and every one
\* it still has on its way would be answered "missing" or "gone", c may give up
\* for good.  That stays so, and no lease is ever given to it again, whatever
\* requests of other operations, with older readings, are delivered meanwhile.
\* A conflict is not such an answer, and an answer alone is not enough: an
\* earlier copy of the claim may carry a reading from before the expiry.
Refused(g, c) ==
  /\ grants[g] # NoGrant
  /\ \A now \in Carried(g, c) :
       Answer(ClaimVerdict(grants[g], c, now)) \in {"404 Not Found", "410 Gone"}
RefusedStep(g, c) ==
  /\ Refused(g, c)'
  /\ grants'[g].status = "claimed" /\ grants'[g].claim = c => grants'[g] = grants[g]
  /\ leases'[g][c] # NoTime => leases'[g][c] = leases[g][c]
RefusalFinal == [][\A g \in Grants, c \in Claims : Refused(g, c) => RefusedStep(g, c)]_vars

\* The grants implement GrantLifecycle: phases follow the row and the clock.
PhaseOf(g) ==
  IF grants[g] = NoGrant THEN "none"
  ELSE CASE grants[g].status = "active"   -> "free"
         [] grants[g].status = "claimed"  -> IF Held(g) THEN "held" ELSE "lapsed"
         [] grants[g].status = "consumed" -> "spent"
         [] OTHER                         -> "void"
HolderOf(g) == IF grants[g] = NoGrant THEN NoClaim ELSE grants[g].claim

Lifecycle == INSTANCE GrantLifecycle
               WITH phase <- [g \in Grants |-> PhaseOf(g)],
                    holder <- [g \in Grants |-> HolderOf(g)]
ImplementsLifecycle == Lifecycle!Spec
====
