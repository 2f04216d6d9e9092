---- MODULE ApprovalStore ----
(***************************************************************************)
(* The transactions of internal/postgres/approvals.go as functions of the  *)
(* row they lock: the verdict the transaction reaches, in the order the    *)
(* code tests its conditions, and the row it writes when it commits.       *)
(* Every transaction reads its row FOR UPDATE before it decides, so a      *)
(* transaction is one atomic function of the row and of the `now` its      *)
(* caller read earlier.  Strings that start with Err are the Go error      *)
(* values of internal/approvals/service.go; the others are successes.      *)
(***************************************************************************)
EXTENDS Integers

CONSTANT NoClaim     \* claim_reference_digest IS NULL

NoTime == -1         \* a NULL timestamp column (the Go zero time)

----
(* Rows.  An application is the join of early_access_submissions and its  *)
(* one row of early_access_review_capabilities, which reviewQuery reads.   *)

DecisionStatus == {"pending", "approved", "declined"}
ReviewStatus   == {"active", "decided", "revoked", "expired"}
GrantStatus    == {"active", "claimed", "consumed", "revoked", "expired"}

Application == [status : DecisionStatus, review : ReviewStatus, reviewExpiresAt : Nat]

Grant(Claims) ==
  [status : GrantStatus, expiresAt : Nat, claim : Claims \cup {NoClaim},
   claimedAt : Nat \cup {NoTime}, claimExpiresAt : Nat \cup {NoTime},
   consumedAt : Nat \cup {NoTime}]

\* The INSERT of Approve: every other column keeps its default.
NewGrant(expiresAt) ==
  [status |-> "active", expiresAt |-> expiresAt, claim |-> NoClaim,
   claimedAt |-> NoTime, claimExpiresAt |-> NoTime, consumedAt |-> NoTime]

\* The table CHECK on signup_grants.  (revoked_at is written by no statement
\* of the service and is left out.)
GrantCheck(g) ==
  \/ /\ g.status = "active"
     /\ g.claim = NoClaim
     /\ {g.claimedAt, g.claimExpiresAt, g.consumedAt} = {NoTime}
  \/ /\ g.status = "claimed"
     /\ g.claim # NoClaim
     /\ NoTime \notin {g.claimedAt, g.claimExpiresAt}
     /\ g.consumedAt = NoTime
  \/ g.status = "consumed" /\ g.consumedAt # NoTime
  \/ g.status \in {"revoked", "expired"} /\ g.consumedAt = NoTime

----
(* Review capabilities.                                                   *)

ReviewLapsed(a, now) == now >= a.reviewExpiresAt \/ a.review = "expired"
Undecided(a)         == a.status = "pending" /\ a.review = "active"
Decided(a, status)   == a.status = status /\ a.review = "decided"

ResolveReviewVerdict(a, now) ==
  IF now >= a.reviewExpiresAt THEN "ErrReviewExpired"
  ELSE IF Undecided(a) THEN "resolved"
  ELSE "ErrInvalidReview"

\* Fault: an approval is not repeatable.
ApproveVerdictNoReplay(a, candidateExpiresAt, now) ==
  IF ReviewLapsed(a, now) THEN "ErrReviewExpired"
  ELSE IF a.review = "revoked" THEN "ErrInvalidReview"
  ELSE IF ~Undecided(a) THEN "ErrDecisionConflict"
  ELSE IF candidateExpiresAt <= now THEN "ErrInvalidInput"
  ELSE "approved"

\* Fault: a decision already taken is not looked at.
ApproveVerdictAnyDecision(a, candidateExpiresAt, now) ==
  IF ReviewLapsed(a, now) THEN "ErrReviewExpired"
  ELSE IF a.review = "revoked" THEN "ErrInvalidReview"
  ELSE IF candidateExpiresAt <= now THEN "ErrInvalidInput"
  ELSE "approved"

ApproveVerdict(a, candidateExpiresAt, now) ==
  IF ReviewLapsed(a, now) THEN "ErrReviewExpired"
  ELSE IF a.review = "revoked" THEN "ErrInvalidReview"
  ELSE IF Decided(a, "approved") THEN "replayed"
  ELSE IF ~Undecided(a) THEN "ErrDecisionConflict"
  ELSE IF candidateExpiresAt <= now THEN "ErrInvalidInput"
  ELSE "approved"

\* Fault: the capability's expiry is not tested.
DeclineVerdictLate(a, now) ==
  IF Decided(a, "declined") THEN "replayed"
  ELSE IF ~Undecided(a) THEN "ErrDecisionConflict"
  ELSE "declined"

\* Fault: a decision already taken is not looked at.
DeclineVerdictAnyDecision(a, now) ==
  IF ReviewLapsed(a, now) THEN "ErrReviewExpired"
  ELSE IF Decided(a, "declined") THEN "replayed"
  ELSE "declined"

DeclineVerdict(a, now) ==
  IF ReviewLapsed(a, now) THEN "ErrReviewExpired"
  ELSE IF Decided(a, "declined") THEN "replayed"
  ELSE IF ~Undecided(a) THEN "ErrDecisionConflict"
  ELSE "declined"

\* Fault: the capability is not marked as decided.
DecidedRowOpenReview(a, status) == [a EXCEPT !.status = status]

\* Fault: the two columns are swapped.
DecidedRowSwapped(a, status) == [a EXCEPT !.status = "decided", !.review = status]

DecidedRow(a, status) == [a EXCEPT !.status = status, !.review = "decided"]

----
(* Signup grants.                                                         *)

GrantLapsed(g, now) == now >= g.expiresAt \/ g.status = "expired"
LeaseLive(g, now)   == g.status = "claimed" /\ now < g.claimExpiresAt

\* Fault: a claimed grant is not valid any more.
ValidateVerdictUnclaimed(g, now) ==
  IF GrantLapsed(g, now) THEN "ErrGrantExpired"
  ELSE IF g.status # "active" THEN "ErrInvalidGrant"
  ELSE "valid"

ValidateVerdict(g, now) ==
  IF GrantLapsed(g, now) THEN "ErrGrantExpired"
  ELSE IF g.status \notin {"active", "claimed"} THEN "ErrInvalidGrant"
  ELSE "valid"

\* approvals.Service.ResolveGrant decides on the row ResolveGrant returns.
ResolveVerdict(g, now) ==
  IF g.status # "active" THEN "ErrInvalidGrant"
  ELSE IF now >= g.expiresAt THEN "ErrGrantExpired"
  ELSE "resolved"

\* Fault: the other operation's lease is not compared with now.
ClaimVerdictIgnoringLease(g, claim, now) ==
  IF GrantLapsed(g, now) THEN "ErrGrantExpired"
  ELSE IF g.status \notin {"active", "claimed"} THEN "ErrInvalidGrant"
  ELSE IF LeaseLive(g, now) /\ g.claim = claim THEN "kept"
  ELSE "claimed"

\* Fault: a grant that is neither active nor claimed is claimed all the same.
ClaimVerdictAnyStatus(g, claim, now) ==
  IF GrantLapsed(g, now) THEN "ErrGrantExpired"
  ELSE IF LeaseLive(g, now)
       THEN IF g.claim = claim THEN "kept" ELSE "ErrGrantClaimed"
  ELSE "claimed"

ClaimVerdict(g, claim, now) ==
  IF GrantLapsed(g, now) THEN "ErrGrantExpired"
  ELSE IF g.status \notin {"active", "claimed"} THEN "ErrInvalidGrant"
  ELSE IF LeaseLive(g, now)
       THEN IF g.claim = claim THEN "kept" ELSE "ErrGrantClaimed"
  ELSE "claimed"

ClaimedRow(g, claim, now, claimExpiresAt) ==
  [g EXCEPT !.status = "claimed", !.claim = claim,
            !.claimedAt = now, !.claimExpiresAt = claimExpiresAt]

\* Fault: the replay of a consumption does not compare the references.
ConsumeVerdictAnyReplay(g, claim, now) ==
  IF g.status = "consumed" THEN "replayed"
  ELSE IF \/ ~LeaseLive(g, now)
          \/ now >= g.expiresAt
          \/ g.claim # claim THEN "ErrInvalidClaim"
  ELSE "consumed"

ConsumeVerdict(g, claim, now) ==
  IF g.status = "consumed"
  THEN IF g.claim = claim THEN "replayed" ELSE "ErrInvalidClaim"
  ELSE IF \/ ~LeaseLive(g, now)
          \/ now >= g.expiresAt
          \/ g.claim # claim THEN "ErrInvalidClaim"
  ELSE "consumed"

ConsumedRow(g, now) ==
  [g EXCEPT !.status = "consumed", !.consumedAt = now,
            !.claimedAt = NoTime, !.claimExpiresAt = NoTime]

\* Fault: the reference is not compared with the row's.
ReleaseVerdictAnyClaim(g, claim, now) ==
  IF g.status # "claimed" THEN "ErrInvalidClaim"
  ELSE IF now >= g.expiresAt THEN "ErrGrantExpired"
  ELSE "released"

\* Fault: the status is not tested: a consumed row still names its operation.
ReleaseVerdictAnyStatus(g, claim, now) ==
  IF g.claim # claim THEN "ErrInvalidClaim"
  ELSE IF now >= g.expiresAt THEN "ErrGrantExpired"
  ELSE "released"

ReleaseVerdict(g, claim, now) ==
  IF g.status # "claimed" \/ g.claim # claim THEN "ErrInvalidClaim"
  ELSE IF now >= g.expiresAt THEN "ErrGrantExpired"
  ELSE "released"

\* Fault: a status the column does not know.
ReleasedRowNewStatus(g) ==
  [g EXCEPT !.status = "released", !.claim = NoClaim,
            !.claimedAt = NoTime, !.claimExpiresAt = NoTime]

\* Fault: claim_reference_digest is left behind.
ReleasedRowKeepingClaim(g) ==
  [g EXCEPT !.status = "active", !.claimedAt = NoTime, !.claimExpiresAt = NoTime]

ReleasedRow(g) ==
  [g EXCEPT !.status = "active", !.claim = NoClaim,
            !.claimedAt = NoTime, !.claimExpiresAt = NoTime]
====
