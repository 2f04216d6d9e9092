---- MODULE Onboarding ----
(***************************************************************************)
(* An application from its review to its farm: the handlers of Approvals   *)
(* and the provisioning operations of Provisioning on one table of grants, *)
(* one clock and one token store.                                          *)
(*                                                                         *)
(* Approvals knows of a grant its token, its expiry and whether it was     *)
(* consumed, and lets whoever was mailed the token consume it.  Here the   *)
(* row is the whole row, an operation needs a mailed token to send         *)
(* anything, and the consume that deletes the token file is the one        *)
(* transaction of SignupGrants that the lease decides.                     *)
(***************************************************************************)
EXTENDS Provisioning

CONSTANTS Handlers, Tokens, ReviewLifetime, AmbiguousCommit, MaxFaults, Idle   \* see Approvals

VARIABLES apps, files, handlers, mailed, strays, faults,   \* see Approvals
          tokenOf     \* the token of a grant, of which the row has the digest

service == <<apps, files, handlers, mailed, strays, faults>>
ovars   == <<pvars, service, tokenOf>>

\* What Approvals knows of the grants.
GrantRows == [g \in Grants |->
  IF grants[g] = NoGrant THEN NoGrant
  ELSE [token |-> tokenOf[g], expiresAt |-> grants[g].expiresAt,
        spent |-> grants[g].status = "consumed"]]

A == INSTANCE Approvals WITH Apps <- Grants, grants <- GrantRows

ASSUME OnboardingAssumption ==
  /\ ReviewLifetime \in Nat \ {0}
  /\ AmbiguousCommit \in BOOLEAN
  /\ MaxFaults \in Nat
  /\ NoGrant \notin A!GrantRow /\ Idle \notin A!Request

OInit ==
  /\ PInit
  /\ A!Init
  /\ tokenOf \in [Grants -> Tokens]    \* without a row it means nothing

\* A transaction of an approval stores its grant.
IssueFor(h) ==
  /\ handlers[h] # Idle
  /\ Issue(handlers[h].app)
  /\ tokenOf' = [tokenOf EXCEPT ![handlers[h].app] = handlers[h].token]

\* A step of the review, with what it writes to the table of grants.
Reviewing ==
  \/ /\ UNCHANGED <<vars, tokenOf>>
     /\ \/ \E g \in Grants : \/ \E review \in {"revoked", "expired"} : A!Withdraw(g, review)
                             \/ A!Decline(g)
                             \/ \E h \in Handlers : A!Approve(h, g)
        \/ \E h \in Handlers : \/ A!Decide(h) \/ A!DecideFails(h) \/ A!Undo(h) \/ A!Swap(h)
                               \/ A!Read(h) \/ A!Mail(h) \/ A!Sweep(h) \/ A!Stop(h)
  \/ \E h \in Handlers : IssueFor(h) /\ (A!Decide(h) \/ A!DecideFails(h))

\* An operation acts for an applicant who was mailed the token.
Request ==
  \E g \in Grants :
    /\ <<g, tokenOf[g]>> \in mailed
    /\ \E p \in Procs, op \in Ops, c \in Claims : Begin(p, op, g, c)

\* ConsumeGrant with the deletion of the token file that follows its commit.
Consume(p, answered) ==
  LET k == calls[p] IN
  /\ ConsumeGrant(p, answered)
  /\ UNCHANGED tokenOf
  /\ IF ConsumeVerdict(grants[k.grant], k.claim, k.now) = "ErrInvalidClaim"
     THEN UNCHANGED service
     ELSE \E h \in Handlers : A!ConsumeGrant(h, k.grant)

\* Everything else that happens to a grant.
Granting ==
  /\ \/ Request
     \/ \E g \in Grants, status \in {"expired", "revoked"} : Withdraw(g, status)
     \/ \E p \in Procs : \/ Fail(p) \/ ReleaseGrant(p)
                         \/ \E answered \in BOOLEAN : ClaimGrant(p, answered)
  /\ UNCHANGED <<service, tokenOf>>

ONext ==
  \/ Tick /\ UNCHANGED <<service, tokenOf, farms>>
  \/ Reviewing /\ UNCHANGED farms
  \/ /\ Granting \/ \E p \in Procs, answered \in BOOLEAN : Consume(p, answered)
     /\ NoReleaseAfterCommit
     /\ UNCHANGED farms
  \/ \E g \in Grants, c \in Claims : CommitFarm(g, c) /\ UNCHANGED <<service, tokenOf>>

OSpec == OInit /\ [][ONext]_ovars

----
(* Properties.                                                            *)

\* The approvals see of the provisioning operations what Approvals says of them:
\* leases, retries and lost answers do not matter to the token store.
ImplementsApprovals == A!Spec

\* Whoever gets a farm was approved and never declined, and was mailed the token
\* of the one grant of the application.
FarmForApproved ==
  \A g \in Grants : farms[g] # {} =>
    /\ apps[g].status = "approved"
    /\ grants[g] # NoGrant /\ <<g, tokenOf[g]>> \in mailed
====
