---- MODULE Approvals ----
(***************************************************************************)
(* The approval of an application: Service.Approve of internal/approvals   *)
(* step by step, between a database that commits or does not, a token      *)
(* store on a volume, and an email provider, with Service.Decline and      *)
(* Service.ConsumeGrant running beside it.                                 *)
(*                                                                         *)
(* Approve writes a candidate grant token to the store before it knows     *)
(* whether the decision is its own to take, and deletes it when it is not. *)
(* The process may stop, the client may go away (its context is then       *)
(* cancelled and no later step of the handler has an effect), and any      *)
(* single call may fail.                                                   *)
(***************************************************************************)
EXTENDS ApprovalStore, TokenFiles

CONSTANTS Apps,            \* applications, each with its review capability
          Handlers,        \* requests served at the same time, on any replica
          Tokens,          \* grant tokens that can be generated
          ReviewLifetime,  \* submissions.Service.reviewLifetime
          GrantLifetime,   \* Service.grantLifetime
          Skew,            \* how far a replica's clock is from the database's
          AmbiguousCommit, \* may a COMMIT take effect and still return an error?
          MaxClock,        \* bound of the model: the clock stops here
          NoGrant,         \* no row of signup_grants for the application
          Idle             \* a handler that serves no request

VARIABLES clock,           \* the database's clock
          apps,            \* applications and their review capabilities
          grants,          \* signup_grants, by application
          handlers,        \* the requests being served
          mailed           \* history: <<application, token>> accepted by the provider

vars == <<clock, apps, grants, files, handlers, mailed, strays, faults>>

ASSUME ApprovalsAssumption ==
  /\ ReviewLifetime \in Nat \ {0}
  /\ GrantLifetime \in Nat \ {0}
  /\ Skew \in Nat
  /\ AmbiguousCommit \in BOOLEAN
  /\ MaxClock \in Nat /\ MaxFaults \in Nat

\* What a grant's row is to its approval: the token its digest and secret
\* reference stand for, its expiry, and whether it was consumed.  Leases on it
\* are the subject of SignupGrants.
GrantRow == [token : Tokens, expiresAt : Nat, spent : BOOLEAN]

\* `token` is the plaintext the handler holds, or the file it is to delete;
\* `ref` the secret reference of its candidate, then of the stored grant;
\* `from` the time since which it has read its replica's clock.
Steps   == {"decide", "undo", "swap", "read", "mail", "sweep"}
Request == [step : Steps, app : Apps, token : Tokens, ref : Tokens, from : Nat]

ASSUME ApprovalNullsAssumption == NoGrant \notin GrantRow /\ Idle \notin Request

TypeOK ==
  /\ clock \in Nat
  /\ apps \in [Apps -> Application]
  /\ grants \in [Apps -> GrantRow \cup {NoGrant}]
  /\ files \in SUBSET Tokens
  /\ handlers \in [Handlers -> Request \cup {Idle}]
  /\ mailed \in SUBSET (Apps \X Tokens)
  /\ strays \in SUBSET Tokens
  /\ faults \in 0..MaxFaults

Init ==
  /\ clock = 0
  /\ apps = [a \in Apps |-> [status |-> "pending", review |-> "active",
                             reviewExpiresAt |-> ReviewLifetime]]
  /\ grants = [a \in Apps |-> NoGrant]
  /\ files = {}
  /\ handlers = [h \in Handlers |-> Idle]
  /\ mailed = {}
  /\ strays = {}
  /\ faults = 0

----
(* Faults, time and the operator.                                         *)

Tick ==
  /\ clock < MaxClock
  /\ clock' = clock + 1
  /\ UNCHANGED <<apps, grants, files, handlers, mailed, strays, faults>>

\* Outside the service: an operator's UPDATE takes a review capability back.
Withdraw(a, review) ==
  /\ apps[a].review = "active"
  /\ apps' = [apps EXCEPT ![a].review = review]
  /\ UNCHANGED <<clock, grants, files, handlers, mailed, strays, faults>>

\* The handler returns to its caller, or goes on to its next step.
Return(h)     == handlers' = [handlers EXCEPT ![h] = Idle]
GoTo(h, step) == handlers' = [handlers EXCEPT ![h].step = step]
At(h, step)   == handlers[h] # Idle /\ handlers[h].step = step

\* The process or its client goes away before the handler's next step.  What
\* it would have deleted stays.
Stop(h) ==
  /\ handlers[h] # Idle
  /\ Fault
  /\ IF handlers[h].step \in {"decide", "undo", "swap", "sweep"}
     THEN Abandon(handlers[h].token)
     ELSE UNCHANGED strays
  /\ Return(h)
  /\ UNCHANGED <<clock, apps, grants, files, mailed>>

----
(* Service.Approve.                                                       *)

\* Tokens nobody has seen: 256 random bits repeat no earlier token.
Fresh(t) ==
  /\ \A a \in Apps : (grants[a] # NoGrant => grants[a].token # t) /\ <<a, t>> \notin mailed
  /\ \A h \in Handlers : handlers[h] # Idle => t \notin {handlers[h].token, handlers[h].ref}

\* Generate and tokens.Put.  When either fails nothing has changed.
Approve(h, a) ==
  /\ handlers[h] = Idle
  /\ \E t \in Tokens :
       /\ Fresh(t)
       /\ Put(t)
       /\ handlers' = [handlers EXCEPT ![h] =
            [step |-> "decide", app |-> a, token |-> t, ref |-> t, from |-> clock]]
  /\ UNCHANGED <<clock, apps, grants, mailed, strays, faults>>

\* What time.Now can have returned on some replica since time `from`.
Readings(from) == {now \in 0..(clock + Skew) : from - Skew <= now}

\* The three writes of an approval: application, capability and grant.  The
\* table's CHECK (expires_at > created_at) compares the expiry with the start of
\* the transaction, which came after `from`.
WriteApproval(r, issued) ==
  /\ r.from < issued + GrantLifetime
  /\ apps' = [apps EXCEPT ![r.app] = DecidedRow(@, "approved")]
  /\ grants' = [grants EXCEPT ![r.app] =
       [token |-> r.token, expiresAt |-> issued + GrantLifetime, spent |-> FALSE]]

\* repo.Approve commits and its answer arrives, or it refuses: the verdict says
\* so, or the CHECK does when the expiry was passed by the time the transaction
\* began.  The clock was read twice after Put, for the candidate's expiry and
\* then for the decision, and the transaction may have waited for its row locks
\* ever since.
Decide(h) ==
  LET r == handlers[h] IN
  /\ At(h, "decide")
  /\ \E issued, now \in Readings(r.from) :
       LET verdict == ApproveVerdict(apps[r.app], issued + GrantLifetime, now) IN
       /\ issued <= now
       /\ \/ verdict = "approved" /\ WriteApproval(r, issued) /\ GoTo(h, "mail")
          \/ /\ verdict = "replayed"
             /\ handlers' = [handlers EXCEPT ![h] =
                  [r EXCEPT !.step = "swap", !.ref = grants[r.app].token]]
             /\ UNCHANGED <<apps, grants>>
          \/ /\ \/ verdict \notin {"approved", "replayed"}
                \/ verdict = "approved" /\ issued + GrantLifetime <= clock
             /\ GoTo(h, "undo")
             /\ UNCHANGED <<apps, grants>>
  /\ UNCHANGED <<clock, files, mailed, strays, faults>>

\* repo.Approve returns an error.  Its transaction was rolled back or, with
\* AmbiguousCommit, its COMMIT took effect and only the answer was lost.
DecideFails(h) ==
  LET r == handlers[h] IN
  /\ At(h, "decide")
  /\ Fault
  /\ \/ UNCHANGED <<apps, grants>>
     \/ /\ AmbiguousCommit
        /\ \E issued, now \in Readings(r.from) :
             /\ issued <= now
             /\ ApproveVerdict(apps[r.app], issued + GrantLifetime, now) = "approved"
             /\ WriteApproval(r, issued)
  /\ GoTo(h, "undo")
  /\ UNCHANGED <<clock, files, mailed, strays>>

\* The decision was refused or failed: delete the candidate and return.
Undo(h) ==
  /\ At(h, "undo")
  /\ Delete(handlers[h].token)
  /\ Return(h)
  /\ UNCHANGED <<clock, apps, grants, mailed>>

\* Fault: the stored grant's token is deleted instead of the candidate.
SwapDeletingStored(h) ==
  /\ At(h, "swap")
  /\ Delete(handlers[h].ref)
  /\ GoTo(h, "read")
  /\ UNCHANGED <<clock, apps, grants, mailed>>

\* Fault: the candidate is left in the store.
SwapKeepingCandidate(h) ==
  /\ At(h, "swap")
  /\ GoTo(h, "read")
  /\ UNCHANGED <<clock, apps, grants, files, mailed, strays, faults>>

\* The application was approved before: delete the candidate.
Swap(h) ==
  /\ At(h, "swap")
  /\ Delete(handlers[h].token)
  /\ GoTo(h, "read")
  /\ UNCHANGED <<clock, apps, grants, mailed>>

\* ... and read the token of the grant that stands.  Without it the request
\* fails: "approved signup grant token is unavailable".  On a tampered or badly
\* restored volume the read finds some other token (a fault of this one read).
Read(h) ==
  LET r == handlers[h]
      GoOn(t) == handlers' = [handlers EXCEPT ![h] = [r EXCEPT !.step = "mail", !.token = t]]
  IN /\ At(h, "read")
     /\ \/ Readable(r.ref) /\ GoOn(r.ref) /\ NoFault
        \/ Readable(r.ref) /\ (\E t \in Tokens \ {r.ref} : GoOn(t)) /\ Fault
        \/ ~Readable(r.ref) /\ Return(h) /\ NoFault
        \/ Return(h) /\ Fault
     /\ UNCHANGED <<clock, apps, grants, files, mailed, strays>>

\* ResendSender.Send: a provider that accepted the message may still fail to
\* say so.
Send(a, t) ==
  \/ mailed' = mailed \cup {<<a, t>>} /\ (NoFault \/ Fault)
  \/ UNCHANGED mailed /\ Fault

\* The message is rendered and sent, or there is nothing to send it with.
sendApproval(a, t) == Send(a, t) \/ (UNCHANGED mailed /\ Fault)

\* Fault: whatever was read is taken for the grant's token.
IntactUnchecked(r) == TRUE

\* The digest of the token is that of the stored grant: its row, which repo.Approve
\* returned, is known by `ref`.
Intact(r) == r.token = r.ref

\* The email is attempted with the grant's token.  Any other token "failed
\* integrity validation": the request returns without an email.
Mail(h) ==
  /\ At(h, "mail")
  /\ IF Intact(handlers[h])
     THEN sendApproval(handlers[h].app, handlers[h].token)
     ELSE UNCHANGED mailed /\ NoFault
  /\ Return(h)
  /\ UNCHANGED <<clock, apps, grants, files, strays>>

----
(* Service.Decline and Service.ConsumeGrant.                              *)

\* One transaction, with a clock reading of any age.
Decline(a) ==
  /\ \E now \in 0..(clock + Skew) : DeclineVerdict(apps[a], now) = "declined"
  /\ apps' = [apps EXCEPT ![a] = DecidedRow(@, "declined")]
  /\ UNCHANGED <<clock, grants, files, handlers, mailed, strays, faults>>

\* A provisioning operation that was mailed the token and holds the grant
\* consumes it, or repeats its consume; the handler then goes on to delete the
\* token file.  When the answer of the COMMIT is lost it returns without that.
ConsumeGrant(h, a) ==
  /\ handlers[h] = Idle
  /\ grants[a] # NoGrant
  /\ <<a, grants[a].token>> \in mailed
  /\ grants[a].spent \/ \E now \in 0..(clock + Skew) : now < grants[a].expiresAt
  /\ grants' = [grants EXCEPT ![a].spent = TRUE]
  /\ \/ /\ handlers' = [handlers EXCEPT ![h] =
             [step |-> "sweep", app |-> a, token |-> grants[a].token, ref |-> grants[a].token,
              from |-> clock]]
        /\ NoFault
        /\ UNCHANGED strays
     \/ /\ Fault
        /\ Abandon(grants[a].token)
        /\ UNCHANGED handlers
  /\ UNCHANGED <<clock, apps, files, mailed>>

\* Fault: the consumed grant's token is left in the store.
SweepNothing(h) ==
  /\ At(h, "sweep")
  /\ Return(h)
  /\ UNCHANGED <<clock, apps, grants, files, mailed, strays, faults>>

Sweep(h) ==
  /\ At(h, "sweep")
  /\ Delete(handlers[h].token)
  /\ Return(h)
  /\ UNCHANGED <<clock, apps, grants, mailed>>

Next ==
  \/ Tick
  \/ \E a \in Apps : \/ \E review \in {"revoked", "expired"} : Withdraw(a, review)
                     \/ Decline(a)
  \/ \E h \in Handlers :
       \/ \E a \in Apps : Approve(h, a) \/ ConsumeGrant(h, a)
       \/ Decide(h) \/ DecideFails(h) \/ Undo(h) \/ Swap(h) \/ Read(h) \/ Mail(h)
       \/ Sweep(h) \/ Stop(h)

Spec == Init /\ [][Next]_vars

\* A handler that is not stopped runs on (the Go scheduler), and a reviewer
\* whose approval was not confirmed sends it again: some handler is free often
\* enough to take it.
Fairness ==
  /\ \A h \in Handlers : WF_vars(Decide(h) \/ Undo(h) \/ Swap(h) \/ Read(h) \/ Mail(h) \/ Sweep(h))
  /\ \A a \in Apps : SF_vars(\E h \in Handlers : Approve(h, a))

FairSpec == Spec /\ Fairness

----
(* Properties.                                                            *)

\* The rows of one decision are written together: an application has a grant
\* exactly when it is approved, and its capability is decided exactly when the
\* application is.
RowsAgree ==
  \A a \in Apps : /\ (grants[a] # NoGrant) <=> (apps[a].status = "approved")
                  /\ (apps[a].status # "pending") <=> (apps[a].review = "decided")

\* The review page and the decisions agree: the reviewer is shown an application
\* exactly when a decision on it would be taken.
ReviewForetells ==
  \A a \in Apps, now \in 0..(clock + Skew) :
    LET shown == ResolveReviewVerdict(apps[a], now) = "resolved" IN
    /\ shown <=> DeclineVerdict(apps[a], now) = "declined"
    /\ shown <=> ApproveVerdict(apps[a], now + GrantLifetime, now) = "approved"

\* No email ever carries a token other than that of the application's one
\* grant: of concurrent approvals every loser mails the winner's token, and a
\* candidate that was undone was never mailed.
MailedItsGrant ==
  \A a \in Apps, t \in Tokens :
    <<a, t>> \in mailed => grants[a] # NoGrant /\ grants[a].token = t

\* As long as an approved application's grant is not consumed its token is in
\* the store, so an approval can be repeated until its email goes out.
TokenKept ==
  \A a \in Apps : grants[a] # NoGrant /\ ~grants[a].spent => grants[a].token \in files

\* A plaintext token outlives its use only where a delete failed or a handler
\* was stopped: every other file is the token of a grant that can still be
\* used, or is about to be deleted or decided on by the handler that holds it.
NoStrayFiles ==
  \A t \in files \ strays :
    \/ \E a \in Apps : grants[a] # NoGrant /\ grants[a].token = t /\ ~grants[a].spent
    \/ \E h \in Handlers : /\ handlers[h] # Idle
                           /\ handlers[h].token = t
                           /\ handlers[h].step \in {"decide", "undo", "swap", "sweep"}

\* A decision stands: whatever approvals and declines are repeated or race, a
\* decided application never changes, and its grant keeps its token and expiry.
DecisionStands ==
  [][\A a \in Apps : apps[a].review = "decided" =>
       /\ apps'[a] = apps[a]
       /\ grants[a] # NoGrant =>
            /\ grants'[a].token = grants[a].token
            /\ grants'[a].expiresAt = grants[a].expiresAt]_vars

\* The approvals implement ApplicationLife: what became of an application is read
\* off its rows, its link is the token of its grant, and it is kept while it has
\* a file.
StateOf(a) ==
  CASE Decided(apps[a], "approved") ->
         IF grants[a] # NoGrant /\ grants[a].spent THEN "spent" ELSE "approved"
    [] Decided(apps[a], "declined") -> "declined"
    [] Undecided(apps[a])           -> "open"
    [] OTHER                        -> "closed"
LinkOf(a) == IF grants[a] = NoGrant THEN NoGrant ELSE grants[a].token

Life == INSTANCE ApplicationLife
          WITH state <- [a \in Apps |-> StateOf(a)], link <- [a \in Apps |-> LinkOf(a)],
               kept <- {a \in Apps : grants[a] # NoGrant /\ grants[a].token \in files},
               NoLink <- NoGrant, MayLose <- AmbiguousCommit
ImplementsApplicationLife == Life!Spec

\* An approval is delivered in spite of crashes, lost answers and failing
\* calls, as long as they end and the reviewer repeats the approval before the
\* review capability has expired on any clock.
ApprovedIsMailed ==
  \A a \in Apps : apps[a].status = "approved"
    ~> \/ \E t \in Tokens : <<a, t>> \in mailed
       \/ ReviewLapsed(apps[a], clock + Skew)

\* The plaintext token of a consumed grant does not stay in the store: unless the
\* delete failed or its handler was stopped it is deleted in the end, whatever
\* approvals are repeated meanwhile.
SpentIsSwept ==
  \A a \in Apps, t \in Tokens :
    grants[a] # NoGrant /\ grants[a].token = t /\ grants[a].spent
      ~> t \notin files \/ t \in strays
====
